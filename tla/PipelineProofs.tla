--------------------------- MODULE PipelineProofs ---------------------------
(***************************************************************************)
(* Theorems about one core (Pipeline.tla): its types, and that it          *)
(* implements the machine of Isa.tla, for words of any width, every set of *)
(* programs and every run of stalls.                                       *)
(***************************************************************************)
EXTENDS Pipeline, StagesProofs

\* Programs fit into the instruction memory, whose addresses are below that of an empty
\* stage.
LEMMA ProgramFacts ==
  /\ Programs \subseteq AnyProgram
  /\ LastAddress \in Nat /\ LastAddress + 4 < MAX_INTEGER
  /\ \A program \in Programs : Reaches(program, LastAddress)
  <1> DEFINE targets == IF WORD < 512 THEN WORD ELSE 512
  <1>1. WORD \in Nat \ {0} /\ SIZE_OF_PROGRAM \in 0..1024
    BY WordFacts, PipelineAssumption
  <1>2. targets \in 1..512 /\ (targets = 512 \/ targets = WORD)
    BY <1>1
  <1>3. LastAddress = (IF targets > SIZE_OF_PROGRAM THEN targets ELSE SIZE_OF_PROGRAM) - 1
    BY DEF LastAddress
  <1> HIDE DEF targets
  <1>4. /\ LastAddress \in Nat /\ LastAddress + 4 < 65535
        /\ LastAddress >= SIZE_OF_PROGRAM - 1
        /\ LastAddress >= 511 \/ LastAddress >= WORD - 1
    BY <1>1, <1>2, <1>3
  <1>5. ASSUME NEW program \in Programs
        PROVE  program \in AnyProgram /\ Reaches(program, LastAddress)
    <2>1. PICK n \in 0..SIZE_OF_PROGRAM : program \in [0..(n - 1) -> Instruction]
      BY PipelineAssumption
    <2>2. n \in Nat /\ n <= SIZE_OF_PROGRAM
      BY <1>1
    <2>3. program \in AnyProgram
      BY <2>1, <2>2 DEF AnyProgram
    <2>4. \A a \in DOMAIN program : a <= LastAddress
      BY <1>1, <1>4, <2>1, <2>2
    <2>5. LastAddress + 4 < MAX_INTEGER
      BY <1>4 DEF MAX_INTEGER
    <2> QED BY <1>4, <2>3, <2>4, <2>5 DEF Reaches
  <1>6. LastAddress + 4 < MAX_INTEGER
    BY <1>4 DEF MAX_INTEGER
  <1> QED BY <1>4, <1>5, <1>6

\* What keeps the core in its type: an instruction is that of its address, and addresses
\* end two places behind the last.
TypeInv ==
    /\ core.program \in Programs /\ data \in [Words -> Words]
    /\ InBounds(core, LastAddress)

\* A step is a call of operate_the_core.
LEMMA CoreCalls ==
  ASSUME [Next]_vars
  PROVE  CallOf(core, core', data, data')
  BY DEF Next, vars, NoAccess, AccessWaits, LoadSucceeds, StoreSucceeds, Terminate, Rest, CallOf

\* Each step keeps it.
LEMMA TypeStep ==
  ASSUME TypeInv, [Next]_vars
  PROVE  TypeInv'
  <1>1. /\ InBounds(core', LastAddress) /\ core'.program = core.program
        /\ data' \in [Words -> Words]
    BY CoreCalls, CallInBounds DEF TypeInv
  <1> QED BY <1>1 DEF TypeInv

\* A core starts in it.
LEMMA TypeStart ==
  ASSUME Init
  PROVE  TypeInv
  <1>1. PICK program \in Programs : core = Started(program)
    BY DEF Init
  <1>2. core \in CoreType
    BY <1>1, StartedType, ProgramFacts
  <1>3. core.program = program
    BY <1>1, StartedFacts
  <1>4. Fetched(core) /\ Bounded(core, LastAddress)
    BY <1>1, StartedBounded, ProgramFacts
  <1>5. data \in [Words -> Words]
    BY WordFacts DEF Init
  <1> QED BY <1>2, <1>3, <1>4, <1>5, ProgramFacts DEF TypeInv, InBounds

\* The core, its stages and its data keep their types: the program counter stops three
\* places behind the last address at most, whatever the program and the stalls.
THEOREM TypeCorrect == Spec => []TypeOK
  <1>1. Init => TypeInv
    BY TypeStart
  <1>2. TypeInv /\ [Next]_vars => TypeInv'
    BY TypeStep
  <1>3. TypeInv => TypeOK
    <2> SUFFICES ASSUME TypeInv PROVE TypeOK
      OBVIOUS
    <2>1. /\ core \in CoreType /\ core.program \in Programs /\ data \in [Words -> Words]
          /\ Bounded(core, LastAddress) /\ LastAddress \in Nat
      BY ProgramFacts DEF TypeInv, InBounds
    <2>2. core.pc \in 0..(LastAddress + 3)
      BY <2>1, CoreParts DEF Bounded
    <2>3. ASSUME NEW p \in Phases PROVE core.pipe_stages[p] \in Stage
      <3>1. core.pipe_stages[p] \in StageType /\ core.pipe_stages[p].pc \in Nat
        BY <2>1, CoreParts
      <3>2. core.pipe_stages[p].pc \in 0..(LastAddress + 2) \cup {MAX_INTEGER}
        BY <2>1, <3>1 DEF Bounded, Active
      <3> QED BY <3>1, <3>2 DEF Stage, StageType
    <2>4. core.pipe_stages \in [Phases -> Stage]
      BY <2>1, <2>3, CoreParts
    <2> QED BY <2>1, <2>2, <2>4 DEF TypeOK, CoreType
  <1> QED BY <1>1, <1>2, <1>3, PTL DEF Spec

-----------------------------------------------------------------------------
(* The refinement.                                                         *)

\* The instructions of Isa.tla are those of the stages.
LEMMA SameInstructions ==
  /\ I!Arithmetic = Arithmetic /\ I!Branches = Branches
  /\ I!Words = Words /\ I!WORD = WORD /\ I!Halted = HALTED
  /\ I!NEXT_INSTRUCTION_ADDRESS_REGISTER = NEXT_INSTRUCTION_ADDRESS_REGISTER
  /\ \A n : I!At(n) = At(core.program, n)
  /\ \A program, n : I!InstructionAt(program, n) = InstructionAt(program, n)
  /\ \A regs, i : /\ I!Result(regs, i) = Result(regs, i)
                  /\ I!AddressIn(regs, i) = AddressIn(regs, i)
                  /\ I!Taken(regs, i) = Taken(regs, i)
                  /\ I!Target(regs, i) = Target(regs, i)
                  /\ \A r : I!Value(regs, i, r) = Value(regs, i, r)
  /\ \A regs, r, v : I!Written(regs, r, v) = Written(regs, r, v)
  <1>1. /\ I!Arithmetic = Arithmetic /\ I!Branches = Branches
        /\ I!Words = Words /\ I!WORD = WORD /\ I!Halted = HALTED
        /\ I!NEXT_INSTRUCTION_ADDRESS_REGISTER = NEXT_INSTRUCTION_ADDRESS_REGISTER
        /\ I!REG_IMM = REG_IMM
    BY DEF I!Arithmetic, Arithmetic, I!Branches, Branches, I!Words, Words, I!WORD, WORD,
           I!Halted, HALTED, I!NEXT_INSTRUCTION_ADDRESS_REGISTER,
           NEXT_INSTRUCTION_ADDRESS_REGISTER, I!REG_IMM, REG_IMM
  <1>2. \A program, n : I!InstructionAt(program, n) = InstructionAt(program, n)
    BY DEF I!InstructionAt, InstructionAt, I!Halt, Halt
  <1>3. \A n : I!At(n) = At(core.program, n)
    BY <1>1, <1>2 DEF I!At, At
  <1>4. \A regs, i, r : I!Value(regs, i, r) = Value(regs, i, r)
    BY <1>1 DEF I!Value, Value
  <1>5. \A regs, r, v : I!Written(regs, r, v) = Written(regs, r, v)
    BY <1>1 DEF I!Written, Written
  <1>8. \A op, a, b : I!Computed(op, a, b) = Computed(op, a, b)
    BY ZenonT(40) DEF I!Computed, Computed, I!OfBits, OfBits, I!Bits, Bits, I!Shift, Shift,
                 I!Words, Words, I!WORD, WORD
  <1>9. \A regs, i : I!Result(regs, i) = Result(regs, i)
    BY <1>4, <1>8, Zenon DEF I!Result, Result
  <1>10. \A regs, i : I!AddressIn(regs, i) = AddressIn(regs, i)
    BY <1>1, <1>4, Zenon DEF I!AddressIn, AddressIn
  <1>11. \A regs, i : I!Taken(regs, i) = Taken(regs, i)
    BY <1>4 DEF I!Taken, Taken
  <1>12. \A regs, i : I!Target(regs, i) = Target(regs, i)
    BY <1>4, Zenon DEF I!Target, Target
  <1> QED BY <1>1, <1>2, <1>3, <1>4, <1>5, <1>9, <1>10, <1>11, <1>12

\* What keeps a core the machine of Isa.tla.
SoundInv == TypeInv /\ Sound(core)

\* When the machine stands still it takes no step; else it carries out an instruction.
LEMMA MachineStep ==
  ASSUME (Stands(core, core') /\ data' = data) \/ CarriesOut(core, core', data, data')
  PROVE  [I!Next]_(I!vars)
  <1> DEFINE pc == PcOfIsa(core)
             next == NextOfIsa(core)
             i == InstructionAt(core.program, pc)
             regs == WrittenBack(core)
  <1>1. CASE Stands(core, core') /\ data' = data
    BY <1>1, Zenon DEF Stands, I!vars
  <1>2. CASE CarriesOut(core, core', data, data')
    <2>1. /\ pc # HALTED /\ core'.program = core.program /\ PcOfIsa(core') = next
          /\ NextOfIsa(core') = IF next = HALTED THEN HALTED
                                ELSE At(core.program, Succ(regs, i, next))
          /\ Effect(i, next, regs, WrittenBack(core'), data, data')
      BY <1>2, Zenon DEF CarriesOut
    <2>2. pc # I!Halted /\ I!InstructionAt(core.program, pc) = i
      BY <2>1, SameInstructions, Zenon
    <2> HIDE DEF i, pc, next
    <2>3. I!Advance(i)
      <3>1. /\ I!Taken(regs, i) = Taken(regs, i) /\ I!Target(regs, i) = Target(regs, i)
            /\ I!Halted = HALTED /\ \A n : I!At(n) = At(core.program, n)
        BY SameInstructions, Zenon
      <3>2. NextOfIsa(core') = I!Behind(next, IF I!Taken(regs, i) THEN I!Target(regs, i) ELSE next + 1)
        BY <2>1, <3>1 DEF I!Behind, Succ
      <3> QED BY <2>1, <3>2 DEF I!Advance, next
    <2>4. I!Compute(i) \/ I!Branch(i) \/ I!Jal(i) \/ I!Lw(i) \/ I!Sw(i)
      <3>1. \/ i.op \in Arithmetic /\ WrittenBack(core') = Written(regs, i.rd, Result(regs, i))
               /\ data' = data
            \/ i.op \in Branches \ {"jal"} /\ WrittenBack(core') = regs /\ data' = data
            \/ /\ i.op = "jal" /\ data' = data
               /\ \E a \in IF next = HALTED THEN Words ELSE {(next + 1) % WORD} :
                     WrittenBack(core') = [regs EXCEPT ![NEXT_INSTRUCTION_ADDRESS_REGISTER] = a]
            \/ i.op = "lw" /\ WrittenBack(core') = Written(regs, i.rd, data[AddressIn(regs, i)])
               /\ data' = data
            \/ /\ i.op = "sw" /\ WrittenBack(core') = regs
               /\ data' = [data EXCEPT ![AddressIn(regs, i)] = Value(regs, i, i.rd)]
        BY <2>1, Zenon DEF Effect
      <3> QED BY <3>1, SameInstructions DEF I!Compute, I!Branch, I!Jal, I!Lw, I!Sw, next
    <2> QED BY <2>2, <2>3, <2>4, Zenon DEF I!Next, pc
  <1> QED BY <1>1, <1>2

\* A step of a core that does not depart is a step of the machine, or none, and all remains
\* in order.
LEMMA SoundStep ==
  ASSUME SoundInv, PlainPrograms, NoDeparture, [Next]_vars
  PROVE  SoundInv' /\ [I!Next]_(I!vars)
  <1>1. InOrder(core, LastAddress) /\ core.program \in Programs /\ data \in [Words -> Words]
    BY DEF SoundInv, TypeInv, InOrder
  <1>2. Keeps(core)
    BY <1>1 DEF Keeps, PlainPrograms, NoDeparture
  <1>3. /\ InOrder(core', LastAddress)
        /\ (Stands(core, core') /\ data' = data) \/ CarriesOut(core, core', data, data')
    BY <1>1, <1>2, CoreCalls, CallInOrder
  <1>4. TypeInv'
    BY TypeStep DEF SoundInv
  <1> QED BY <1>3, <1>4, MachineStep DEF SoundInv, InOrder

\* A core starts as the machine does.
LEMMA SoundStart ==
  ASSUME Init
  PROVE  SoundInv /\ I!Init
  <1>1. PICK program \in Programs : core = Started(program)
    BY DEF Init
  <1>2. /\ InOrder(core, LastAddress) /\ core.program = program
        /\ WrittenBack(core) = [r \in Registers |-> 0]
        /\ PcOfIsa(core) = At(program, 0)
        /\ NextOfIsa(core) = IF PcOfIsa(core) = HALTED THEN HALTED ELSE At(program, 1)
    BY <1>1, ProgramFacts, StartInOrder
  <1>3. TypeInv /\ data \in [Words -> Words]
    BY TypeStart DEF TypeInv
  <1>4. /\ PcOfIsa(core) = I!At(0)
        /\ NextOfIsa(core) = I!Behind(PcOfIsa(core), 1)
    BY <1>2, SameInstructions DEF I!Behind
  <1>5. I!Init
    BY <1>1, <1>2, <1>3, <1>4, SameInstructions DEF I!Init
  <1> QED BY <1>2, <1>3, <1>5 DEF SoundInv, InOrder

\* Whatever it has to stall for, a core implements the machine of Isa.tla, with every program
\* that keeps to what the hazard check knows, as long as no instruction leaves decode
\* undecoded and no store misses its value.
THEOREM PipelineImplementsIsa ==
  ASSUME PlainPrograms
  PROVE  Spec /\ []NoDeparture => ImplementsIsa
  <1>1. Init => SoundInv /\ I!Init
    BY SoundStart
  <1>2. SoundInv /\ NoDeparture /\ [Next]_vars => SoundInv' /\ [I!Next]_(I!vars)
    BY SoundStep
  <1> QED BY <1>1, <1>2, PTL DEF Spec, ImplementsIsa, I!Spec

=============================================================================
