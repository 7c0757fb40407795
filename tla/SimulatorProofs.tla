-------------------------- MODULE SimulatorProofs --------------------------
(***************************************************************************)
(* Theorems about the whole simulator, for all programs and every file     *)
(* memin.txt: what CoherenceProofs.tla proves of a call of operate_bus and *)
(* of a cache holds of the calls that the pipelines make, and what         *)
(* StagesProofs.tla proves of a core holds of each of the cores on the     *)
(* memory that they share.                                                 *)
(***************************************************************************)
EXTENDS Simulator, CoherenceProofs, FiniteSetTheorems

SP == INSTANCE StagesProofs

-----------------------------------------------------------------------------
(* The stages of Simulator.tla are those that StagesProofs.tla is about.   *)

\* Constants of the two instances.
LEMMA SameWords ==
  /\ S!WORD = SP!WORD /\ S!Words = SP!Words /\ S!Instruction = SP!Instruction
  /\ S!Phases = SP!Phases /\ S!Empty = SP!Empty /\ S!Halt = SP!Halt
  BY DEF S!WORD, SP!WORD, S!Words, SP!Words, S!Instruction, SP!Instruction,
     S!Operands, SP!Operands, S!Arithmetic, SP!Arithmetic, S!Branches, SP!Branches,
     S!Accesses, SP!Accesses, S!Phases, SP!Phases, S!Empty, SP!Empty, S!Halt, SP!Halt,
     S!Zero, SP!Zero, S!MAX_INTEGER, SP!MAX_INTEGER, S!REG_IMM, SP!REG_IMM,
     S!FETCH, SP!FETCH, S!WRITE_BACK, SP!WRITE_BACK

\* What an instruction does in the two instances.
LEMMA SameInstructions ==
  /\ \A program, n : S!InstructionAt(program, n) = SP!InstructionAt(program, n)
  /\ \A regs, i, r : S!Value(regs, i, r) = SP!Value(regs, i, r)
  /\ \A regs, r, v : S!Written(regs, r, v) = SP!Written(regs, r, v)
  /\ \A op, a, b : S!Computed(op, a, b) = SP!Computed(op, a, b)
  <1>1. \A program, n : S!InstructionAt(program, n) = SP!InstructionAt(program, n)
    BY SameWords DEF S!InstructionAt, SP!InstructionAt
  <1>2. \A regs, i, r : S!Value(regs, i, r) = SP!Value(regs, i, r)
    BY DEF S!Value, SP!Value, S!REG_IMM, SP!REG_IMM
  <1>3. \A regs, r, v : S!Written(regs, r, v) = SP!Written(regs, r, v)
    BY DEF S!Written, SP!Written, S!REG_IMM, SP!REG_IMM
  <1>4. \A op, a, b : S!Computed(op, a, b) = SP!Computed(op, a, b)
    BY SameWords DEF S!Computed, SP!Computed, S!Shift, SP!Shift, S!OfBits, SP!OfBits, S!Bits, SP!Bits
  <1> QED BY <1>1, <1>2, <1>3, <1>4

\* Results, addresses and branch targets.
LEMMA SameResults ==
  \A regs, i : /\ S!Result(regs, i) = SP!Result(regs, i)
               /\ S!AddressIn(regs, i) = SP!AddressIn(regs, i)
               /\ S!Taken(regs, i) = SP!Taken(regs, i)
               /\ S!Target(regs, i) = SP!Target(regs, i)
  BY SameWords, SameInstructions DEF S!Result, SP!Result, S!AddressIn, SP!AddressIn,
     S!Taken, SP!Taken, S!Target, SP!Target

\* Numbers and names of the stages.
LEMMA SameStages ==
  /\ S!FETCH = SP!FETCH /\ S!DECODE = SP!DECODE /\ S!EXECUTE = SP!EXECUTE
  /\ S!MEM = SP!MEM /\ S!WRITE_BACK = SP!WRITE_BACK /\ S!MAX_INTEGER = SP!MAX_INTEGER
  /\ S!REG_ZERO = SP!REG_ZERO /\ S!REG_IMM = SP!REG_IMM
  /\ S!Arithmetic = SP!Arithmetic /\ S!Branches = SP!Branches /\ S!Accesses = SP!Accesses
  /\ S!NEXT_INSTRUCTION_ADDRESS_REGISTER = SP!NEXT_INSTRUCTION_ADDRESS_REGISTER
  BY DEF S!FETCH, SP!FETCH, S!DECODE, SP!DECODE, S!EXECUTE, SP!EXECUTE, S!MEM, SP!MEM,
     S!WRITE_BACK, SP!WRITE_BACK, S!MAX_INTEGER, SP!MAX_INTEGER, S!REG_ZERO, SP!REG_ZERO,
     S!REG_IMM, SP!REG_IMM, S!Arithmetic, SP!Arithmetic, S!Branches, SP!Branches,
     S!Accesses, SP!Accesses,
     S!NEXT_INSTRUCTION_ADDRESS_REGISTER, SP!NEXT_INSTRUCTION_ADDRESS_REGISTER

\* The hazards of a core.
LEMMA SameHazards ==
  /\ \A stage : S!Active(stage) = SP!Active(stage)
  /\ \A k, p : S!Op(k, p) = SP!Op(k, p)
  /\ \A k : S!Hazards(k) = SP!Hazards(k)
  <1>1. \A stage : S!Active(stage) = SP!Active(stage)
    BY SameStages DEF S!Active, SP!Active
  <1>2. \A k, p : S!Op(k, p) = SP!Op(k, p)
    BY DEF S!Op, SP!Op
  <1>3. \A k, i : S!Reads(k, i) = SP!Reads(k, i)
    BY <1>2, SameStages DEF S!Reads, SP!Reads
  <1>4. \A k, p : S!Conflict(k, p) = SP!Conflict(k, p)
    BY <1>1, <1>3, SameStages DEF S!Conflict, SP!Conflict
  <1>5. \A k : S!Hazards(k) = SP!Hazards(k)
    BY <1>4, SameStages DEF S!Hazards, SP!Hazards
  <1> QED BY <1>1, <1>2, <1>5

\* What the stages leave behind.
LEMMA SameCalls ==
  \A k : /\ S!Fetch(k) = SP!Fetch(k) /\ S!Decode(k) = SP!Decode(k)
         /\ S!Execute(k) = SP!Execute(k) /\ S!WrittenBack(k) = SP!WrittenBack(k)
  <1> SUFFICES ASSUME NEW k
               PROVE  /\ S!Fetch(k) = SP!Fetch(k) /\ S!Decode(k) = SP!Decode(k)
                      /\ S!Execute(k) = SP!Execute(k) /\ S!WrittenBack(k) = SP!WrittenBack(k)
    OBVIOUS
  <1>1. S!Fetch(k) = SP!Fetch(k)
    BY SameHazards, SameInstructions, SameStages, Zenon DEF S!Fetch, SP!Fetch
  <1>2. S!Decodes(k) = SP!Decodes(k) /\ S!Computes(k) = SP!Computes(k)
    BY SameHazards, SameStages, Zenon DEF S!Decodes, SP!Decodes, S!Computes, SP!Computes
  <1>3. S!Decode(k) = SP!Decode(k)
    <2> DEFINE i == k.pipe_stages[S!DECODE].instruction
    <2>1. /\ S!Value(k.regs, i, i.rd) = SP!Value(k.regs, i, i.rd)
          /\ S!Taken(k.regs, i) = SP!Taken(k.regs, i)
          /\ S!Target(k.regs, i) = SP!Target(k.regs, i)
      BY SameInstructions, SameResults
    <2>2. /\ S!WORD = SP!WORD /\ S!DECODE = SP!DECODE /\ S!Branches = SP!Branches
          /\ S!Fetch(k).pc = SP!Fetch(k).pc
      BY <1>1, SameWords, SameStages
    <2> QED BY <1>2, <2>1, <2>2 DEF S!Decode, SP!Decode
  <1>4. S!Execute(k) = SP!Execute(k)
    BY <1>2, SameResults, SameStages, Zenon DEF S!Execute, SP!Execute
  <1>5. S!WrittenBack(k) = SP!WrittenBack(k)
    BY SameHazards, SameInstructions, SameStages, Zenon
    DEF S!WrittenBack, SP!WrittenBack, S!Destination, SP!Destination
  <1> QED BY <1>1, <1>3, <1>4, <1>5

\* What the stage MEM does, and what a core is after a call, at its start and at its end.
LEMMA SameCores ==
  /\ \A k : /\ S!MemStage(k) = SP!MemStage(k) /\ S!InMem(k) = SP!InMem(k)
            /\ S!Address(k) = SP!Address(k) /\ S!Word(k) = SP!Word(k)
            /\ S!Terminated(k) = SP!Terminated(k)
  /\ \A k, word : S!Holding(k, word) = SP!Holding(k, word)
  /\ \A k, stalled, stage : S!Cycled(k, stalled, stage) = SP!Cycled(k, stalled, stage)
  /\ \A program : S!Started(program) = SP!Started(program)
  <1>1. \A k : S!MemStage(k) = SP!MemStage(k)
    BY SameStages DEF S!MemStage, SP!MemStage
  <1>2. \A k : /\ S!InMem(k) = SP!InMem(k)
               /\ S!Address(k) = SP!Address(k) /\ S!Word(k) = SP!Word(k)
    BY <1>1, SameHazards, SameInstructions, SameResults, SameStages
    DEF S!InMem, SP!InMem, S!Address, SP!Address, S!Word, SP!Word
  <1>3. \A k, word : S!Holding(k, word) = SP!Holding(k, word)
    BY <1>1 DEF S!Holding, SP!Holding
  <1>4. \A stages, halt : S!Vacated(stages, halt) = SP!Vacated(stages, halt)
    BY SameStages, Zenon DEF S!Vacated, SP!Vacated
  <1>5. \A from, to : S!HandedOn(from, to) = SP!HandedOn(from, to)
    BY SameStages, SameHazards, Zenon DEF S!HandedOn, SP!HandedOn
  <1>6. ASSUME NEW k, NEW stalled, NEW stage
        PROVE  S!Cycled(k, stalled, stage) = SP!Cycled(k, stalled, stage)
    <2> DEFINE hazards == SP!Hazards(k)
               decode == SP!Decode(k)
               now == [k.pipe_stages EXCEPT ![SP!FETCH] = SP!Fetch(k).stage,
                                            ![SP!DECODE] = decode.stage,
                                            ![SP!EXECUTE] = SP!Execute(k), ![SP!MEM] = stage]
               handed(H(_, _)) ==
                 [p \in SP!Phases |->
                    IF p = SP!FETCH \/ (p = SP!DECODE /\ hazards) THEN now[p]
                    ELSE IF p = SP!EXECUTE /\ hazards THEN [now[p] EXCEPT !.pc = SP!MAX_INTEGER]
                    ELSE H(now[p - 1], now[p])]
               moved(H(_, _)) ==
                 IF stalled THEN [now EXCEPT ![SP!WRITE_BACK].pc = SP!MAX_INTEGER]
                 ELSE handed(H)
               after(stages) ==
                 [k EXCEPT !.regs = SP!WrittenBack(k), !.pc = decode.pc, !.pipe_stages = stages,
                           !.is_data_stall = hazards, !.is_mem_stall = stalled,
                           !.is_pip_halt = decode.halt]
    <2>1. /\ S!Hazards(k) = hazards /\ S!Decode(k) = decode /\ S!Fetch(k) = SP!Fetch(k)
          /\ S!Execute(k) = SP!Execute(k) /\ S!WrittenBack(k) = SP!WrittenBack(k)
          /\ S!Phases = SP!Phases
      BY SameWords, SameHazards, SameCalls
    <2>2. S!Cycled(k, stalled, stage) = after(S!Vacated(moved(S!HandedOn), decode.halt))
      BY <2>1, SameStages DEF S!Cycled
    <2>3. SP!Cycled(k, stalled, stage) = after(SP!Vacated(moved(SP!HandedOn), decode.halt))
      BY DEF SP!Cycled
    <2>4. handed(S!HandedOn) = handed(SP!HandedOn)
      <3> HIDE DEF now, hazards
      <3> QED BY <1>5
    <2>5. moved(S!HandedOn) = moved(SP!HandedOn)
      BY <2>4
    <2> HIDE DEF moved
    <2>6. S!Vacated(moved(S!HandedOn), decode.halt) = SP!Vacated(moved(SP!HandedOn), decode.halt)
      BY <1>4, <2>5
    <2> HIDE DEF after, decode
    <2> QED BY <2>2, <2>3, <2>6
  <1>7. \A k : S!Terminated(k) = SP!Terminated(k)
    BY DEF S!Terminated, SP!Terminated
  <1>8. \A program : S!Started(program) = SP!Started(program)
    BY SameWords, SameStages, Zenon DEF S!Started, SP!Started
  <1> QED BY <1>1, <1>2, <1>3, <1>6, <1>7, <1>8

-----------------------------------------------------------------------------
(* Types.                                                                  *)

CoresType == cores \in [Cores -> SP!CoreType]

\* What the stages' lemmas assume of the constants.
LEMMA StagesConstants == SP!InstructionsAssumption /\ SP!BinaryAssumption
  <1>1. SP!InstructionsAssumption
    BY WordAssumption DEF SP!InstructionsAssumption
  <1>2. SP!BinaryAssumption
    BY WordAssumption, SameWords
    DEF SP!BinaryAssumption, SP!BinaryNumbers, S!BinaryNumbers, SP!Bits, S!Bits
  <1> QED BY <1>1, <1>2

\* Sizes of the caches.
LEMMA CacheSizes ==
  /\ Cardinality(Indexes) \in Nat \ {0} /\ Cardinality(Tags) \in Nat \ {0}
  /\ BLOCK_SIZE * Cardinality(Indexes) \in Nat \ {0}
  <1>1. Cardinality(Indexes) \in Nat /\ Cardinality(Tags) \in Nat
    BY SimulatorAssumption, FS_CardinalityType
  <1>2. Indexes # {} /\ Tags # {} /\ BLOCK_SIZE \in Nat \ {0}
    BY MemoryAssumption
  <1>3. \A n \in Nat : 0..(n - 1) # {} => n # 0
    OBVIOUS
  <1>4. Cardinality(Indexes) \in Nat \ {0} /\ Cardinality(Tags) \in Nat \ {0}
    BY <1>1, <1>2, <1>3, SimulatorAssumption
  <1> QED BY <1>2, <1>4

\* Whatever its bits, the fields of an address are an offset, an index and a tag.
LEMMA AddressFields ==
  ASSUME NEW a \in Nat
  PROVE  AddressOf(a) \in Addresses
  <1> DEFINE size == BLOCK_SIZE * Cardinality(Indexes)
             indexes == Cardinality(Indexes)
             tags == Cardinality(Tags)
  <1>1. indexes \in Nat \ {0} /\ tags \in Nat \ {0} /\ size \in Nat \ {0}
        /\ BLOCK_SIZE \in Nat \ {0}
    BY CacheSizes, MemoryAssumption
  <1>2. Indexes = 0..(indexes - 1) /\ Tags = 0..(tags - 1)
    BY SimulatorAssumption
  <1>3. AddressOf(a) = [block |-> [tag |-> (a \div size) % tags,
                                   index |-> (a \div BLOCK_SIZE) % indexes],
                        offset |-> a % BLOCK_SIZE]
    BY DEF AddressOf
  <1> HIDE DEF size, indexes, tags
  <1>4. \A n, m \in Nat : m # 0 => n \div m \in Nat /\ n % m \in 0..(m - 1)
    OBVIOUS
  <1>5. a \div size \in Nat /\ a \div BLOCK_SIZE \in Nat /\ a % BLOCK_SIZE \in Offsets
    BY <1>1, <1>4 DEF Offsets
  <1>6. (a \div size) % tags \in Tags /\ (a \div BLOCK_SIZE) % indexes \in Indexes
    BY <1>1, <1>2, <1>4, <1>5
  <1> QED BY <1>3, <1>5, <1>6 DEF Addresses, Blocks

\* A set of line numbers that is bounded has a last one.
LEMMA LastLine ==
  ASSUME NEW n \in Nat, NEW T \in SUBSET (0..n), T # {}
  PROVE  Max(T) \in T
  <1> DEFINE R == {n - x : x \in T}
  <1>1. R \in SUBSET Nat /\ R # {}
    <2>1. \A x \in T : n - x \in Nat
      OBVIOUS
    <2>2. PICK x \in T : TRUE
      OBVIOUS
    <2>3. n - x \in R
      OBVIOUS
    <2>4. R \in SUBSET Nat
      BY <2>1
    <2> QED BY <2>3, <2>4
  <1>2. Min(R) \in R /\ \A y \in R : Min(R) <= y
    BY <1>1, MinFacts
  <1>3. PICK x \in T : n - x = Min(R)
    BY <1>2
  <1>4. \A y \in T : n - x <= n - y
    BY <1>2, <1>3
  <1>5. \A y \in T : x >= y
    BY <1>4
  <1> QED BY <1>5, Zenon DEF Max

\* Main memory is full of words.
LEMMA LoadedType == Loaded \in [Blocks -> [Offsets -> Data]]
  <1>1. ASSUME NEW a PROVE WordAt(a) \in Data
    <2>1. CASE LinesAt(a) = {}
      BY <2>1, MemoryAssumption DEF WordAt
    <2>2. CASE LinesAt(a) # {}
      <3>1. MemIn \in Seq(Data) /\ Len(MemIn) \in Nat
        BY MemInAssumption, SimulatorAssumption
      <3>2. PICK n \in Nat : n = Len(MemIn) - 1
        BY <2>2, <3>1 DEF LinesAt
      <3>3. Max(LinesAt(a)) \in 0..n
        BY <2>2, <3>2, LastLine DEF LinesAt
      <3>4. MemIn[Max(LinesAt(a)) + 1] \in Data
        BY <3>1, <3>2, <3>3
      <3> QED BY <2>2, <3>4 DEF WordAt
    <2> QED BY <2>1, <2>2
  <1> QED BY <1>1 DEF Loaded

\* Every core starts as one.
LEMMA CoresStart == SimulatorInit => CoresType
  <1> SUFFICES ASSUME SimulatorInit PROVE CoresType
    OBVIOUS
  <1>1. PICK w \in Workloads : cores = [c \in Cores |-> CoreOf(w[c])]
    BY DEF SimulatorInit
  <1>2. ASSUME NEW c \in Cores PROVE CoreOf(w[c]) \in SP!CoreType
    <2>1. PICK n \in Nat : n = Cardinality(DOMAIN w[c])
      BY SimulatorAssumption, FS_CardinalityType
    <2>2. w[c] \in [0..(n - 1) -> SP!Instruction]
      BY <2>1, SimulatorAssumption, SameWords
    <2>3. w[c] \in SP!AnyProgram
      BY <2>2 DEF SP!AnyProgram
    <2>4. /\ SP!Started(w[c]) \in SP!CoreType
          /\ SP!Terminated(SP!Started(w[c])) \in SP!CoreType
      BY <2>3, SP!StartedType, StagesConstants
    <2> QED BY <2>4, SameCores DEF CoreOf
  <1> QED BY <1>1, <1>2 DEF CoresType

\* The stage MEM of a core asks for an address and stores a word.
LEMMA AccessOfCore ==
  ASSUME CoresType, NEW c \in Cores
  PROVE  /\ cores[c] \in SP!CoreType
         /\ S!InMem(cores[c]) => AccessOf(cores[c]) \in AnyAccess
         /\ S!Word(cores[c]) \in Data
         /\ S!MemStage(cores[c]) \in SP!StageType
         /\ \A word \in Data : S!Holding(cores[c], word) \in SP!StageType
  <1>1. cores[c] \in SP!CoreType
    BY DEF CoresType
  <1>2. /\ SP!MemStage(cores[c]) \in SP!StageType
        /\ SP!Address(cores[c]) \in SP!Words /\ SP!Word(cores[c]) \in SP!Words
        /\ \A word \in SP!Words : SP!Holding(cores[c], word) \in SP!StageType
    BY <1>1, SP!MemTypes, StagesConstants
  <1>3. Data = SP!Words /\ SP!Words \subseteq Nat
    BY SimulatorAssumption, SameWords, SP!WordFacts, StagesConstants
  <1>4. S!InMem(cores[c]) => S!Op(cores[c], S!MEM) \in {"lw", "sw"}
    BY DEF S!InMem, S!Accesses
  <1>5. AddressOf(S!Address(cores[c])) \in Addresses
    BY <1>2, <1>3, AddressFields, SameCores
  <1> QED BY <1>1, <1>2, <1>3, <1>4, <1>5, SameCores DEF AccessOf, AnyAccess

-----------------------------------------------------------------------------
(* The steps.                                                              *)

\* A call of operate_the_core leaves a core.
LEMMA CycleCores ==
  ASSUME CoresType, NEW c \in Cores, NEW stalled \in BOOLEAN, NEW stage \in SP!StageType,
         Cycle(c, stalled, stage)
  PROVE  CoresType'
  <1>1. cores' = [cores EXCEPT ![c] = SP!Cycled(@, stalled, stage)]
    BY SameCores DEF Cycle
  <1>2. SP!Cycled(cores[c], stalled, stage) \in SP!CoreType
    BY AccessOfCore, SP!CycledType, StagesConstants
  <1> QED BY <1>1, <1>2 DEF CoresType

\* The access that stands in the stage MEM of a core.
BringsUp(c, r) == S!InMem(cores[c]) /\ r = AccessOf(cores[c])

\* The calls of a pipeline, as a cache and its history see them: an access that the history
\* observes, or nothing.
LEMMA CallOfCore ==
  ASSUME CoresType, LoopType, MachineType, NEW c \in Cores,
         \/ CycleWithoutAccess(c) \/ CycleRefused(c) \/ CycleLoads(c)
         \/ CycleStores(c) \/ CycleAtRest(c)
  PROVE  /\ CoresType' /\ NextTurn
         /\ \/ UNCHANGED <<MachineVars, request, history>>
            \/ \E r \in AnyAccess : BringsUp(c, r) /\ Access(c, r) /\ ObserveAccess(c, r)
  <1> DEFINE k == cores[c]
             r == AccessOf(k)
             Called == \/ UNCHANGED <<MachineVars, request, history>>
                       \/ \E a \in AnyAccess : BringsUp(c, a) /\ Access(c, a) /\ ObserveAccess(c, a)
  <1>1. /\ k \in SP!CoreType /\ (S!InMem(k) => r \in AnyAccess) /\ S!Word(k) \in Data
        /\ S!MemStage(k) \in SP!StageType
        /\ \A word \in Data : S!Holding(k, word) \in SP!StageType
    BY AccessOfCore
  <1>2. k.is_mem_stall \in BOOLEAN
    BY <1>1 DEF SP!CoreType
  <1>3. S!InMem(k) => /\ r # None /\ BringsUp(c, r)
                      /\ r.address.block.index \in Indexes /\ r.address.offset \in Offsets
    BY <1>1, AnyAccessParts DEF None, BringsUp
  <1> HIDE DEF r
  <1>4. CASE CycleWithoutAccess(c)
    <2>1. UNCHANGED <<MachineVars, request, history>> /\ NextTurn
      BY <1>4 DEF CycleWithoutAccess, NoAccess, MachineVars, Cycle
    <2>2. Cycle(c, k.is_mem_stall, S!MemStage(k))
      BY <1>4 DEF CycleWithoutAccess
    <2>3. CoresType'
      BY <1>1, <1>2, <2>2, CycleCores
    <2> QED BY <2>1, <2>3
  <1>5. CASE CycleRefused(c)
    <2>1. S!InMem(k) /\ Refused(c, r) /\ UNCHANGED history
          /\ Cycle(c, TRUE, S!Holding(k, S!Word(k)))
      BY <1>5 DEF CycleRefused, r
    <2>2. CoresType' /\ NextTurn
      BY <1>1, <2>1, CycleCores DEF Cycle
    <2>3. request' = [request EXCEPT ![c] = r]
      BY <2>1 DEF Refused, TurnedAway, ReadMiss, WriteUpgrade, WriteMiss, Stall
    <2>4. request'[c] # None
      BY <1>3, <2>1, <2>3 DEF LoopType
    <2>5. Access(c, r) /\ ObserveAccess(c, r)
      BY <2>1, <2>4 DEF Access, ObserveAccess
    <2> QED BY <1>1, <1>3, <2>1, <2>2, <2>5
  <1>6. CASE CycleLoads(c)
    <2> DEFINE word == dsram[c][r.address.block.index][r.address.offset]
    <2>1. S!InMem(k) /\ ReadHit(c, r) /\ UNCHANGED history
          /\ Cycle(c, FALSE, S!Holding(k, word))
      BY <1>6 DEF CycleLoads, r
    <2>2. word \in Data
      BY <1>3, <2>1 DEF MachineType, CacheTypeOK
    <2>3. S!Holding(k, word) \in SP!StageType
      BY <1>1, <2>2
    <2> HIDE DEF word
    <2>4. CoresType' /\ NextTurn
      BY <2>1, <2>3, CycleCores DEF Cycle
    <2>5. Access(c, r) /\ ObserveAccess(c, r)
      BY <2>1 DEF Access, ReadHit, ObserveAccess
    <2> QED BY <1>1, <1>3, <2>1, <2>4, <2>5
  <1>7. CASE CycleStores(c)
    <2>1. S!InMem(k) /\ WriteHit(c, r, S!Word(k)) /\ ObserveAccess(c, r)
          /\ Cycle(c, FALSE, S!Holding(k, S!Word(k)))
      BY <1>7 DEF CycleStores, r
    <2>2. CoresType' /\ NextTurn
      BY <1>1, <2>1, CycleCores DEF Cycle
    <2>3. Access(c, r)
      BY <1>1, <2>1 DEF Access
    <2> QED BY <1>1, <1>3, <2>1, <2>2, <2>3
  <1>8. CASE CycleAtRest(c)
    <2>1. UNCHANGED <<MachineVars, request, history>> /\ NextTurn
      BY <1>8 DEF CycleAtRest, MachineVars
    <2>2. cores' = [cores EXCEPT ![c] = SP!Terminated(@)] \/ UNCHANGED cores
      BY <1>8, SameCores DEF CycleAtRest
    <2>3. SP!Terminated(k) \in SP!CoreType
      BY <1>1, SP!StartedType, StagesConstants
    <2>4. CoresType'
      BY <2>2, <2>3 DEF CoresType
    <2> QED BY <2>1, <2>4
  <1> QED BY <1>4, <1>5, <1>6, <1>7, <1>8

\* Requests stay accesses, to any address.
LEMMA RequestsType ==
  ASSUME LoopType, NextTurn,
         \/ UNCHANGED request
         \/ \E c \in Cores : \E r \in AnyAccess : Access(c, r)
  PROVE  LoopType'
  <1>1. turn' \in 0..CORES_NUMBER
    BY TurnType DEF LoopType
  <1>2. CASE UNCHANGED request
    BY <1>1, <1>2 DEF LoopType
  <1>3. ASSUME NEW c \in Cores, NEW r \in AnyAccess, Access(c, r) PROVE LoopType'
    <2>1. request' = [request EXCEPT ![c] = r] \/ request' = [request EXCEPT ![c] = None]
      BY <1>3 DEF Access, Refused, TurnedAway, ReadMiss, WriteUpgrade, WriteMiss, ReadHit,
                  WriteHit, Stall, Succeed
    <2> QED BY <1>1, <2>1 DEF LoopType
  <1> QED BY <1>2, <1>3

-----------------------------------------------------------------------------
(* The theorems.                                                           *)

SimulatorInv == WriterInv /\ LoopType /\ CoresType

\* The simulator starts with empty caches and main memory loaded from memin.txt.
LEMMA SimulatorStart == SimulatorInit => SimulatorInv
  <1> SUFFICES ASSUME SimulatorInit PROVE SimulatorInv
    OBVIOUS
  <1>1. WriterInv
    BY LoadedType, StartWriter DEF SimulatorInit
  <1>2. LoopType
    BY ConstantFacts DEF SimulatorInit, Start, LoopType
  <1> QED BY <1>1, <1>2, CoresStart DEF SimulatorInv

\* A step of the simulator: a call of operate_bus or of operate_the_core.
LEMMA SimulatorCalls ==
  ASSUME SimulatorInv, [SimulatorNext]_simulatorVars
  PROVE  /\ CoresType' /\ LoopType'
         /\ \/ ObserveBus
            \/ \E c \in Cores : \E r \in AnyAccess :
                  BringsUp(c, r) /\ Access(c, r) /\ ObserveAccess(c, r)
            \/ UNCHANGED <<MachineVars, history>>
  <1>1. CoresType /\ LoopType /\ MachineType
    BY DEF SimulatorInv, WriterInv, MachineInv
  <1>2. CASE BusTurn
    <2>1. ObserveBus /\ UNCHANGED <<cores, request>> /\ NextTurn
      BY <1>2 DEF BusTurn, ObserveBus, OperateBus
    <2>2. LoopType'
      BY <1>1, <2>1, RequestsType
    <2> QED BY <1>1, <2>1, <2>2 DEF CoresType
  <1>3. ASSUME NEW c \in Cores,
               \/ CycleWithoutAccess(c) \/ CycleRefused(c) \/ CycleLoads(c)
               \/ CycleStores(c) \/ CycleAtRest(c)
        PROVE  /\ CoresType' /\ LoopType'
               /\ \/ UNCHANGED <<MachineVars, history>>
                  \/ \E r \in AnyAccess : BringsUp(c, r) /\ Access(c, r) /\ ObserveAccess(c, r)
    <2>1. /\ CoresType' /\ NextTurn
          /\ \/ UNCHANGED <<MachineVars, request, history>>
             \/ \E r \in AnyAccess : BringsUp(c, r) /\ Access(c, r) /\ ObserveAccess(c, r)
      BY <1>1, <1>3, CallOfCore
    <2>2. LoopType'
      BY <1>1, <2>1, RequestsType
    <2> QED BY <2>1, <2>2
  <1>4. CASE UNCHANGED simulatorVars
    <2>1. UNCHANGED <<MachineVars, request, turn, history, cores>>
      BY <1>4 DEF simulatorVars, allVars, vars, MachineVars
    <2> QED BY <1>1, <2>1 DEF CoresType, LoopType
  <1> QED BY <1>2, <1>3, <1>4 DEF SimulatorNext

\* The steps of the simulator are calls that the invariant of the caches allows for.
LEMMA SimulatorStep ==
  ASSUME SimulatorInv, [SimulatorNext]_simulatorVars
  PROVE  SimulatorInv'
  <1>1. ObserveBus => BusIdle \/ BusDelay \/ BusGrant \/ BusContinue
    BY DEF ObserveBus, OperateBus
  <1>2. MachineStep
    BY <1>1, SimulatorCalls DEF MachineStep
  <1>3. WriterInv'
    BY <1>2, StepWriter DEF SimulatorInv
  <1> QED BY <1>3, SimulatorCalls DEF SimulatorInv

\* Whatever the programs and the file memin.txt: while a core may write a block without
\* asking the bus, no other core may use a copy of it.
THEOREM SimulatorSingleWriter == SimulatorSpec => []SingleWriter
  <1>1. SimulatorInv /\ [SimulatorNext]_simulatorVars => SimulatorInv'
    BY SimulatorStep
  <1>2. SimulatorInv => SingleWriter
    BY WriterIsSingle DEF SimulatorInv
  <1> QED BY <1>1, <1>2, SimulatorStart, PTL DEF SimulatorSpec

\* The simulator keeps the invariant of Coherence.tla.
LEMMA SimulatorData ==
  ASSUME ErrCell = {}, SimulatorInv, CoherenceInv, [SimulatorNext]_simulatorVars
  PROVE  CoherenceInv'
  <1>1. WriterInv /\ LoopType /\ LatestType /\ (raced = {} => DataInv) /\ MachineInv
    BY DEF CoherenceInv, SimulatorInv, WriterInv
  <1>2. WriterInv' /\ LoopType' /\ MachineType'
    BY SimulatorStep DEF SimulatorInv, WriterInv, MachineInv
  <1>3. CASE ObserveBus
    BY <1>1, <1>2, <1>3, ObserveBusData DEF CoherenceInv
  <1>4. ASSUME NEW c \in Cores, NEW r \in AnyAccess, Access(c, r), ObserveAccess(c, r)
        PROVE  CoherenceInv'
    <2>1. request = [k \in Cores |-> request[k]]
      BY <1>1 DEF LoopType
    <2> QED BY <1>1, <1>2, <1>4, <2>1, ObserveAccessData DEF CoherenceInv
  <1>5. CASE UNCHANGED <<MachineVars, history>>
    <2>1. UNCHANGED MachineVars /\ UNCHANGED latest /\ UNCHANGED raced
      BY <1>5 DEF history
    <2>2. DataInv => DataInv'
      BY <2>1, SameData
    <2> QED BY <1>1, <1>2, <2>1, <2>2 DEF CoherenceInv, LatestType
  <1> QED BY <1>3, <1>4, <1>5, SimulatorCalls

\* Whatever the programs and the file memin.txt: until one of the two races happens, every
\* copy that a core may read holds the values stored last, and so does main memory, of every
\* block that no cache has modified.
THEOREM SimulatorCoherent ==
  ASSUME ErrCell = {}
  PROVE  SimulatorSpec => []CoherentUnlessRaced
  <1>1. SimulatorInit => SimulatorInv /\ CoherenceInv
    <2>1. SimulatorInit => CoherenceInv
      BY LoadedType, LoadedStart DEF SimulatorInit
    <2> QED BY <2>1, SimulatorStart
  <1>2. SimulatorInv /\ CoherenceInv /\ [SimulatorNext]_simulatorVars
          => (SimulatorInv /\ CoherenceInv)'
    BY SimulatorStep, SimulatorData
  <1>3. CoherenceInv => CoherentUnlessRaced
    BY DataIsCoherent
  <1> QED BY <1>1, <1>2, <1>3, PTL DEF SimulatorSpec

\* A step of cores that keep to their addresses is no race, if no core accesses a block that
\* another one stores to.
LEMMA SimulatorPrivate ==
  ASSUME NoWriteSharing, SimulatorInv, PrivateInv, KeepsToAddresses,
         [SimulatorNext]_simulatorVars
  PROVE  PrivateInv' /\ raced' = raced
  <1>1. WriterInv
    BY DEF SimulatorInv
  <1>2. CASE ObserveBus
    BY <1>1, <1>2, BusOwn
  <1>3. ASSUME NEW c \in Cores, NEW r \in AnyAccess, BringsUp(c, r), Access(c, r),
               ObserveAccess(c, r)
        PROVE  PrivateInv' /\ raced' = raced
    <2>1. r \in Accesses(c)
      BY <1>3 DEF BringsUp, KeepsToAddresses
    <2> QED BY <1>1, <1>3, <2>1, AccessOwn
  <1>4. CASE UNCHANGED <<MachineVars, history>>
    <2>1. UNCHANGED MachineVars /\ UNCHANGED raced
      BY <1>4 DEF history
    <2> QED BY <2>1, RestOwn
  <1> QED BY <1>2, <1>3, <1>4, SimulatorCalls

\* The simulator starts without a modified line and without a race.
LEMMA SimulatorStartsPrivate == SimulatorInit => PrivateInv /\ raced = {}
  BY PrivateStart DEF SimulatorInit, NothingStored

\* So no race ever happens, and the lines are up to date at all times.
LEMMA NoRaceWithoutWriteSharing ==
  ASSUME ErrCell = {}, NoWriteSharing
  PROVE  SimulatorSpec /\ []KeepsToAddresses => [](Coherent /\ raced = {})
  <1> DEFINE Inv == SimulatorInv /\ CoherenceInv /\ PrivateInv /\ raced = {}
  <1>1. SimulatorInit => Inv
    <2>1. SimulatorInit => CoherenceInv
      BY LoadedType, LoadedStart DEF SimulatorInit
    <2> QED BY <2>1, SimulatorStart, SimulatorStartsPrivate
  <1>2. Inv /\ KeepsToAddresses /\ [SimulatorNext]_simulatorVars => Inv'
    BY SimulatorStep, SimulatorData, SimulatorPrivate
  <1>3. Inv => Coherent /\ raced = {}
    BY DataIsCoherent DEF CoherentUnlessRaced
  <1> HIDE DEF Inv
  <1> QED BY <1>1, <1>2, <1>3, PTL DEF SimulatorSpec

-----------------------------------------------------------------------------
(* The memory that the cores share.                                        *)

\* A division with its quotient and its rest.
Division(a, m, q, r) == m \in Nat \ {0} /\ a \in Nat /\ q = a \div m /\ r = a % m

\* They say which number has been divided.
LEMMA QuotientAndRest ==
  ASSUME NEW a, NEW m, NEW q, NEW r, Division(a, m, q, r)
  PROVE  a = m * q + r /\ q \in Nat /\ r \in 0..(m - 1)
  BY DEF Division

\* A number below a product has a quotient below the other factor.
LEMMA QuotientBelow ==
  ASSUME NEW m \in Nat \ {0}, NEW n \in Nat \ {0}, NEW a, a < m * n,
         NEW q, NEW r, Division(a, m, q, r)
  PROVE  q \in 0..(n - 1)
  <1>1. a = m * q + r /\ q \in Nat /\ r \in 0..(m - 1)
    BY QuotientAndRest
  <1>2. ASSUME q >= n PROVE FALSE
    <2>1. PICK d \in Nat : q = n + d
      BY <1>1, <1>2
    <2>2. m * q = m * n + m * d /\ m * d \in Nat /\ m * n \in Nat
      BY <2>1
    <2> QED BY <1>1, <2>2
  <1> QED BY <1>1, <1>2

\* Multiples that differ by less than the factor are the same.
LEMMA MultiplesApart ==
  ASSUME NEW m \in Nat \ {0}, NEW p \in Nat, NEW q \in Nat, NEW a \in Nat, NEW b \in Nat,
         a = m * p, b = m * q, a - b < m, b - a < m
  PROVE  p = q
  <1>1. ASSUME NEW x \in Nat, NEW y \in Nat, x > y PROVE m * x - m * y >= m
    <2>1. PICK d \in Nat : x = y + 1 + d
      BY <1>1
    <2>2. m * x = m * y + m + m * d /\ m * d \in Nat /\ m * y \in Nat
      BY <2>1
    <2> QED BY <2>2
  <1> QED BY <1>1

\* Different word addresses have different blocks or offsets.
LEMMA AddressesApart ==
  ASSUME NEW a \in S!Words, NEW b \in S!Words, AddressOf(a) = AddressOf(b)
  PROVE  a = b
  <1> DEFINE lines == Cardinality(Indexes)
             tags == Cardinality(Tags)
             size == BLOCK_SIZE * lines
             ta == a \div size
             tb == b \div size
             qa == a \div BLOCK_SIZE
             qb == b \div BLOCK_SIZE
             la == qa \div lines
             lb == qb \div lines
             ra == a % size
             rb == b % size
             r == a % BLOCK_SIZE
             s == qa % lines
  <1>1. lines \in Nat \ {0} /\ tags \in Nat \ {0} /\ size \in Nat \ {0}
        /\ BLOCK_SIZE \in Nat \ {0} /\ size * tags = S!WORD /\ size = BLOCK_SIZE * lines
    BY CacheSizes, MemoryAssumption, SimulatorAssumption
  <1>2. ta % tags = tb % tags /\ s = qb % lines /\ r = b % BLOCK_SIZE
    BY DEF AddressOf
  <1>3. a \in Nat /\ b \in Nat /\ a < size * tags /\ b < size * tags
    BY <1>1 DEF S!Words
  <1>4. Division(a, size, ta, ra) /\ Division(b, size, tb, rb)
    BY <1>1, <1>3 DEF Division
  <1>5. Division(a, BLOCK_SIZE, qa, r) /\ Division(b, BLOCK_SIZE, qb, r)
    BY <1>1, <1>2, <1>3 DEF Division
  <1>6. Division(qa, lines, la, s) /\ Division(qb, lines, lb, s)
    <2>1. qa \in Nat /\ qb \in Nat
      BY <1>5, QuotientAndRest
    <2> QED BY <1>1, <1>2, <2>1 DEF Division
  <1> HIDE DEF lines, tags, size, ta, tb, qa, qb, la, lb, ra, rb, r, s
  <1>7. ta \in 0..(tags - 1) /\ tb \in 0..(tags - 1)
    BY <1>1, <1>3, <1>4, QuotientBelow
  <1>8. ta = tb
    <2>1. \A x \in 0..(tags - 1) : x % tags = x
      BY <1>1
    <2> QED BY <1>2, <1>7, <2>1
  <1>9. /\ a = size * ta + ra /\ ra \in 0..(size - 1)
        /\ b = size * ta + rb /\ rb \in 0..(size - 1)
    BY <1>4, <1>8, QuotientAndRest
  <1>10. a - b < size /\ b - a < size
    <2>1. PICK z \in Nat : z = size * ta
      BY <1>1, <1>7
    <2> QED BY <1>1, <1>9, <2>1
  <1>11. /\ a = BLOCK_SIZE * qa + r /\ qa \in Nat /\ r \in Nat
        /\ b = BLOCK_SIZE * qb + r /\ qb \in Nat
    BY <1>5, QuotientAndRest
  <1>12. /\ qa = lines * la + s /\ la \in Nat /\ s \in Nat
         /\ qb = lines * lb + s /\ lb \in Nat
    BY <1>6, QuotientAndRest
  <1>13. a = size * la + (BLOCK_SIZE * s + r) /\ b = size * lb + (BLOCK_SIZE * s + r)
    BY <1>1, <1>11, <1>12
  <1>14. size * la \in Nat /\ size * lb \in Nat /\ BLOCK_SIZE * s + r \in Nat
    BY <1>1, <1>11, <1>12
  <1>15. size * la - size * lb < size /\ size * lb - size * la < size
    <2>1. PICK x \in Nat, y \in Nat, z \in Nat :
             x = size * la /\ y = size * lb /\ z = BLOCK_SIZE * s + r
      BY <1>14
    <2>2. a = x + z /\ b = y + z
      BY <1>13, <2>1
    <2> QED BY <1>1, <1>10, <2>1, <2>2
  <1>16. la = lb
    BY <1>1, <1>12, <1>14, <1>15, MultiplesApart
  <1> QED BY <1>13, <1>16

\* The shared data are words.
LEMMA SharedType ==
  ASSUME LatestType
  PROVE  SharedData \in [S!Words -> S!Words]
  <1> SUFFICES ASSUME NEW a \in S!Words
               PROVE  latest[AddressOf(a).block][AddressOf(a).offset] \in S!Words
    BY DEF SharedData
  <1>1. a \in Nat
    BY SameWords, SP!WordFacts, StagesConstants
  <1>2. AddressOf(a).block \in Blocks /\ AddressOf(a).offset \in Offsets
    BY <1>1, AddressFields DEF Addresses
  <1> QED BY <1>2, SimulatorAssumption DEF LatestType

\* Word by word it starts as the file.
LEMMA SharedStart ==
  ASSUME latest = Loaded
  PROVE  SharedData = [a \in S!Words |-> IF a < Len(MemIn) THEN MemIn[a + 1] ELSE 0]
  <1> SUFFICES ASSUME NEW a \in S!Words
               PROVE  Loaded[AddressOf(a).block][AddressOf(a).offset]
                        = IF a < Len(MemIn) THEN MemIn[a + 1] ELSE 0
    BY DEF SharedData
  <1> DEFINE b == AddressOf(a).block
             o == AddressOf(a).offset
  <1>1. a \in Nat
    BY SameWords, SP!WordFacts, StagesConstants
  <1>2. b \in Blocks /\ o \in Offsets /\ AddressOf(a) = [block |-> b, offset |-> o]
    BY <1>1, AddressFields DEF Addresses
  <1>3. Loaded[b][o] = WordAt(CHOOSE x \in S!Words : AddressOf(x) = [block |-> b, offset |-> o])
    BY <1>2 DEF Loaded
  <1>4. (CHOOSE x \in S!Words : AddressOf(x) = [block |-> b, offset |-> o]) = a
    BY <1>2, AddressesApart
  <1>5. Len(MemIn) \in Nat /\ LINE_COUNTER \in Nat /\ Len(MemIn) <= LINE_COUNTER
    BY MemInAssumption
  <1>6. \A n \in 0..(Len(MemIn) - 1) : n % LINE_COUNTER = n
    BY <1>5
  <1>7. CASE a < Len(MemIn)
    <2>1. LinesAt(a) = {a}
      BY <1>1, <1>5, <1>6, <1>7 DEF LinesAt
    <2>2. Max({a}) = a
      BY <1>1 DEF Max
    <2> QED BY <1>3, <1>4, <1>7, <2>1, <2>2 DEF WordAt
  <1>8. CASE ~(a < Len(MemIn))
    <2>1. LinesAt(a) = {}
      BY <1>1, <1>5, <1>6, <1>8 DEF LinesAt
    <2> QED BY <1>3, <1>4, <1>8, <2>1 DEF WordAt
  <1> QED BY <1>7, <1>8

\* A store to a word is one to the block and the offset of its address.
LEMMA SharedStore ==
  ASSUME LatestType, NEW a \in S!Words, NEW word,
         latest' = [latest EXCEPT ![AddressOf(a).block][AddressOf(a).offset] = word]
  PROVE  SharedData' = [SharedData EXCEPT ![a] = word]
  <1>1. ASSUME NEW x \in S!Words
        PROVE  latest'[AddressOf(x).block][AddressOf(x).offset]
                 = IF x = a THEN word ELSE latest[AddressOf(x).block][AddressOf(x).offset]
    <2>1. AddressOf(x) \in Addresses /\ AddressOf(a) \in Addresses
      BY AddressFields, SameWords, SP!WordFacts, StagesConstants
    <2>2. x # a => AddressOf(x).block # AddressOf(a).block \/ AddressOf(x).offset # AddressOf(a).offset
      BY <2>1, AddressesApart DEF Addresses
    <2> QED BY <2>1, <2>2 DEF LatestType, Addresses
  <1>2. SharedData' = [x \in S!Words |-> latest'[AddressOf(x).block][AddressOf(x).offset]]
    BY DEF SharedData
  <1> QED BY <1>1, <1>2 DEF SharedData

-----------------------------------------------------------------------------
(* The cores call the operations of the stages on the shared memory.       *)

\* A core that has come to its end.
LEMMA SameEnds ==
  \A k : S!Halts(k) = SP!Halts(k)
  BY SameWords, SameHazards, Zenon DEF S!Halts, SP!Halts, S!Drained, SP!Drained

\* A core calls the operations of one core, on what the cores share.
Calls(c) ==
    /\ SP!CallOf(cores[c], cores'[c], SharedData, SharedData')
    /\ \A k \in Cores \ {c} : cores'[k] = cores[k]

\* What a cycle leaves of the cores.
LEMMA CycleLeavesCores ==
  ASSUME CoresType, NEW c \in Cores, NEW stalled, NEW stage, Cycle(c, stalled, stage)
  PROVE  /\ cores'[c] = SP!Cycled(cores[c], stalled, stage)
         /\ \A k \in Cores \ {c} : cores'[k] = cores[k]
  BY SameCores DEF Cycle, CoresType

\* Without a store nothing that is shared changes.
LEMMA SharedUnchanged ==
  ASSUME UNCHANGED latest
  PROVE  SharedData' = SharedData
  BY DEF SharedData

\* A load that hits returns the value stored last.
LEMMA LoadCalls ==
  ASSUME CoresType, MachineType, CurrentCopies, NEW c \in Cores, CycleLoads(c)
  PROVE  Calls(c)
  <1> DEFINE k == cores[c]
             r == AccessOf(k)
             a == S!Address(k)
             word == dsram[c][r.address.block.index][r.address.offset]
  <1>1. /\ S!InMem(k) /\ ReadHit(c, r) /\ UNCHANGED history
        /\ Cycle(c, FALSE, S!Holding(k, word))
    BY DEF CycleLoads
  <1>2. r \in AnyAccess /\ r.address = AddressOf(a) /\ r.op = S!Op(k, S!MEM)
    BY <1>1, AccessOfCore DEF AccessOf
  <1>3. r.address.block \in Blocks /\ r.address.offset \in Offsets
    BY <1>2 DEF AnyAccess, Addresses
  <1>4. r.op = "lw" /\ Usable(c) /\ Holds(c, r.address.block)
    BY <1>1 DEF ReadHit, IsBusBusy, Usable
  <1>5. word = latest[r.address.block][r.address.offset]
    BY <1>3, <1>4 DEF CurrentCopies
  <1>6. k \in SP!CoreType
    BY AccessOfCore
  <1>7. a \in S!Words
    BY <1>6, SP!MemTypes, StagesConstants, SameWords, SameCores
  <1>8. word = SharedData[a]
    BY <1>2, <1>5, <1>7 DEF SharedData
  <1>9. SharedData' = SharedData
    BY <1>1, SharedUnchanged DEF history
  <1> HIDE DEF word, r
  <1>10. /\ cores'[c] = SP!Cycled(k, FALSE, SP!Holding(k, SharedData[SP!Address(k)]))
         /\ \A d \in Cores \ {c} : cores'[d] = cores[d]
    BY <1>1, <1>8, CycleLeavesCores, SameCores
  <1>11. SP!InMem(k) /\ SP!Op(k, SP!MEM) = "lw"
    BY <1>1, <1>2, <1>4, SameCores, SameHazards, SameStages
  <1> QED BY <1>9, <1>10, <1>11, Zenon DEF Calls, SP!CallOf

\* A store that hits becomes the value stored last.
LEMMA StoreCalls ==
  ASSUME CoresType, MachineType, LatestType, LoopType, NEW c \in Cores, CycleStores(c)
  PROVE  Calls(c)
  <1> DEFINE k == cores[c]
             r == AccessOf(k)
             a == S!Address(k)
             b == r.address.block
             o == r.address.offset
             word == S!Word(k)
  <1>1. /\ S!InMem(k) /\ WriteHit(c, r, word) /\ ObserveAccess(c, r)
        /\ Cycle(c, FALSE, S!Holding(k, word))
    BY DEF CycleStores
  <1>2. r \in AnyAccess /\ r.address = AddressOf(a) /\ r.op = S!Op(k, S!MEM)
    BY <1>1, AccessOfCore DEF AccessOf
  <1>3. b \in Blocks /\ o \in Offsets /\ b.index \in Indexes
    BY <1>2 DEF AnyAccess, Addresses, Blocks
  <1>4. k \in SP!CoreType
    BY AccessOfCore
  <1>5. a \in S!Words
    BY <1>4, SP!MemTypes, StagesConstants, SameWords, SameCores
  <1>6. r.op = "sw" /\ request' = [request EXCEPT ![c] = None]
        /\ dsram' = [dsram EXCEPT ![c][b.index][o] = word]
    BY <1>1 DEF WriteHit, Succeed
  <1>7. request'[c] = None
    BY <1>6 DEF LoopType
  <1>8. dsram'[c][b.index][o] = word
    BY <1>3, <1>6 DEF MachineType, CacheTypeOK
  <1>9. latest' = [latest EXCEPT ![b][o] = word]
    BY <1>1, <1>6, <1>7, <1>8 DEF ObserveAccess
  <1>10. SharedData' = [SharedData EXCEPT ![a] = word]
    BY <1>2, <1>5, <1>9, SharedStore
  <1> HIDE DEF r
  <1>11. /\ cores'[c] = SP!Cycled(k, FALSE, SP!Holding(k, SP!Word(k)))
         /\ \A d \in Cores \ {c} : cores'[d] = cores[d]
    BY <1>1, CycleLeavesCores, SameCores
  <1>12. SP!InMem(k) /\ SP!Op(k, SP!MEM) = "sw" /\ SP!Address(k) = a /\ SP!Word(k) = word
    BY <1>1, <1>2, <1>6, SameCores, SameHazards, SameStages
  <1>13. SharedData' = [SharedData EXCEPT ![SP!Address(k)] = SP!Word(k)]
    BY <1>10, <1>12
  <1> QED BY <1>11, <1>12, <1>13, Zenon DEF Calls, SP!CallOf

\* Each step is a call of one core, or leaves the cores and what they share alone.
LEMMA CallsOfCores ==
  ASSUME SimulatorInv, CoherenceInv, raced = {}, [SimulatorNext]_simulatorVars
  PROVE  UNCHANGED <<cores, SharedData>> \/ \E c \in Cores : Calls(c)
  <1>1. CoresType /\ LoopType /\ MachineType /\ LatestType /\ CurrentCopies
    <2>1. CurrentCopies
      BY DataIsCoherent DEF CoherentUnlessRaced, Coherent
    <2> QED BY <2>1 DEF SimulatorInv, CoherenceInv, WriterInv, MachineInv
  <1>2. CASE BusTurn
    BY <1>2, SharedUnchanged DEF BusTurn, ObserveBus
  <1>3. CASE UNCHANGED simulatorVars
    BY <1>3, SharedUnchanged DEF simulatorVars, allVars, history
  <1>4. ASSUME NEW c \in Cores, CycleWithoutAccess(c)
        PROVE  Calls(c)
    <2>1. SharedData' = SharedData /\ ~S!InMem(cores[c])
          /\ Cycle(c, cores[c].is_mem_stall, S!MemStage(cores[c]))
      BY <1>4, SharedUnchanged DEF CycleWithoutAccess, history
    <2>2. ~SP!InMem(cores[c]) /\ S!MemStage(cores[c]) = SP!MemStage(cores[c])
      BY <2>1, SameCores
    <2>3. /\ cores'[c] = SP!Cycled(cores[c], cores[c].is_mem_stall, SP!MemStage(cores[c]))
          /\ \A k \in Cores \ {c} : cores'[k] = cores[k]
      BY <1>1, <2>1, <2>2, CycleLeavesCores
    <2> QED BY <2>1, <2>2, <2>3, Zenon DEF Calls, SP!CallOf
  <1>5. ASSUME NEW c \in Cores, CycleRefused(c)
        PROVE  Calls(c)
    <2>1. SharedData' = SharedData /\ S!InMem(cores[c])
          /\ Cycle(c, TRUE, S!Holding(cores[c], S!Word(cores[c])))
      BY <1>5, SharedUnchanged DEF CycleRefused, history
    <2>2. SP!InMem(cores[c])
          /\ S!Holding(cores[c], S!Word(cores[c])) = SP!Holding(cores[c], SP!Word(cores[c]))
      BY <2>1, SameCores
    <2>3. /\ cores'[c] = SP!Cycled(cores[c], TRUE, SP!Holding(cores[c], SP!Word(cores[c])))
          /\ \A k \in Cores \ {c} : cores'[k] = cores[k]
      BY <1>1, <2>1, <2>2, CycleLeavesCores
    <2> QED BY <2>1, <2>2, <2>3, Zenon DEF Calls, SP!CallOf
  <1>6. ASSUME NEW c \in Cores, CycleAtRest(c)
        PROVE  Calls(c)
    <2>1. SharedData' = SharedData
      BY <1>6, SharedUnchanged DEF CycleAtRest, history
    <2>2. \/ SP!Halts(cores[c]) /\ cores' = [cores EXCEPT ![c] = SP!Terminated(@)]
          \/ UNCHANGED cores
      BY <1>6, SameCores, SameEnds DEF CycleAtRest
    <2>3. \/ SP!Halts(cores[c]) /\ cores'[c] = SP!Terminated(cores[c])
          \/ cores'[c] = cores[c]
      BY <1>1, <2>2 DEF CoresType
    <2>4. \A k \in Cores \ {c} : cores'[k] = cores[k]
      BY <1>1, <2>2 DEF CoresType
    <2> QED BY <2>1, <2>3, <2>4, Zenon DEF Calls, SP!CallOf
  <1> QED BY <1>1, <1>2, <1>3, <1>4, <1>5, <1>6, LoadCalls, StoreCalls DEF SimulatorNext

-----------------------------------------------------------------------------
(* Every core is the machine of Isa.tla.                                   *)

\* Where the machine stands.
LEMMA SameMapping ==
  \A k : S!PcOfIsa(k) = SP!PcOfIsa(k) /\ S!NextOfIsa(k) = SP!NextOfIsa(k)
  <1>1. \A k, p : S!Pending(k, p) = SP!Pending(k, p)
    BY SameHazards, SameStages, Zenon DEF S!Pending, SP!Pending
  <1>2. \A k, p : S!Older(k, p) = SP!Older(k, p)
    BY <1>1, SameWords, SameStages DEF S!Older, SP!Older
  <1>3. \A k, n : S!Oldest(k, n) = SP!Oldest(k, n)
    <2>1. \A T : S!Cardinality(T) = SP!Cardinality(T)
      BY Zenon DEF S!Cardinality, SP!Cardinality
    <2> QED BY <1>1, <1>2, <2>1, SameWords, SameStages, Zenon DEF S!Oldest, SP!Oldest
  <1>4. S!HALTED = SP!HALTED
    BY DEF S!HALTED, SP!HALTED
  <1>5. \A k, n, fetched : S!PendingAddress(k, n, fetched) = SP!PendingAddress(k, n, fetched)
    BY <1>3, <1>4, SameInstructions, Zenon DEF S!PendingAddress, SP!PendingAddress
  <1>6. \A k : S!PcOfIsa(k) = SP!PcOfIsa(k)
    BY <1>5 DEF S!PcOfIsa, SP!PcOfIsa
  <1>7. \A k : S!NextOfIsa(k) = SP!NextOfIsa(k)
    BY <1>3, <1>4, <1>5, <1>6, Zenon DEF S!NextOfIsa, SP!NextOfIsa
  <1> QED BY <1>6, <1>7

\* What it takes for a core to be that machine.
LEMMA SameConditions ==
  /\ \A k : S!LosesDecode(k) = SP!LosesDecode(k) /\ S!MissesStore(k) = SP!MissesStore(k)
  /\ \A program : S!Plain(program) = SP!Plain(program) /\ S!Short(program) = SP!Short(program)
  <1>1. \A i : /\ S!GivesBack(i) = SP!GivesBack(i) /\ S!Destination(i) = SP!Destination(i)
               /\ S!Uses(i) = SP!Uses(i) /\ S!Idle(i) = SP!Idle(i)
    BY SameStages DEF S!GivesBack, SP!GivesBack, S!Destination, SP!Destination, S!Uses, SP!Uses,
                      S!Idle, SP!Idle
  <1>2. \A k : S!LosesDecode(k) = SP!LosesDecode(k)
    BY SameHazards, SameStages, Zenon DEF S!LosesDecode, SP!LosesDecode
  <1>3. \A k : S!MissesStore(k) = SP!MissesStore(k)
    BY <1>1, SameHazards, SameStages, Zenon DEF S!MissesStore, SP!MissesStore
  <1>4. \A program : S!Plain(program) = SP!Plain(program)
    BY <1>1, SameStages, Zenon DEF S!Plain, SP!Plain
  <1>5. \A program : S!Short(program) = SP!Short(program)
    BY DEF S!Short, SP!Short
  <1> QED BY <1>2, <1>3, <1>4, <1>5

\* What keeps the cores in order: their programs are plain, and end before address 511.
Ordered ==
    \A c \in Cores :
        /\ SP!InOrder(cores[c], 511)
        /\ SP!Plain(cores[c].program) /\ SP!Short(cores[c].program)

\* A call of a core keeps them in order, and is a step of the machine, or none.
LEMMA CallsInOrder ==
  ASSUME Ordered, LatestType, NEW c \in Cores, Calls(c),
         ~S!LosesDecode(cores[c]), ~S!MissesStore(cores[c])
  PROVE  /\ Ordered'
         /\ \/ SP!Stands(cores[c], cores'[c]) /\ SharedData' = SharedData
            \/ SP!CarriesOut(cores[c], cores'[c], SharedData, SharedData')
  <1> DEFINE k == cores[c]
             n == cores'[c]
  <1>1. SP!InOrder(k, 511) /\ SP!Keeps(k)
    BY SameConditions DEF Ordered, SP!Keeps
  <1>2. SharedData \in [SP!Words -> SP!Words] /\ SP!CallOf(k, n, SharedData, SharedData')
        /\ \A d \in Cores \ {c} : cores'[d] = cores[d]
    BY SharedType, SameWords DEF Calls
  <1>3. /\ SP!InOrder(n, 511)
        /\ \/ SP!Stands(k, n) /\ SharedData' = SharedData
           \/ SP!CarriesOut(k, n, SharedData, SharedData')
    BY <1>1, <1>2, SP!CallInOrder, StagesConstants
  <1>4. n.program = k.program
    BY <1>3, Zenon DEF SP!Stands, SP!CarriesOut
  <1>5. Ordered'
    BY <1>2, <1>3, <1>4 DEF Ordered
  <1> QED BY <1>3, <1>5

\* The instructions of the machine are those of the stages.
LEMMA SameMachine ==
  ASSUME NEW c \in Cores
  PROVE  /\ M!Core(c)!Arithmetic = SP!Arithmetic /\ M!Core(c)!Branches = SP!Branches
         /\ M!Core(c)!Words = SP!Words /\ M!Core(c)!WORD = SP!WORD
         /\ M!Core(c)!Halted = SP!HALTED
         /\ M!Core(c)!NEXT_INSTRUCTION_ADDRESS_REGISTER = SP!NEXT_INSTRUCTION_ADDRESS_REGISTER
         /\ \A program, n : M!Core(c)!InstructionAt(program, n) = SP!InstructionAt(program, n)
         /\ \A n : M!Core(c)!At(n) = SP!At(cores[c].program, n)
         /\ \A regs, i : /\ M!Core(c)!Result(regs, i) = SP!Result(regs, i)
                         /\ M!Core(c)!AddressIn(regs, i) = SP!AddressIn(regs, i)
                         /\ M!Core(c)!Taken(regs, i) = SP!Taken(regs, i)
                         /\ M!Core(c)!Target(regs, i) = SP!Target(regs, i)
                         /\ \A r : M!Core(c)!Value(regs, i, r) = SP!Value(regs, i, r)
         /\ \A regs, r, v : M!Core(c)!Written(regs, r, v) = SP!Written(regs, r, v)
  <1>1. /\ M!Core(c)!Arithmetic = SP!Arithmetic /\ M!Core(c)!Branches = SP!Branches
        /\ M!Core(c)!Words = SP!Words /\ M!Core(c)!WORD = SP!WORD
        /\ M!Core(c)!Halted = SP!HALTED
        /\ M!Core(c)!NEXT_INSTRUCTION_ADDRESS_REGISTER = SP!NEXT_INSTRUCTION_ADDRESS_REGISTER
        /\ M!Core(c)!REG_IMM = SP!REG_IMM
    BY DEF M!Core!Arithmetic, SP!Arithmetic, M!Core!Branches, SP!Branches, M!Core!Words,
           SP!Words, M!Core!WORD, SP!WORD, M!Core!Halted, SP!HALTED,
           M!Core!NEXT_INSTRUCTION_ADDRESS_REGISTER, SP!NEXT_INSTRUCTION_ADDRESS_REGISTER,
           M!Core!REG_IMM, SP!REG_IMM
  <1>2. \A program, n : M!Core(c)!InstructionAt(program, n) = SP!InstructionAt(program, n)
    BY DEF M!Core!InstructionAt, SP!InstructionAt, M!Core!Halt, SP!Halt
  <1>3. \A n : M!Core(c)!At(n) = SP!At(cores[c].program, n)
    BY <1>1, <1>2 DEF M!Core!At, SP!At
  <1>4. \A regs, i, r : M!Core(c)!Value(regs, i, r) = SP!Value(regs, i, r)
    BY <1>1 DEF M!Core!Value, SP!Value
  <1>5. \A regs, r, v : M!Core(c)!Written(regs, r, v) = SP!Written(regs, r, v)
    BY <1>1 DEF M!Core!Written, SP!Written
  <1>6. \A op, a, b : M!Core(c)!Computed(op, a, b) = SP!Computed(op, a, b)
    BY ZenonT(40) DEF M!Core!Computed, SP!Computed, M!Core!OfBits, SP!OfBits, M!Core!Bits, SP!Bits,
                 M!Core!Shift, SP!Shift, M!Core!Words, SP!Words, M!Core!WORD, SP!WORD
  <1>7. \A regs, i : M!Core(c)!Result(regs, i) = SP!Result(regs, i)
    BY <1>4, <1>6, Zenon DEF M!Core!Result, SP!Result
  <1>8. \A regs, i : M!Core(c)!AddressIn(regs, i) = SP!AddressIn(regs, i)
    BY <1>1, <1>4, Zenon DEF M!Core!AddressIn, SP!AddressIn
  <1>9. \A regs, i : M!Core(c)!Taken(regs, i) = SP!Taken(regs, i)
    BY <1>4 DEF M!Core!Taken, SP!Taken
  <1>10. \A regs, i : M!Core(c)!Target(regs, i) = SP!Target(regs, i)
    BY <1>4, Zenon DEF M!Core!Target, SP!Target
  <1> QED BY <1>1, <1>2, <1>3, <1>4, <1>5, <1>7, <1>8, <1>9, <1>10

\* A core that carries out an instruction takes a step of the machine.
LEMMA CoreCarriesOut ==
  ASSUME NEW c \in Cores, SP!CarriesOut(cores[c], cores'[c], SharedData, SharedData')
  PROVE  M!Core(c)!Next
  <1> DEFINE k == cores[c]
             n == cores'[c]
             pc == SP!PcOfIsa(k)
             next == SP!NextOfIsa(k)
             i == SP!InstructionAt(k.program, pc)
             regs == SP!WrittenBack(k)
             left == SP!WrittenBack(n)
  <1>1. /\ pc # SP!HALTED /\ n.program = k.program /\ SP!PcOfIsa(n) = next
        /\ SP!NextOfIsa(n) = IF next = SP!HALTED THEN SP!HALTED
                             ELSE SP!At(k.program, SP!Succ(regs, i, next))
        /\ SP!Effect(i, next, regs, left, SharedData, SharedData')
    BY Zenon DEF SP!CarriesOut
  <1>2. /\ S!PcOfIsa(k) = pc /\ S!NextOfIsa(k) = next /\ S!WrittenBack(k) = regs
        /\ S!PcOfIsa(n) = SP!PcOfIsa(n) /\ S!NextOfIsa(n) = SP!NextOfIsa(n)
        /\ S!WrittenBack(n) = left
    BY SameMapping, SameCalls, Zenon
  <1>3. pc # M!Core(c)!Halted /\ M!Core(c)!InstructionAt(k.program, pc) = i
    BY <1>1, SameMachine, Zenon
  <1> HIDE DEF k, n, i, pc, next, regs, left
  <1>4. M!Core(c)!Advance(i)
    <2>1. /\ M!Core(c)!Taken(regs, i) = SP!Taken(regs, i)
          /\ M!Core(c)!Target(regs, i) = SP!Target(regs, i)
          /\ M!Core(c)!Halted = SP!HALTED /\ \A m : M!Core(c)!At(m) = SP!At(k.program, m)
      BY SameMachine, Zenon DEF k
    <2>2. SP!NextOfIsa(n) = M!Core(c)!Behind(next, IF M!Core(c)!Taken(regs, i)
                                                   THEN M!Core(c)!Target(regs, i) ELSE next + 1)
      BY <1>1, <2>1 DEF M!Core!Behind, SP!Succ
    <2> QED BY <1>1, <1>2, <2>2 DEF M!Core!Advance, k, n
  <1>5. \/ M!Core(c)!Compute(i) \/ M!Core(c)!Branch(i) \/ M!Core(c)!Jal(i)
        \/ M!Core(c)!Lw(i) \/ M!Core(c)!Sw(i)
    <2>1. \/ i.op \in SP!Arithmetic /\ left = SP!Written(regs, i.rd, SP!Result(regs, i))
             /\ SharedData' = SharedData
          \/ i.op \in SP!Branches \ {"jal"} /\ left = regs /\ SharedData' = SharedData
          \/ /\ i.op = "jal" /\ SharedData' = SharedData
             /\ \E a \in IF next = SP!HALTED THEN SP!Words ELSE {(next + 1) % SP!WORD} :
                   left = [regs EXCEPT ![SP!NEXT_INSTRUCTION_ADDRESS_REGISTER] = a]
          \/ i.op = "lw" /\ left = SP!Written(regs, i.rd, SharedData[SP!AddressIn(regs, i)])
             /\ SharedData' = SharedData
          \/ /\ i.op = "sw" /\ left = regs
             /\ SharedData' = [SharedData EXCEPT ![SP!AddressIn(regs, i)] = SP!Value(regs, i, i.rd)]
      BY <1>1, Zenon DEF SP!Effect
    <2>2. /\ M!Core(c)!Arithmetic = SP!Arithmetic /\ M!Core(c)!Branches = SP!Branches
          /\ M!Core(c)!Words = SP!Words /\ M!Core(c)!WORD = SP!WORD
          /\ M!Core(c)!Halted = SP!HALTED
          /\ M!Core(c)!NEXT_INSTRUCTION_ADDRESS_REGISTER = SP!NEXT_INSTRUCTION_ADDRESS_REGISTER
          /\ M!Core(c)!Result(regs, i) = SP!Result(regs, i)
          /\ M!Core(c)!AddressIn(regs, i) = SP!AddressIn(regs, i)
          /\ M!Core(c)!Value(regs, i, i.rd) = SP!Value(regs, i, i.rd)
          /\ \A v : M!Core(c)!Written(regs, i.rd, v) = SP!Written(regs, i.rd, v)
      BY SameMachine
    <2>3. /\ S!WrittenBack(cores[c]) = regs /\ S!WrittenBack(cores'[c]) = left
          /\ S!NextOfIsa(cores[c]) = next
      BY <1>2 DEF k, n
    <2>4. ASSUME i.op \in SP!Arithmetic, left = SP!Written(regs, i.rd, SP!Result(regs, i)),
                 SharedData' = SharedData
          PROVE  M!Core(c)!Compute(i)
      BY <2>2, <2>3, <2>4 DEF M!Core!Compute
    <2>5. ASSUME i.op \in SP!Branches \ {"jal"}, left = regs, SharedData' = SharedData
          PROVE  M!Core(c)!Branch(i)
      BY <2>2, <2>3, <2>5 DEF M!Core!Branch
    <2>6. ASSUME i.op = "jal", SharedData' = SharedData,
                 \E a \in IF next = SP!HALTED THEN SP!Words ELSE {(next + 1) % SP!WORD} :
                    left = [regs EXCEPT ![SP!NEXT_INSTRUCTION_ADDRESS_REGISTER] = a]
          PROVE  M!Core(c)!Jal(i)
      BY <2>2, <2>3, <2>6 DEF M!Core!Jal
    <2>7. ASSUME i.op = "lw", left = SP!Written(regs, i.rd, SharedData[SP!AddressIn(regs, i)]),
                 SharedData' = SharedData
          PROVE  M!Core(c)!Lw(i)
      BY <2>2, <2>3, <2>7, Zenon DEF M!Core!Lw
    <2>8. ASSUME i.op = "sw", left = regs,
                 SharedData' = [SharedData EXCEPT ![SP!AddressIn(regs, i)] = SP!Value(regs, i, i.rd)]
          PROVE  M!Core(c)!Sw(i)
      BY <2>2, <2>3, <2>8, Zenon DEF M!Core!Sw
    <2> QED BY <2>1, <2>4, <2>5, <2>6, <2>7, <2>8, Zenon
  <1> QED BY <1>2, <1>3, <1>4, <1>5 DEF M!Core!Next, k

\* With it the machines of the other cores stand still.
LEMMA MachineSteps ==
  ASSUME NEW c \in Cores, \A k \in Cores \ {c} : cores'[k] = cores[k],
         \/ SP!Stands(cores[c], cores'[c]) /\ SharedData' = SharedData
         \/ SP!CarriesOut(cores[c], cores'[c], SharedData, SharedData')
  PROVE  [M!Next]_(M!vars)
  <1>1. ASSUME NEW k \in Cores \ {c}
        PROVE  /\ S!WrittenBack(cores'[k]) = S!WrittenBack(cores[k])
               /\ S!PcOfIsa(cores'[k]) = S!PcOfIsa(cores[k])
               /\ S!NextOfIsa(cores'[k]) = S!NextOfIsa(cores[k])
    OBVIOUS
  <1>2. \A k \in Cores : cores'[k].program = cores[k].program
    <2>1. cores'[c].program = cores[c].program
      BY Zenon DEF SP!Stands, SP!CarriesOut
    <2> QED BY <2>1
  <1>3. CASE SP!Stands(cores[c], cores'[c]) /\ SharedData' = SharedData
    <2>1. /\ S!WrittenBack(cores'[c]) = S!WrittenBack(cores[c])
          /\ S!PcOfIsa(cores'[c]) = S!PcOfIsa(cores[c])
          /\ S!NextOfIsa(cores'[c]) = S!NextOfIsa(cores[c])
      BY <1>3, SameMapping, SameCalls DEF SP!Stands
    <2> QED BY <1>1, <1>2, <1>3, <2>1 DEF M!vars
  <1>4. CASE SP!CarriesOut(cores[c], cores'[c], SharedData, SharedData')
    <2>1. M!Core(c)!Next
      BY <1>4, CoreCarriesOut
    <2> QED BY <1>1, <1>2, <2>1 DEF M!Next
  <1> QED BY <1>3, <1>4

\* The cores start in order, and as the machine does.
LEMMA OrderedStart ==
  ASSUME SimulatorInit, PlainWorkloads
  PROVE  Ordered /\ M!Init
  <1>1. PICK w \in Workloads : cores = [c \in Cores |-> CoreOf(w[c])]
    BY DEF SimulatorInit
  <1>2. ASSUME NEW c \in Cores
        PROVE  /\ SP!InOrder(cores[c], 511) /\ SP!Plain(w[c]) /\ SP!Short(w[c])
               /\ cores[c].program = w[c]
               /\ SP!WrittenBack(cores[c]) = [r \in Registers |-> 0]
               /\ SP!PcOfIsa(cores[c]) = SP!At(w[c], 0)
               /\ SP!NextOfIsa(cores[c]) = IF SP!PcOfIsa(cores[c]) = SP!HALTED THEN SP!HALTED
                                           ELSE SP!At(w[c], 1)
    <2>1. SP!Plain(w[c]) /\ SP!Short(w[c])
      BY SameConditions DEF PlainWorkloads
    <2>2. w[c] \in SP!AnyProgram
      <3>1. PICK n \in Nat : n = Cardinality(DOMAIN w[c])
        BY SimulatorAssumption, FS_CardinalityType
      <3>2. w[c] \in [0..(n - 1) -> SP!Instruction]
        BY <3>1, SimulatorAssumption, SameWords
      <3> QED BY <3>2 DEF SP!AnyProgram
    <2>3. SP!Reaches(w[c], 511)
      BY <2>1 DEF SP!Short, SP!Reaches, SP!MAX_INTEGER
    <2>4. cores[c] \in {SP!Started(w[c]), SP!Terminated(SP!Started(w[c]))}
      BY <1>1, SameCores DEF CoreOf
    <2> QED BY <2>1, <2>2, <2>3, <2>4, SP!StartInOrder, StagesConstants
  <1>3. Ordered
    BY <1>2 DEF Ordered
  <1>4. [c \in Cores |-> cores[c].program] \in Workloads
    <2>1. w = [c \in Cores |-> w[c]]
      BY SimulatorAssumption
    <2>2. [c \in Cores |-> cores[c].program] = [c \in Cores |-> w[c]]
      BY <1>2
    <2> QED BY <2>1, <2>2
  <1>5. SharedData = M!FileContent
    <2>1. latest = Loaded
      BY DEF SimulatorInit, Start, MemoryInit, NothingStored
    <2> QED BY <2>1, SharedStart DEF M!FileContent, M!Words, M!WORD, S!Words, S!WORD
  <1>6. ASSUME NEW c \in Cores
        PROVE  M!Core(c)!Init
    <2>1. /\ cores[c].program \in {x[c] : x \in Workloads}
          /\ S!WrittenBack(cores[c]) = [r \in Registers |-> 0]
          /\ S!PcOfIsa(cores[c]) = M!Core(c)!At(0)
          /\ S!NextOfIsa(cores[c]) = M!Core(c)!Behind(S!PcOfIsa(cores[c]), 1)
      <3>1. M!Core(c)!Halted = SP!HALTED /\ \A n : M!Core(c)!At(n) = SP!At(cores[c].program, n)
        BY SameMachine
      <3>2. cores[c].program \in {x[c] : x \in Workloads}
        BY <1>2
      <3> QED BY <1>2, <3>1, <3>2, SameMapping, SameCalls DEF M!Core!Behind
    <2>2. SharedData \in [M!Core(c)!Words -> M!Core(c)!Words]
      <3>1. LatestType
        BY LoadedType DEF SimulatorInit, Start, MemoryInit, NothingStored, LatestType
      <3> QED BY <3>1, SharedType, SameWords, SameMachine
    <2> QED BY <2>1, <2>2 DEF M!Core!Init
  <1> QED BY <1>3, <1>4, <1>5, <1>6 DEF M!Init

\* Whatever caches, bus and pipelines do, and whatever memin.txt holds, the programs run as if
\* the cores took turns with whole instructions on one memory: when they keep to what the
\* hazard check knows, as long as no instruction leaves decode undecoded, no store misses its
\* value and the caches do not race.
THEOREM SimulatorSequentiallyConsistent ==
  ASSUME ErrCell = {}, PlainWorkloads
  PROVE  SimulatorSpec /\ [](NoDeparture /\ raced = {}) => SequentiallyConsistent
  <1> DEFINE Inv == SimulatorInv /\ CoherenceInv /\ Ordered
  <1>1. SimulatorInit => Inv /\ M!Init
    <2>1. SimulatorInit => CoherenceInv
      BY LoadedType, LoadedStart DEF SimulatorInit
    <2> QED BY <2>1, SimulatorStart, OrderedStart
  <1>2. Inv /\ NoDeparture /\ raced = {} /\ [SimulatorNext]_simulatorVars => Inv' /\ [M!Next]_(M!vars)
    <2> SUFFICES ASSUME Inv, NoDeparture, raced = {}, [SimulatorNext]_simulatorVars
                 PROVE  Inv' /\ [M!Next]_(M!vars)
      OBVIOUS
    <2>1. SimulatorInv' /\ CoherenceInv'
      BY SimulatorStep, SimulatorData
    <2>2. raced = {} /\ \A c \in Cores : ~S!LosesDecode(cores[c]) /\ ~S!MissesStore(cores[c])
      BY DEF NoDeparture
    <2>3. CASE UNCHANGED <<cores, SharedData>>
      <3>1. Ordered'
        BY <2>3 DEF Ordered
      <3>2. UNCHANGED M!vars
        BY <2>3 DEF M!vars
      <3> QED BY <2>1, <3>1, <3>2
    <2>4. ASSUME NEW c \in Cores, Calls(c) PROVE Inv' /\ [M!Next]_(M!vars)
      <3>1. LatestType
        BY DEF CoherenceInv
      <3>2. /\ Ordered'
            /\ \/ SP!Stands(cores[c], cores'[c]) /\ SharedData' = SharedData
               \/ SP!CarriesOut(cores[c], cores'[c], SharedData, SharedData')
        BY <2>2, <2>4, <3>1, CallsInOrder
      <3>3. [M!Next]_(M!vars)
        BY <2>4, <3>2, MachineSteps DEF Calls
      <3> QED BY <2>1, <3>2, <3>3
    <2> QED BY <2>2, <2>3, <2>4, CallsOfCores
  <1> HIDE DEF Inv
  <1> QED BY <1>1, <1>2, PTL DEF SimulatorSpec, SequentiallyConsistent, M!Spec

\* Programs without write sharing need no hypothesis about races: as long as the cores keep to
\* addresses of which no core accesses the blocks that another one stores to, and no
\* instruction leaves decode undecoded and no store misses its value, they run as if they took
\* turns with whole instructions on one memory, however their blocks share lines and the bus.
THEOREM SequentiallyConsistentWithoutWriteSharing ==
  ASSUME ErrCell = {}, PlainWorkloads, NoWriteSharing
  PROVE  SimulatorSpec /\ [](NoDeparture /\ KeepsToAddresses) => SequentiallyConsistent
  BY NoRaceWithoutWriteSharing, SimulatorSequentiallyConsistent, PTL

=============================================================================
