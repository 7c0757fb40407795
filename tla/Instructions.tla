---------------------------- MODULE Instructions ----------------------------
(***************************************************************************)
(* What the instructions compute (the functions of helper.c), as operators *)
(* on an instruction and a register file.                                  *)
(***************************************************************************)
EXTENDS Naturals

CONSTANTS Registers,  \* the registers in use, REG_IMM excepted
          WIDTH       \* the bits of a word, 32 in the code

ASSUME InstructionsAssumption ==
    /\ WIDTH \in Nat \ {0}
    /\ {0, 15} \subseteq Registers /\ 1 \notin Registers

REG_ZERO == 0
REG_IMM == 1
NEXT_INSTRUCTION_ADDRESS_REGISTER == 15

WORD == 2^WIDTH
Words == 0..(WORD - 1)
Arithmetic == {"add", "sub", "and", "or", "xor", "mul", "sll", "sra", "srl"}
Branches == {"beq", "bne", "blt", "bgt", "ble", "bge", "jal"}
Accesses == {"lw", "sw"}
Operands == Registers \cup {REG_IMM}
Instruction == [op : {"halt"} \cup Arithmetic \cup Branches \cup Accesses,
                rd : Operands, rs : Operands, rt : Operands, imm : Words]

Halt == [op |-> "halt", rd |-> 0, rs |-> 0, rt |-> 0, imm |-> 0]

\* A program is a function from 0..(n - 1) to Instruction.  Its file goes on with halts, as
\* many as the instruction memory has room for.
InstructionAt(program, n) == IF n \in DOMAIN program THEN program[n] ELSE Halt

\* Register 1 is overwritten with the immediate before every reading.
Value(regs, i, r) == IF r = REG_IMM THEN i.imm ELSE regs[r]

Written(regs, r, v) == IF r = REG_IMM THEN regs ELSE [regs EXCEPT ![r] = v]

Bits(a) == {n \in 0..(WIDTH - 1) : (a \div 2^n) % 2 = 1}
OfBits(bits) == CHOOSE w \in Words : Bits(w) = bits

\* What proofs need to know of 2^n: a power of two is a natural number above zero, and
\* every set of bits is that of a word.
BinaryNumbers ==
    /\ \A n \in 0..WIDTH : 2^n \in Nat \ {0}
    /\ \A bits \in SUBSET (0..(WIDTH - 1)) : \E w \in Words : Bits(w) = bits

ASSUME BinaryAssumption == BinaryNumbers

\* C leaves a shift by WIDTH or more undefined; the machine code the simulator is built
\* to takes the amount modulo WIDTH.
Shift(b) == 2^(b % WIDTH)

\* Words are unsigned, and cut to WIDTH bits.  Only sra takes its operand as signed.
Computed(op, a, b) ==
    CASE op = "add" -> (a + b) % WORD
      [] op = "sub" -> (WORD + a - b) % WORD
      [] op = "and" -> OfBits(Bits(a) \cap Bits(b))
      [] op = "or"  -> OfBits(Bits(a) \cup Bits(b))
      [] op = "xor" -> OfBits((Bits(a) \cup Bits(b)) \ (Bits(a) \cap Bits(b)))
      [] op = "mul" -> (a * b) % WORD
      [] op = "sll" -> (a * Shift(b)) % WORD
      [] op = "srl" -> a \div Shift(b)
      [] op = "sra" -> IF a < WORD \div 2 THEN a \div Shift(b)
                       ELSE WORD - 1 - ((WORD - 1 - a) \div Shift(b))

Result(regs, i) == Computed(i.op, Value(regs, i, i.rs), Value(regs, i, i.rt))

\* The address of a load or a store.
AddressIn(regs, i) == (Value(regs, i, i.rs) + Value(regs, i, i.rt)) % WORD

Taken(regs, i) ==
    LET a == Value(regs, i, i.rs)
        b == Value(regs, i, i.rt)
    IN  \/ i.op = "beq" /\ a = b
        \/ i.op = "bne" /\ a # b
        \/ i.op = "blt" /\ a < b
        \/ i.op = "bgt" /\ a > b
        \/ i.op = "ble" /\ a <= b
        \/ i.op = "bge" /\ a >= b

\* The mask 0x1FF.
Target(regs, i) == Value(regs, i, i.rd) % 512

=============================================================================
