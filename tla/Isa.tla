-------------------------------- MODULE Isa --------------------------------
(***************************************************************************)
(* The machine that a program sees: one instruction after the other.  A    *)
(* branch takes effect behind the instruction that follows it (the delay   *)
(* slot).  Pipeline.tla implements this specification.                     *)
(***************************************************************************)
EXTENDS Instructions

CONSTANT Programs    \* the programs to start with

VARIABLES program, regs,
          data,      \* what loads and stores see
          pc, next   \* the instruction to be carried out, and the one behind it

vars == <<program, regs, data, pc, next>>

\* A machine that comes to a halt stands still, wherever it is: SIZE_OF_INST is no
\* address.
Halted == 1024
At(n) == IF InstructionAt(program, n).op = "halt" THEN Halted ELSE n
Behind(n, m) == IF n = Halted THEN Halted ELSE At(m)

Init ==
    /\ program \in Programs
    /\ regs = [r \in Registers |-> 0]
    /\ data \in [Words -> Words]
    /\ pc = At(0)
    /\ next = Behind(pc, 1)

Advance(i) ==
    /\ pc' = next
    /\ next' = Behind(next, IF Taken(regs, i) THEN Target(regs, i) ELSE next + 1)
    /\ UNCHANGED program

Compute(i) ==
    /\ i.op \in Arithmetic
    /\ regs' = Written(regs, i.rd, Result(regs, i))
    /\ UNCHANGED data

Branch(i) ==
    /\ i.op \in Branches \ {"jal"}
    /\ UNCHANGED <<regs, data>>

\* The target in rd is overwritten with the return address and is not taken.  Where the
\* delay slot is a halt, this machine does not say what the return address would be.
Jal(i) ==
    /\ i.op = "jal"
    /\ \E a \in IF next = Halted THEN Words ELSE {(next + 1) % WORD} :
          regs' = [regs EXCEPT ![NEXT_INSTRUCTION_ADDRESS_REGISTER] = a]
    /\ UNCHANGED data

Lw(i) ==
    /\ i.op = "lw"
    /\ regs' = Written(regs, i.rd, data[AddressIn(regs, i)])
    /\ UNCHANGED data

Sw(i) ==
    /\ i.op = "sw"
    /\ data' = [data EXCEPT ![AddressIn(regs, i)] = Value(regs, i, i.rd)]
    /\ UNCHANGED regs

Next ==
    /\ pc # Halted
    /\ LET i == InstructionAt(program, pc) IN
       /\ Compute(i) \/ Branch(i) \/ Jal(i) \/ Lw(i) \/ Sw(i)
       /\ Advance(i)

Spec == Init /\ [][Next]_vars

=============================================================================
