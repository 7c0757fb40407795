---------------------------- MODULE MCSimulator ----------------------------
(***************************************************************************)
(* Statistics.tla, and with it the whole simulator, for TLC.  A behaviour  *)
(* is determined by its workload: each core has a short program, and the   *)
(* idle instructions in front of it shift the cores against each other.    *)
(***************************************************************************)
EXTENDS Statistics

SixteenWords == 0..15
AllAddresses == [c \in Cores |-> Addresses]
File == <<0, 0, 3, 7, 0, 4, 9, 1>>

Ins(op, rd, rs, rt, imm) == [op |-> op, rd |-> rd, rs |-> rs, rt |-> rt, imm |-> imm]
Add(rd, rs, imm) == Ins("add", rd, rs, 1, imm)
Load(rd, a)  == Ins("lw", rd, 0, 1, a)
Store(rd, a) == Ins("sw", rd, 0, 1, a)
Nop == Ins("add", 0, 0, 0, 0)

\* s behind n idle instructions.  Instruction memory starts at 0 and ends in a halt.
Program(n, s) ==
    [a \in 0..(n + Len(s)) |-> IF a < n THEN Nop ELSE IF a < n + Len(s) THEN s[a - n + 1] ELSE S!Halt]

-----------------------------------------------------------------------------
(* The programs.  Words 0..3 and 8..11 are blocks of line 0, the others of *)
(* line 1.                                                                 *)

\* Add one to the shared word 0 in turn: spin until it is the own number.
TakesTurn(c, n) ==
    Program(n, <<Load(2, 0), Ins("bne", 0, 2, 1, c), Nop, Add(2, 2, 1), Store(2, 0)>>)

\* Add one to word a.
Increments(a, n) == Program(n, <<Load(2, a), Add(2, 2, 1), Store(2, a)>>)

\* Add one to two words whose blocks take each other's place in the cache.
Alternates(a, b, n) ==
    Program(n, <<Load(2, a), Add(2, 2, 1), Store(2, a), Nop, Nop,
                 Load(3, b), Add(3, 3, 1), Store(3, b), Load(2, a)>>)

\* Store to a word, then load another.
StoresAndLoads(a, b, n) == Program(n, <<Add(2, 0, 5), Store(2, a), Load(3, b)>>)

Stores5(a, n) == Program(n, <<Add(2, 0, 5), Store(2, a)>>)
LoadsBoth(a, b, n) == Program(n, <<Load(2, a), Load(3, b)>>)

\* Store a message and raise a flag; wait for the flag and load the message.
Sends(message, flag, n) == Program(n, <<Add(2, 0, 5), Store(2, message), Store(2, flag)>>)
Receives(message, flag, n) ==
    Program(n, <<Load(3, flag), Ins("beq", 0, 3, 0, 0), Nop, Load(2, message)>>)

\* Every operation, on words of the file, with a jump that is not taken.
Computes ==
    Program(0, <<Load(2, 6), Load(3, 2), Nop, Ins("sub", 2, 3, 2, 0), Ins("mul", 3, 2, 3, 0),
                 Ins("xor", 2, 2, 1, 5), Ins("sra", 3, 2, 1, 1), Ins("or", 3, 3, 2, 0),
                 Ins("and", 2, 3, 1, 12), Ins("sll", 3, 2, 1, 1), Ins("srl", 2, 2, 1, 2),
                 Ins("jal", 1, 0, 0, 3), Nop, Store(3, 6)>>)

-----------------------------------------------------------------------------
(* The workloads: d[c] idle instructions for core c.                       *)

InTurn(d) == [c \in Cores |-> TakesTurn(c, d[c])]
Private(d) == [c \in Cores |-> Increments(4 * c, d[c])]
Evicting(d) ==
    <<Alternates(0, 8, d[0]), Alternates(4, 12, d[1]), Program(d[2], <<>>), Computes>>
TwoWriters(d) ==
    <<StoresAndLoads(0, 4, d[0]), StoresAndLoads(4, 0, d[1]),
      StoresAndLoads(8, 12, d[2]), StoresAndLoads(12, 8, d[3])>>
TwoReaders(d) ==
    <<Stores5(0, d[0]), Stores5(8, d[1]), LoadsBoth(0, 8, d[2]), LoadsBoth(8, 0, d[3])>>
Messages(d) ==
    <<Sends(8, 0, d[0]), Receives(8, 0, d[1]), Receives(8, 0, d[2]), Program(d[3], <<>>)>>

\* Files may be empty where no other core accesses memory, and go on behind a halt: with what
\* would have to wait for the instruction before it.
Missing(d) ==
    <<Program(d[0], <<Add(2, 0, 5)>>), NoProgram,
      Program(d[2], <<Add(2, 0, 5), S!Halt, Add(3, 2, 1)>>), NoProgram>>

\* A list of four programs as a function of the core.
OfCores(s) == [c \in Cores |-> s[c + 1]]

Delays(n) == [Cores -> 0..n]
AllWorkloads ==
    UNION { {InTurn(d), Private(d), OfCores(Evicting(d)), OfCores(TwoWriters(d)),
             OfCores(TwoReaders(d)), OfCores(Missing(d))} : d \in Delays(1)}
    \cup {OfCores(Messages(d)) : d \in {n \in Delays(2) : n[3] = 0}}

ASSUME PlainAssumption == PlainWorkloads
ASSUME HaltingAssumption == HaltingWorkloads

=============================================================================
