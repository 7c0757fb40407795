--------------------------- MODULE Multiprocessor ---------------------------
(***************************************************************************)
(* What the simulator promises to the programs of its cores: each step is  *)
(* one instruction of one core on a memory that all cores share            *)
(* (sequential consistency).  Simulator.tla implements this specification. *)
(***************************************************************************)
EXTENDS Instructions, Sequences

CONSTANTS Cores,
          Workloads,   \* the programs to start with, a function of the core
          MemIn        \* the lines of memin.txt

VARIABLES programs, regs, pc, next,   \* per core, as in Isa.tla
          data                        \* the shared memory, by word address

Core(c) == INSTANCE Isa WITH Programs <- {w[c] : w \in Workloads}, program <- programs[c],
                             regs <- regs[c], pc <- pc[c], next <- next[c]

\* Line by line from address zero; behind the file memory is zero.
FileContent == [a \in Words |-> IF a < Len(MemIn) THEN MemIn[a + 1] ELSE 0]

vars == <<programs, regs, pc, next, data>>

Init ==
    /\ programs \in Workloads
    /\ data = FileContent
    /\ \A c \in Cores : Core(c)!Init

Next ==
    \E c \in Cores :
        /\ Core(c)!Next
        /\ programs' = programs
        /\ \A k \in Cores \ {c} :
              regs'[k] = regs[k] /\ pc'[k] = pc[k] /\ next'[k] = next[k]

Spec == Init /\ [][Next]_vars

=============================================================================
