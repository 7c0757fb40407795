------------------------------- MODULE Memory -------------------------------
(***************************************************************************)
(* Main memory and its response timer (bus_memory_exec_function, main.c).  *)
(* operate_bus calls it once per cycle of a transaction; the operators     *)
(* below are the parts of that call and are conjoined in QuadCore.tla.     *)
(***************************************************************************)
EXTENDS Naturals

CONSTANTS Tags,                       \* the cache tags of the addresses in use
          Indexes,                    \* the cache lines (sets) of the addresses in use
          BLOCK_SIZE,                 \* words in a block, 4 in the code
          Data,                       \* the values of a word
          MEMORY_DELAY_TO_FIRST_BYTE  \* calls before the first word, 16 in the code

ASSUME MemoryAssumption ==
    /\ 0 \in Tags /\ 0 \in Data /\ Indexes # {}
    /\ BLOCK_SIZE \in Nat \ {0}
    /\ MEMORY_DELAY_TO_FIRST_BYTE \in Nat \ {0}

\* An address is the block (tag and index) and the word's offset in it.
Blocks == [tag : Tags, index : Indexes]
Offsets == 0..(BLOCK_SIZE - 1)
Addresses == [block : Blocks, offset : Offsets]
\* 19 in the code: the remaining words follow the first in consecutive cycles.
MEMORY_DELAY_TO_LAST_BYTE_OF_WORD == MEMORY_DELAY_TO_FIRST_BYTE + BLOCK_SIZE - 1

VARIABLES memory,                    \* main_memory, by block and offset
          is_memory_operation,       \* a block is being read or written
          main_memory_response_time  \* calls since that operation began

memoryVars == <<memory, is_memory_operation, main_memory_response_time>>

MemoryTypeOK ==
    /\ memory \in [Blocks -> [Offsets -> Data]]
    /\ is_memory_operation \in BOOLEAN
    /\ main_memory_response_time \in 0..(MEMORY_DELAY_TO_LAST_BYTE_OF_WORD + 1)

\* memory_initalize: the timer is cleared; memin.txt gives the content.
MemoryInit(content) ==
    /\ memory = content
    /\ is_memory_operation = FALSE
    /\ main_memory_response_time = 0

\* The timer as this call sees it: a new operation starts from zero, or with the
\* whole delay behind it when the caller signals that a cache has the data.
ResponseTime(direct) ==
    IF is_memory_operation THEN main_memory_response_time
    ELSE IF direct THEN MEMORY_DELAY_TO_FIRST_BYTE ELSE 0

Answers(direct) == ResponseTime(direct) >= MEMORY_DELAY_TO_FIRST_BYTE

\* Mutants: the operation never ends, or it ends one word early.
TimerNeverEnds(direct) ==
    /\ is_memory_operation' = TRUE
    /\ main_memory_response_time' = ResponseTime(direct) + 1

TimerEndsEarly(direct) ==
    /\ is_memory_operation' = (ResponseTime(direct) # MEMORY_DELAY_TO_LAST_BYTE_OF_WORD - 1)
    /\ main_memory_response_time' = ResponseTime(direct) + 1

\* Every call advances the timer; the one that moves the last word ends the operation.
TimerStep(direct) ==
    /\ is_memory_operation' = (ResponseTime(direct) # MEMORY_DELAY_TO_LAST_BYTE_OF_WORD)
    /\ main_memory_response_time' = ResponseTime(direct) + 1

\* What is on the bus once memory has answered: it supplies the word of a fetch and
\* lets a flush pass.
Supplied(packet, content, offset, supplier) ==
    IF packet.command = "bus_flush" THEN packet
    ELSE [packet EXCEPT !.origid = supplier, !.command = "bus_flush",
                        !.data = content[packet.block][offset]]

\* The memory content after a word passed: a flush is written through.
Stored(packet, content, offset) ==
    IF packet.command = "bus_flush"
    THEN [content EXCEPT ![packet.block][offset] = packet.data]
    ELSE content

=============================================================================
