----------------------------- MODULE Coherence -----------------------------
(***************************************************************************)
(* What the caches promise to the programs: a load returns the value       *)
(* stored last, whichever core stored it.  Two history variables observe   *)
(* QuadCore.tla without touching it: the value stored last, and whether    *)
(* one of the two races has happened in which the code breaks the promise. *)
(***************************************************************************)
EXTENDS QuadCore

VARIABLES latest,   \* per block and offset: the value stored last
          raced     \* the races that have happened

history == <<latest, raced>>
allVars == <<vars, history>>

NothingStored == latest = memory /\ raced = {}

CoherenceInit == Init /\ NothingStored

\* A store hits a word that the running transaction has already moved to another core.
LateWrite(c, r) ==
    /\ is_bus_operating
    /\ current_data_on_bus.origid # c
    /\ current_data_on_bus.command # "bus_flush"
    /\ current_data_on_bus.block = r.address.block
    /\ r.address.offset < offset_of_address

\* An eviction gets the bus when no cache has the block modified any more.
StaleEviction ==
    /\ ~is_bus_operating
    /\ list # <<>>
    /\ Head(list).command = "bus_flush"
    /\ \A k \in Cores : ~HoldsIn(k, Head(list).block, {"modified"})

ObserveBus ==
    /\ OperateBus
    /\ raced' = IF StaleEviction THEN raced \cup {"stale_eviction"} ELSE raced
    /\ UNCHANGED latest

ObserveAccess(c, r) ==
    IF r.op = "sw" /\ request'[c] = None
    THEN LET b == r.address.block
             o == r.address.offset
         IN  /\ latest' = [latest EXCEPT ![b][o] = dsram'[c][b.index][o]]
             /\ raced' = IF LateWrite(c, r) THEN raced \cup {"late_write"} ELSE raced
    ELSE UNCHANGED history

ObserveCore(c) ==
    /\ turn = c + 1
    /\ \/ \E r \in Upcoming(c) : Access(c, r) /\ ObserveAccess(c, r)
       \/ NoAccess(c) /\ UNCHANGED history
    /\ NextTurn

CoherenceNext == ObserveBus \/ \E c \in Cores : ObserveCore(c)

CoherenceSpec == CoherenceInit /\ [][CoherenceNext]_allVars /\ WF_allVars(CoherenceNext)

-----------------------------------------------------------------------------
(* Properties.                                                             *)

\* Every copy a core may read holds the values stored last.
CurrentCopies ==
    \A c \in Cores : \A b \in Blocks :
        Usable(c) /\ Holds(c, b) => dsram[c][b.index] = latest[b]

\* Main memory holds the values stored last of every block that no cache has modified.
CurrentMemory ==
    \A b \in Blocks :
        (\A c \in Cores : ~HoldsIn(c, b, {"modified"})) => memory[b] = latest[b]

Coherent == CurrentCopies /\ CurrentMemory

\* The two races are the only ways to lose a store: until the first of them, every
\* copy and the main memory are up to date.
CoherentUnlessRaced == raced = {} => Coherent

\* A dirty block is written to main memory before its line is given away: an eviction
\* leaves main memory with the values stored last.
EvictionKeepsStores == "late_write" \notin raced => CurrentMemory

\* The copy that a transaction brings to a core, and the one that supplied it, hold the
\* values stored last.
TransferKeepsStores == "stale_eviction" \notin raced => CurrentCopies

=============================================================================
