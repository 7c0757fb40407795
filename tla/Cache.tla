------------------------------- MODULE Cache -------------------------------
(***************************************************************************)
(* The private caches: direct mapped, write back, write allocate, with a   *)
(* MESI state per line (cache.c).  tsram holds tag and state of a line,    *)
(* dsram its words.  The operators are the decisions the four callbacks    *)
(* take on a bus packet and what they leave in the caches.                 *)
(***************************************************************************)
EXTENDS Memory, FiniteSetsExt

CONSTANT CORES_NUMBER    \* 4 in the code

ASSUME CacheAssumption == CORES_NUMBER \in Nat \ {0} /\ CORES_NUMBER < 65535

Cores == 0..(CORES_NUMBER - 1)

VARIABLES tsram,   \* per core and index: tag and MESI state
          dsram    \* per core, index and offset: the word

cacheVars == <<tsram, dsram>>

Mesi == {"invalid", "shared", "exclusive", "modified"}

\* A line of the TSRAM: the fields that the accessors of helper.c take apart.
Line == [tag : Tags, mesi : Mesi]

CacheTypeOK ==
    /\ tsram \in [Cores -> [Indexes -> Line]]
    /\ dsram \in [Cores -> [Indexes -> [Offsets -> Data]]]

\* Both SRAMs are zero at the start; zero is the invalid state.
CacheInit ==
    /\ tsram = [c \in Cores |-> [i \in Indexes |-> [tag |-> 0, mesi |-> "invalid"]]]
    /\ dsram = [c \in Cores |-> [i \in Indexes |-> [o \in Offsets |-> 0]]]

\* Tag match on a valid line.
Holds(c, b) == tsram[c][b.index].tag = b.tag /\ tsram[c][b.index].mesi # "invalid"

HoldsIn(c, b, states) == Holds(c, b) /\ tsram[c][b.index].mesi \in states

-----------------------------------------------------------------------------
(* shared_block_check, asked of the caches in ascending order until one    *)
(* of them has the block.                                                  *)

Sharers(c, b) == {k \in Cores \ {c} : Holds(k, b)}

\* "changed": some cache that was asked has a modified line at the index.  The tag of
\* that line is not looked at.
Changed(c, b) ==
    \E k \in Cores \ {c} :
        /\ tsram[k][b.index].mesi = "modified"
        /\ \A s \in Sharers(c, b) : k <= s

-----------------------------------------------------------------------------
(* check_existance_of_block: the first cache that has the block reacts,    *)
(* the others are not asked.  Only a flush is seen by its own originator.  *)

Reacting(p) == {k \in Cores : Holds(k, p.block) /\ (k # p.origid \/ p.command = "bus_flush")}

\* Mutant: an exclusive line takes no notice of a read.
ExclusiveStays(mesi, command) ==
    CASE command = "bus_read_exclusive" -> "invalid"
      [] command = "bus_read" /\ mesi \in {"shared", "modified"} -> "shared"
      [] OTHER -> mesi

\* The next state of a line, by the functions of from_what_mesi_state_operate.
SnoopedState(mesi, command) ==
    CASE command = "bus_read_exclusive" -> "invalid"
      [] command = "bus_read" /\ mesi # "invalid" -> "shared"
      [] OTHER -> mesi

\* A modified line replaces the packet by the flush of its word.
SnoopedPacket(p, offset) ==
    IF Reacting(p) = {} \/ tsram[Min(Reacting(p))][p.block.index].mesi # "modified" THEN p
    ELSE LET k == Min(Reacting(p)) IN
         [p EXCEPT !.origid = k, !.command = "bus_flush",
                   !.data = dsram[k][p.block.index][offset]]

\* A modified line changes state with the last word only, any other line at once.
SnoopedTags(p, offset) ==
    IF Reacting(p) = {} THEN tsram
    ELSE LET k == Min(Reacting(p))
             i == p.block.index
         IN  IF tsram[k][i].mesi = "modified" /\ offset # BLOCK_SIZE - 1 THEN tsram
             ELSE [tsram EXCEPT ![k][i].mesi = SnoopedState(@, p.command)]

-----------------------------------------------------------------------------
(* cache_data_answer: the cache of core c takes packet p from the bus.     *)
(* The tag changes with the first word, the state with the last.           *)

\* Mutants: the last word is never recognised, or bus_shared is ignored.
StateNeverSet(tags, c, p, offset, shared) ==
    IF p.origid = c THEN tags ELSE [tags EXCEPT ![c][p.block.index].tag = p.block.tag]

AlwaysExclusive(tags, c, p, offset, shared) ==
    IF p.origid = c THEN tags
    ELSE [tags EXCEPT ![c][p.block.index] =
             [tag |-> p.block.tag,
              mesi |-> IF offset # BLOCK_SIZE - 1 THEN @.mesi ELSE "exclusive"]]

AnsweredTags(tags, c, p, offset, shared) ==
    IF p.origid = c THEN tags
    ELSE [tags EXCEPT ![c][p.block.index] =
             [tag |-> p.block.tag,
              mesi |-> IF offset # BLOCK_SIZE - 1 THEN @.mesi
                       ELSE IF shared THEN "shared" ELSE "exclusive"]]

AnsweredWords(c, p, offset) ==
    IF p.origid = c THEN dsram
    ELSE [dsram EXCEPT ![c][p.block.index][offset] = p.data]

-----------------------------------------------------------------------------
(* What read_from_cache and write_to_cache push on a miss.                 *)

\* Mutants: the modified line is dropped, or flushed to the address that missed.
NoEviction(c, b, offset) == <<>>

EvictionToNewBlock(c, b, offset) ==
    IF tsram[c][b.index].mesi # "modified" THEN <<>>
    ELSE << [origid |-> c, command |-> "bus_flush", block |-> b,
             data |-> dsram[c][b.index][offset]] >>

\* operate_dirty_block: the flush of the modified line at the index of b.  The data
\* captured here is the word at the offset that missed.
Eviction(c, b, offset) ==
    LET line == tsram[c][b.index] IN
    IF line.mesi # "modified" THEN <<>>
    ELSE << [origid |-> c, command |-> "bus_flush",
             block |-> [tag |-> line.tag, index |-> b.index],
             data |-> dsram[c][b.index][offset]] >>

Fetch(c, command, b) == [origid |-> c, command |-> command, block |-> b, data |-> 0]

=============================================================================
