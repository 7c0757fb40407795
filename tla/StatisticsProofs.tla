-------------------------- MODULE StatisticsProofs --------------------------
(***************************************************************************)
(* Theorems about the statistics, for all programs and every file          *)
(* memin.txt.  Instructions and cycles are counted core by core: how many  *)
(* of them are on their way StagesProofs.tla says.  Loads and stores are   *)
(* counted over all cores, whose caches share their flags.                 *)
(***************************************************************************)
EXTENDS Statistics, SimulatorProofs

-----------------------------------------------------------------------------
(* Sums over a finite set: the function that SumFunction is defined by.    *)

Pick(s) == CHOOSE x \in s : TRUE

SumsUp(g, f, Base) ==
    g = [s \in SUBSET Base |-> IF s = {} THEN 0 ELSE f[Pick(s)] + g[s \ {Pick(s)}]]

\* A sum is the value of that function, if there is one.
LEMMA SumOfAll ==
  ASSUME NEW f
  PROVE  SumFunction(f) = (CHOOSE g : SumsUp(g, f, DOMAIN f))[DOMAIN f]
  BY DEF SumFunction, SumFunctionOnSet, FoldFunctionOnSet, MapThenFoldSet, SumsUp, Pick

\* A set of numbers that has 0 and with each number the next is all of them.
LEMMA AllNumbers ==
  ASSUME NEW Good, 0 \in Good, \A n \in Nat : n \in Good => n + 1 \in Good
  PROVE  Nat \subseteq Good
  <1> SUFFICES ASSUME Nat \ Good # {} PROVE FALSE
    OBVIOUS
  <1> DEFINE m == Min(Nat \ Good)
  <1>1. m \in Nat \ Good /\ \A x \in Nat \ Good : m <= x
    BY MinFacts
  <1> HIDE DEF m
  <1>2. m - 1 \in Nat /\ m = (m - 1) + 1
    BY <1>1
  <1>3. m - 1 \in Good
    BY <1>1, <1>2
  <1> QED BY <1>1, <1>2, <1>3

\* One element less.
LEMMA WithoutPick ==
  ASSUME NEW Base, IsFiniteSet(Base), NEW s \in SUBSET Base
  PROVE  /\ IsFiniteSet(s) /\ Cardinality(s) \in Nat
         /\ Cardinality(s) <= Cardinality(Base) /\ Cardinality(Base) \in Nat
         /\ s # {} => /\ Pick(s) \in s /\ s \ {Pick(s)} \in SUBSET Base
                      /\ Cardinality(s \ {Pick(s)}) = Cardinality(s) - 1
                      /\ Cardinality(s) # 0
  <1>1. IsFiniteSet(s) /\ Cardinality(s) <= Cardinality(Base)
    BY FS_Subset
  <1>2. Cardinality(s) \in Nat /\ Cardinality(Base) \in Nat
    BY <1>1, FS_CardinalityType
  <1>3. ASSUME s # {}
        PROVE  /\ Pick(s) \in s /\ s \ {Pick(s)} \in SUBSET Base
               /\ Cardinality(s \ {Pick(s)}) = Cardinality(s) - 1
               /\ Cardinality(s) # 0
    <2>1. Pick(s) \in s
      BY <1>3 DEF Pick
    <2>2. Cardinality(s \ {Pick(s)}) = Cardinality(s) - 1
      BY <1>1, <2>1, FS_RemoveElement
    <2>3. Cardinality(s) # 0
      BY <1>1, <1>3, FS_EmptySet
    <2> QED BY <2>1, <2>2, <2>3
  <1> QED BY <1>1, <1>2, <1>3

\* A set of subsets that has the empty set, and a set whenever it has it without one element,
\* is all of them.
LEMMA AllSubsets ==
  ASSUME NEW Base, IsFiniteSet(Base), NEW Good, {} \in Good,
         \A s \in SUBSET Base : s # {} /\ s \ {Pick(s)} \in Good => s \in Good
  PROVE  SUBSET Base \subseteq Good
  <1> DEFINE Sizes == {n \in Nat : \A s \in SUBSET Base : Cardinality(s) = n => s \in Good}
  <1>1. 0 \in Sizes
    <2>1. \A s \in SUBSET Base : Cardinality(s) = 0 => s = {}
      BY FS_EmptySet, FS_Subset
    <2> QED BY <2>1
  <1>2. ASSUME NEW n \in Nat, n \in Sizes PROVE n + 1 \in Sizes
    <2>1. ASSUME NEW s \in SUBSET Base, Cardinality(s) = n + 1 PROVE s \in Good
      <3>1. s # {}
        BY <2>1, FS_EmptySet
      <3>2. s \ {Pick(s)} \in SUBSET Base /\ Cardinality(s \ {Pick(s)}) = n
        BY <2>1, <3>1, WithoutPick
      <3> QED BY <1>2, <3>1, <3>2
    <2> QED BY <2>1
  <1> HIDE DEF Sizes
  <1>3. Nat \subseteq Sizes
    BY <1>1, <1>2, AllNumbers
  <1>4. \A s \in SUBSET Base : Cardinality(s) \in Nat
    BY WithoutPick
  <1> QED BY <1>3, <1>4 DEF Sizes

\* There is such a function.
LEMMA SumExists ==
  ASSUME NEW Base, IsFiniteSet(Base), NEW f \in [Base -> Nat]
  PROVE  \E g : SumsUp(g, f, Base)
  <1> DEFINE Small(n) == {s \in SUBSET Base : Cardinality(s) <= n}
             Sum(g, s) == IF s = {} THEN 0 ELSE f[Pick(s)] + g[s \ {Pick(s)}]
             Sums(g, n) == \A s \in Small(n) : g[s] = Sum(g, s)
             Good == {n \in Nat : \E g : Sums(g, n)}
  <1>1. 0 \in Good
    <2> DEFINE zero == [s \in SUBSET Base |-> 0]
    <2>1. ASSUME NEW s \in SUBSET Base, Cardinality(s) <= 0 PROVE s = {}
      <3>1. Cardinality(s) \in Nat /\ (s # {} => Cardinality(s) # 0)
        BY WithoutPick
      <3> QED BY <2>1, <3>1
    <2>2. Sums(zero, 0)
      BY <2>1
    <2> QED BY <2>2
  <1>2. ASSUME NEW n \in Nat, n \in Good PROVE n + 1 \in Good
    <2>1. PICK g : Sums(g, n)
      BY <1>2
    <2> DEFINE h == [s \in SUBSET Base |-> Sum(g, s)]
    <2>2. ASSUME NEW s \in Small(n) PROVE h[s] = g[s]
      BY <2>1
    <2>3. ASSUME NEW s \in Small(n + 1) PROVE h[s] = Sum(h, s)
      <3>1. CASE s = {}
        BY <3>1
      <3>2. CASE s # {}
        <4>1. s \ {Pick(s)} \in Small(n)
          BY <3>2, WithoutPick
        <4>2. h[s \ {Pick(s)}] = g[s \ {Pick(s)}]
          BY <2>2, <4>1
        <4>3. h[s] = f[Pick(s)] + g[s \ {Pick(s)}]
          BY <3>2
        <4> HIDE DEF h
        <4> QED BY <3>2, <4>2, <4>3
      <3> QED BY <3>1, <3>2
    <2> HIDE DEF h
    <2>4. Sums(h, n + 1) /\ n + 1 \in Nat
      BY <2>3
    <2> HIDE DEF Sums
    <2>5. \E k : Sums(k, n + 1)
      BY <2>4
    <2> QED BY <2>4, <2>5
  <1> HIDE DEF Good
  <1>3. Nat \subseteq Good
    BY <1>1, <1>2, AllNumbers
  <1>4. Cardinality(Base) \in Nat
    BY FS_CardinalityType
  <1>5. PICK g : Sums(g, Cardinality(Base))
    BY <1>3, <1>4 DEF Good
  <1>6. \A s \in SUBSET Base : s \in Small(Cardinality(Base))
    BY WithoutPick
  <1>7. \A s \in SUBSET Base : g[s] = Sum(g, s)
    BY <1>5, <1>6
  <1> DEFINE h == [s \in SUBSET Base |-> g[s]]
  <1>8. \A s \in SUBSET Base : h[s] = Sum(h, s)
    <2>1. \A s \in SUBSET Base : s # {} => s \ {Pick(s)} \in SUBSET Base
      OBVIOUS
    <2>2. \A s \in SUBSET Base : h[s] = g[s]
      OBVIOUS
    <2> HIDE DEF h
    <2> QED BY <1>7, <2>1, <2>2
  <1>9. SumsUp(h, f, Base)
    <2>1. h = [s \in SUBSET Base |-> Sum(h, s)]
      <3>1. DOMAIN h = SUBSET Base /\ h = [s \in DOMAIN h |-> h[s]]
        OBVIOUS
      <3> HIDE DEF h
      <3> QED BY <1>8, <3>1
    <2> HIDE DEF h
    <2> QED BY <2>1 DEF SumsUp
  <1> QED BY <1>9

SumBy(f, Base, g) ==
    /\ SumFunction(f) = g[Base]
    /\ g[{}] = 0
    /\ \A s \in SUBSET Base : s # {} => g[s] = f[Pick(s)] + g[s \ {Pick(s)}]

\* The sum of no numbers is 0, and that of more the number of an element added to the sum of
\* the others.
LEMMA SumRecursion ==
  ASSUME NEW Base, IsFiniteSet(Base), NEW f \in [Base -> Nat]
  PROVE  \E g : SumBy(f, Base, g)
  <1> DEFINE g == CHOOSE g : SumsUp(g, f, Base)
  <1>1. SumFunction(f) = g[Base]
    BY SumOfAll
  <1>2. SumsUp(g, f, Base)
    BY SumExists
  <1> HIDE DEF g
  <1>3. \A s \in SUBSET Base : g[s] = IF s = {} THEN 0 ELSE f[Pick(s)] + g[s \ {Pick(s)}]
    BY <1>2 DEF SumsUp
  <1>4. {} \in SUBSET Base
    OBVIOUS
  <1>5. g[{}] = 0
    BY <1>3, <1>4
  <1>6. \A s \in SUBSET Base : s # {} => g[s] = f[Pick(s)] + g[s \ {Pick(s)}]
    BY <1>3
  <1> QED BY <1>1, <1>5, <1>6 DEF SumBy

\* A sum of natural numbers is one; of zeros it is zero.
LEMMA SumType ==
  ASSUME NEW Base, IsFiniteSet(Base), NEW f \in [Base -> Nat]
  PROVE  /\ SumFunction(f) \in Nat
         /\ (\A x \in Base : f[x] = 0) => SumFunction(f) = 0
  <1>1. PICK g : SumBy(f, Base, g)
    BY SumRecursion
  <1> DEFINE Good == {s \in SUBSET Base : g[s] \in Nat /\ ((\A x \in Base : f[x] = 0) => g[s] = 0)}
  <1>2. {} \in Good
    BY <1>1 DEF SumBy
  <1>3. ASSUME NEW s \in SUBSET Base, s # {}, s \ {Pick(s)} \in Good PROVE s \in Good
    <2>1. g[s] = f[Pick(s)] + g[s \ {Pick(s)}] /\ Pick(s) \in Base
      BY <1>1, <1>3 DEF Pick, SumBy
    <2> QED BY <1>3, <2>1
  <1> HIDE DEF Good
  <1>4. SUBSET Base \subseteq Good
    BY <1>2, <1>3, AllSubsets
  <1> QED BY <1>1, <1>4 DEF Good, SumBy

\* One of the numbers of f grows by d.
GrowsAt(f, h, Base, c, d) ==
    /\ f \in [Base -> Nat] /\ h \in [Base -> Nat] /\ c \in Base /\ d \in Nat
    /\ h[c] = f[c] + d /\ \A x \in Base \ {c} : h[x] = f[x]

\* Their sum grows by that.
LEMMA SumGrows ==
  ASSUME NEW Base, IsFiniteSet(Base), NEW f, NEW h, NEW c, NEW d, GrowsAt(f, h, Base, c, d)
  PROVE  SumFunction(h) = SumFunction(f) + d
  <1>0. /\ f \in [Base -> Nat] /\ h \in [Base -> Nat] /\ c \in Base /\ d \in Nat
        /\ h[c] = f[c] + d /\ \A x \in Base \ {c} : h[x] = f[x]
    BY DEF GrowsAt
  <1>1. PICK g : SumBy(f, Base, g)
    BY <1>0, SumRecursion
  <1>2. PICK k : SumBy(h, Base, k)
    BY <1>0, SumRecursion
  <1> DEFINE Good == {s \in SUBSET Base : /\ g[s] \in Nat
                                       /\ k[s] = IF c \in s THEN g[s] + d ELSE g[s]}
  <1>3. {} \in Good
    BY <1>1, <1>2 DEF SumBy
  <1>4. ASSUME NEW s \in SUBSET Base, s # {}, s \ {Pick(s)} \in Good PROVE s \in Good
    <2> DEFINE p == Pick(s)
               rest == s \ {p}
    <2>1. g[s] = f[p] + g[rest] /\ k[s] = h[p] + k[rest] /\ p \in s /\ p \in Base
      BY <1>0, <1>1, <1>2, <1>4 DEF Pick, SumBy
    <2>2. g[rest] \in Nat /\ k[rest] = IF c \in rest THEN g[rest] + d ELSE g[rest]
      BY <1>4
    <2>3. f[p] \in Nat /\ d \in Nat
      BY <1>0, <2>1
    <2>4. CASE p = c
      <3>1. c \notin rest /\ c \in s /\ h[p] = f[p] + d
        BY <1>0, <2>1, <2>4
      <3> HIDE DEF p, rest
      <3> QED BY <2>1, <2>2, <2>3, <3>1
    <2>5. CASE p # c
      <3>1. (c \in rest <=> c \in s) /\ h[p] = f[p]
        BY <1>0, <2>1, <2>5
      <3> HIDE DEF p, rest
      <3> QED BY <2>1, <2>2, <2>3, <3>1
    <2> QED BY <2>4, <2>5
  <1> HIDE DEF Good
  <1>5. SUBSET Base \subseteq Good
    BY <1>3, <1>4, AllSubsets
  <1>6. Base \in Good
    BY <1>5
  <1> QED BY <1>0, <1>1, <1>2, <1>6 DEF Good, SumBy

-----------------------------------------------------------------------------
(* Counting changes nothing.                                               *)

\* A step that counts is a step of the simulator.
LEMMA StatisticsStep == [StatisticsNext]_statisticsVars => [SimulatorNext]_simulatorVars
  <1> SUFFICES ASSUME [StatisticsNext]_statisticsVars PROVE [SimulatorNext]_simulatorVars
    OBVIOUS
  <1>1. ASSUME NEW c \in Cores, CountHit(c) \/ CountMiss(c) \/ CountNoLookup(c)
        PROVE  SimulatorNext
    BY <1>1, Zenon DEF CountHit, CountMiss, CountNoLookup, SimulatorNext
  <1>2. CASE BusTurn \/ \E c \in Cores : CycleAtRest(c)
    BY <1>2, Zenon DEF SimulatorNext
  <1>3. CASE UNCHANGED statisticsVars
    BY <1>3, Zenon DEF statisticsVars
  <1> QED BY <1>1, <1>2, <1>3 DEF StatisticsNext

-----------------------------------------------------------------------------
(* The counters.                                                           *)

Lookups == {"lw", "sw"}

CountersType == [cycles : Nat \cup {-1}, instructions : Nat, decode_stalls : Nat, mem_stalls : Nat,
                 hits : [Lookups -> Nat], misses : [Lookups -> Nat]]

StatisticsType ==
    /\ counters \in [Cores -> CountersType]
    /\ data_is_missing \in [Lookups -> BOOLEAN]
    /\ carried_out \in [Cores -> [instructions : Nat, lw : Nat, sw : Nat]]

\* One for a condition is the same in both modules.
LEMMA SameOne ==
  /\ \A condition : One(condition) = SP!One(condition)
  /\ \A condition : One(condition) \in Nat
  /\ \A k : PipelineIsLegal(k) = SP!Legal(k)
  BY DEF One, SP!One, PipelineIsLegal, SP!Legal

\* An instruction leaves MEM.
Leaves(c, ops) ==
    /\ S!Active(S!MemStage(cores[c])) /\ ~cores'[c].is_mem_stall
    /\ S!Op(cores[c], S!MEM) \in ops

Instructions == S!Arithmetic \cup S!Branches \cup S!Accesses

\* What a call of operate_the_core counts, k of the counters having come from the cache.
LEMMA ObserveFacts ==
  ASSUME StatisticsType, NEW c \in Cores, NEW k \in CountersType, Observe(c, k)
  PROVE  /\ counters' = [counters EXCEPT ![c] = counters'[c]] /\ counters'[c] \in CountersType
         /\ counters'[c].cycles = k.cycles + 1
         /\ counters'[c].instructions = k.instructions + One(PipelineIsLegal(cores[c]))
         /\ counters'[c].decode_stalls + counters'[c].mem_stalls
              = k.decode_stalls + k.mem_stalls
                  + One(cores'[c].is_data_stall \/ cores'[c].is_mem_stall)
         /\ counters'[c].hits = k.hits /\ counters'[c].misses = k.misses
         /\ carried_out' \in [Cores -> [instructions : Nat, lw : Nat, sw : Nat]]
         /\ carried_out' = [carried_out EXCEPT ![c] = carried_out'[c]]
         /\ carried_out'[c].instructions
              = carried_out[c].instructions + One(Leaves(c, Instructions))
         /\ carried_out'[c].lw = carried_out[c].lw + One(Leaves(c, {"lw"}))
         /\ carried_out'[c].sw = carried_out[c].sw + One(Leaves(c, {"sw"}))
  <1> DEFINE legal == One(PipelineIsLegal(cores[c]))
             decoding == One(cores'[c].is_data_stall /\ ~cores'[c].is_mem_stall)
             waiting == One(cores'[c].is_mem_stall)
             counted == [k EXCEPT !.cycles = @ + 1, !.instructions = @ + legal,
                                  !.decode_stalls = @ + decoding, !.mem_stalls = @ + waiting]
             all == One(Leaves(c, Instructions))
             lw == One(Leaves(c, {"lw"}))
             sw == One(Leaves(c, {"sw"}))
  <1>1. /\ counters' = [counters EXCEPT ![c] = counted]
        /\ carried_out' = [carried_out EXCEPT ![c] = [instructions |-> @.instructions + all,
                                                      lw |-> @.lw + lw, sw |-> @.sw + sw]]
    BY Zenon DEF Observe, Counted, Leaves, Instructions
  <1>2. /\ legal \in Nat /\ decoding \in Nat /\ waiting \in Nat
        /\ all \in Nat /\ lw \in Nat /\ sw \in Nat
    BY SameOne
  <1>3. decoding + waiting = One(cores'[c].is_data_stall \/ cores'[c].is_mem_stall)
    BY DEF One
  <1> HIDE DEF legal, decoding, waiting, all, lw, sw
  <1>4. /\ counted.cycles = k.cycles + 1
        /\ counted.instructions = k.instructions + legal
        /\ counted.decode_stalls = k.decode_stalls + decoding
        /\ counted.mem_stalls = k.mem_stalls + waiting
        /\ counted.hits = k.hits /\ counted.misses = k.misses
    BY DEF CountersType
  <1>5. /\ k.decode_stalls \in Nat /\ k.mem_stalls \in Nat
        /\ k.instructions + legal \in Nat /\ k.decode_stalls + decoding \in Nat
        /\ k.mem_stalls + waiting \in Nat /\ k.cycles + 1 \in Nat \cup {-1}
    <2>1. k.cycles = -1 \/ k.cycles \in Nat
      BY DEF CountersType
    <2>2. k.cycles + 1 \in Nat
      BY <2>1
    <2> QED BY <1>2, <2>2 DEF CountersType
  <1>9. counted \in CountersType
    <2> DEFINE n1 == k.cycles + 1
               n2 == k.instructions + legal
               n3 == k.decode_stalls + decoding
               n4 == k.mem_stalls + waiting
    <2>1. n1 \in Nat \cup {-1} /\ n2 \in Nat /\ n3 \in Nat /\ n4 \in Nat
      BY <1>5
    <2> HIDE DEF n1, n2, n3, n4
    <2>2. [k EXCEPT !.cycles = n1, !.instructions = n2, !.decode_stalls = n3, !.mem_stalls = n4]
            \in CountersType
      BY <2>1 DEF CountersType
    <2> QED BY <2>2 DEF n1, n2, n3, n4
  <1> HIDE DEF counted
  <1>6. counters'[c] = counted
    BY <1>1 DEF StatisticsType
  <1>7. counters'[c].decode_stalls + counters'[c].mem_stalls
          = k.decode_stalls + k.mem_stalls + One(cores'[c].is_data_stall \/ cores'[c].is_mem_stall)
    BY <1>2, <1>3, <1>4, <1>5, <1>6
  <1>8. /\ carried_out' \in [Cores -> [instructions : Nat, lw : Nat, sw : Nat]]
        /\ carried_out' = [carried_out EXCEPT ![c] = carried_out'[c]]
        /\ carried_out'[c].instructions = carried_out[c].instructions + all
        /\ carried_out'[c].lw = carried_out[c].lw + lw
        /\ carried_out'[c].sw = carried_out[c].sw + sw
    <2> DEFINE r == carried_out[c]
               after == [instructions |-> r.instructions + all, lw |-> r.lw + lw, sw |-> r.sw + sw]
    <2>1. r \in [instructions : Nat, lw : Nat, sw : Nat]
      BY DEF StatisticsType
    <2>2. /\ after \in [instructions : Nat, lw : Nat, sw : Nat]
          /\ after.instructions = r.instructions + all /\ after.lw = r.lw + lw /\ after.sw = r.sw + sw
      <3> HIDE DEF r
      <3> QED BY <1>2, <2>1
    <2>3. carried_out' = [carried_out EXCEPT ![c] = after]
      BY <1>1
    <2> HIDE DEF after
    <2>4. /\ carried_out' \in [Cores -> [instructions : Nat, lw : Nat, sw : Nat]]
          /\ carried_out'[c] = after
      BY <2>2, <2>3 DEF StatisticsType
    <2> QED BY <2>2, <2>3, <2>4 DEF r
  <1> QED BY <1>1, <1>4, <1>6, <1>7, <1>8, <1>9 DEF legal, all, lw, sw

\* The counters start at their types.
LEMMA CountersStart ==
  StatisticsInit =>
    /\ StatisticsType
    /\ \A c \in Cores : \A op \in Lookups :
         counters[c].hits[op] = 0 /\ counters[c].misses[op] = 0 /\ carried_out[c][op] = 0
    /\ \A op \in Lookups : data_is_missing[op] = FALSE
  <1> SUFFICES ASSUME StatisticsInit
               PROVE  /\ StatisticsType
                      /\ \A c \in Cores : \A op \in Lookups :
                           /\ counters[c].hits[op] = 0 /\ counters[c].misses[op] = 0
                           /\ carried_out[c][op] = 0
                      /\ \A op \in Lookups : data_is_missing[op] = FALSE
    OBVIOUS
  <1> DEFINE zero == [lw |-> 0, sw |-> 0]
             none == [instructions |-> 0, lw |-> 0, sw |-> 0]
             unset == [lw |-> FALSE, sw |-> FALSE]
  <1>1. /\ counters = [c \in Cores |-> CountersOf(c)]
        /\ data_is_missing = unset
        /\ carried_out = [c \in Cores |-> none]
    BY DEF StatisticsInit
  <1>2. zero \in [Lookups -> Nat] /\ \A op \in Lookups : zero[op] = 0
    BY DEF Lookups
  <1>3. none \in [instructions : Nat, lw : Nat, sw : Nat] /\ \A op \in Lookups : none[op] = 0
    BY DEF Lookups
  <1> HIDE DEF none
  <1>4. ASSUME NEW c \in Cores
        PROVE  /\ CountersOf(c) \in CountersType
               /\ CountersOf(c).hits = zero /\ CountersOf(c).misses = zero
    <2>1. CountersOf(c) = [cycles |-> IF Registered(c) THEN -1 ELSE 0, instructions |-> 0,
                           decode_stalls |-> 0, mem_stalls |-> 0, hits |-> zero, misses |-> zero]
      BY DEF CountersOf
    <2> HIDE DEF zero
    <2> QED BY <1>2, <2>1 DEF CountersType
  <1>5. /\ data_is_missing \in [Lookups -> BOOLEAN]
        /\ \A op \in Lookups : data_is_missing[op] = FALSE
    <2>1. unset.lw = FALSE /\ unset.sw = FALSE /\ unset = [op \in {"lw", "sw"} |-> unset[op]]
      OBVIOUS
    <2> HIDE DEF unset
    <2>2. \A op \in Lookups : unset[op] = FALSE
      BY <2>1, Zenon DEF Lookups
    <2>3. unset \in [Lookups -> BOOLEAN]
      BY <2>1, <2>2, Zenon DEF Lookups
    <2> QED BY <1>1, <2>2, <2>3, Zenon
  <1> HIDE DEF zero
  <1> QED BY <1>1, <1>2, <1>3, <1>4, <1>5 DEF StatisticsType

-----------------------------------------------------------------------------
(* The calls of a pipeline.                                                *)

\* A cycle of a core: what the stage MEM leaves in its place, and whether it stalls.
LEMMA CycleOfCore ==
  ASSUME SimulatorInv, NEW c \in Cores,
         CycleWithoutAccess(c) \/ CycleRefused(c) \/ CycleLoads(c) \/ CycleStores(c)
  PROVE  /\ \E latches :
              SP!Cycle(cores[c], cores'[c].is_mem_stall, latches, cores'[c])
         /\ cores'[c].is_mem_stall \in BOOLEAN
         /\ CycleWithoutAccess(c) => /\ ~S!InMem(cores[c])
                                     /\ cores'[c].is_mem_stall = cores[c].is_mem_stall
         /\ CycleRefused(c) => S!InMem(cores[c]) /\ cores'[c].is_mem_stall
         /\ CycleLoads(c) \/ CycleStores(c) => S!InMem(cores[c]) /\ ~cores'[c].is_mem_stall
         /\ ~cores[c].is_core_terminated /\ ~SP!Drained(cores[c])
         /\ \A d \in Cores \ {c} : cores'[d] = cores[d]
  <1> DEFINE k == cores[c]
  <1>1. k \in SP!CoreType /\ CoresType /\ MachineType
    BY AccessOfCore DEF SimulatorInv, WriterInv, MachineInv
  <1>2. /\ SP!InPlace(k, SP!MemStage(k)) /\ \A word \in SP!Words : SP!InPlace(k, SP!Holding(k, word))
        /\ SP!Word(k) \in SP!Words
    BY <1>1, SP!MemOutcomes, StagesConstants
  <1>3. Data = SP!Words
    BY SimulatorAssumption, SameWords
  <1>4. ASSUME NEW stalled \in BOOLEAN, NEW latches, Cycle(c, stalled, latches), SP!InPlace(k, latches)
        PROVE  /\ \E stage : SP!Cycle(k, cores'[c].is_mem_stall, stage, cores'[c])
               /\ cores'[c].is_mem_stall = stalled
               /\ ~k.is_core_terminated /\ ~SP!Drained(k)
               /\ \A d \in Cores \ {c} : cores'[d] = cores[d]
    <2>1. cores' = [cores EXCEPT ![c] = SP!Cycled(k, stalled, latches)] /\ S!Runs(k)
      BY <1>4, SameCores DEF Cycle
    <2>2. cores'[c] = SP!Cycled(k, stalled, latches)
      BY <1>1, <2>1 DEF CoresType
    <2>3. SP!Cycle(k, stalled, latches, cores'[c])
      BY <1>4, <2>2 DEF SP!Cycle
    <2>4. /\ stalled => SP!StallEffect(k, latches, cores'[c])
          /\ ~stalled => SP!MoveEffect(k, latches, cores'[c])
      BY <1>1, <2>3, SP!CycledFacts, StagesConstants
    <2>5. cores'[c].is_mem_stall = stalled
      BY <2>4 DEF SP!StallEffect, SP!MoveEffect
    <2>6. ~k.is_core_terminated /\ ~S!Drained(k)
      BY <2>1 DEF S!Runs
    <2>7. S!Drained(k) = SP!Drained(k)
      BY SameWords, SameHazards DEF S!Drained, SP!Drained
    <2>8. \A d \in Cores \ {c} : cores'[d] = cores[d]
      BY <1>1, <2>1 DEF CoresType
    <2> QED BY <2>3, <2>5, <2>6, <2>7, <2>8
  <1>5. ASSUME CycleWithoutAccess(c)
        PROVE  /\ ~S!InMem(k) /\ Cycle(c, k.is_mem_stall, SP!MemStage(k))
               /\ k.is_mem_stall \in BOOLEAN
    <2>1. k.is_mem_stall \in BOOLEAN
      BY <1>1 DEF SP!CoreType
    <2> QED BY <1>5, <2>1, SameCores DEF CycleWithoutAccess
  <1>6. ASSUME CycleRefused(c)
        PROVE  /\ S!InMem(k) /\ Cycle(c, TRUE, SP!Holding(k, SP!Word(k)))
    BY <1>6, SameCores DEF CycleRefused
  <1>7. ASSUME CycleLoads(c) \/ CycleStores(c)
        PROVE  S!InMem(k) /\ \E word \in SP!Words : Cycle(c, FALSE, SP!Holding(k, word))
    <2>1. CASE CycleStores(c)
      BY <1>2, <2>1, SameCores DEF CycleStores
    <2>2. CASE CycleLoads(c)
      <3> DEFINE a == AccessOf(k).address
                 word == dsram[c][a.block.index][a.offset]
      <3>1. S!InMem(k) /\ Cycle(c, FALSE, SP!Holding(k, word))
        BY <2>2, SameCores DEF CycleLoads
      <3>2. AccessOf(k) \in AnyAccess
        BY <1>1, <3>1, AccessOfCore
      <3>3. a.block.index \in Indexes /\ a.offset \in Offsets
        BY <3>2, AnyAccessParts
      <3>4. word \in SP!Words
        BY <1>1, <1>3, <3>3 DEF MachineType, CacheTypeOK
      <3> HIDE DEF word
      <3> QED BY <3>1, <3>4
    <2> QED BY <1>7, <2>1, <2>2
  <1>8. CASE CycleWithoutAccess(c)
    <2>1. ~CycleRefused(c) /\ ~CycleLoads(c) /\ ~CycleStores(c)
      BY <1>5, <1>6, <1>7, <1>8
    <2> QED BY <1>2, <1>4, <1>5, <1>8, <2>1
  <1>9. CASE CycleRefused(c)
    <2>1. /\ \E stage : SP!Cycle(k, cores'[c].is_mem_stall, stage, cores'[c])
          /\ cores'[c].is_mem_stall = TRUE
          /\ ~k.is_core_terminated /\ ~SP!Drained(k)
          /\ \A d \in Cores \ {c} : cores'[d] = cores[d]
      BY <1>2, <1>4, <1>6, <1>9
    <2>2. ~CycleLoads(c) /\ ~CycleStores(c)
      BY <1>2, <1>4, <1>7, <2>1
    <2>3. ~CycleWithoutAccess(c)
      BY <1>5, <1>6, <1>9
    <2> QED BY <1>6, <1>9, <2>1, <2>2, <2>3
  <1>10. CASE CycleLoads(c) \/ CycleStores(c)
    <2>1. /\ \E stage : SP!Cycle(k, cores'[c].is_mem_stall, stage, cores'[c])
          /\ cores'[c].is_mem_stall = FALSE
          /\ ~k.is_core_terminated /\ ~SP!Drained(k)
          /\ \A d \in Cores \ {c} : cores'[d] = cores[d]
      BY <1>2, <1>4, <1>7, <1>10
    <2>2. ~CycleRefused(c)
      BY <1>2, <1>4, <1>6, <2>1
    <2>3. ~CycleWithoutAccess(c)
      BY <1>5, <1>7, <1>10
    <2> QED BY <1>7, <1>10, <2>1, <2>2, <2>3
  <1> QED BY <1>8, <1>9, <1>10

-----------------------------------------------------------------------------
(* Loads and stores.                                                       *)

\* What k counts of the lookups of core c: an access that leaves MEM is a hit, unless the flag
\* says that it ends a miss; an access that misses sets the flag and stays.
LooksUp(c, k, op) ==
    \/ /\ Leaves(c, {op}) /\ ~data_is_missing'[op]
       /\ k.hits[op] = counters[c].hits[op] + One(~data_is_missing[op])
       /\ k.misses[op] = counters[c].misses[op]
    \/ /\ ~Leaves(c, {op}) /\ k.hits[op] = counters[c].hits[op]
       /\ \/ k.misses[op] = counters[c].misses[op] + 1 /\ data_is_missing'[op]
          \/ /\ k.misses[op] = counters[c].misses[op]
             /\ data_is_missing'[op] = data_is_missing[op]

\* The other counters are left to operate_the_core.
OnlyLookups(k, before) ==
    /\ k.cycles = before.cycles /\ k.instructions = before.instructions
    /\ k.decode_stalls = before.decode_stalls /\ k.mem_stalls = before.mem_stalls

\* A hit and a miss in the counters.
LEMMA LookupCounters ==
  ASSUME NEW k \in CountersType, NEW op \in Lookups
  PROVE  /\ [k EXCEPT !.hits[op] = @ + 1] \in CountersType
         /\ [k EXCEPT !.misses[op] = @ + 1] \in CountersType
         /\ OnlyLookups([k EXCEPT !.hits[op] = @ + 1], k)
         /\ OnlyLookups([k EXCEPT !.misses[op] = @ + 1], k)
         /\ [k EXCEPT !.hits[op] = @ + 1].hits = [k.hits EXCEPT ![op] = @ + 1]
         /\ [k EXCEPT !.hits[op] = @ + 1].misses = k.misses
         /\ [k EXCEPT !.misses[op] = @ + 1].hits = k.hits
         /\ [k EXCEPT !.misses[op] = @ + 1].misses = [k.misses EXCEPT ![op] = @ + 1]
  <1> DEFINE h == [k.hits EXCEPT ![op] = @ + 1]
             m == [k.misses EXCEPT ![op] = @ + 1]
  <1>1. h \in [Lookups -> Nat] /\ m \in [Lookups -> Nat]
    BY DEF CountersType
  <1>2. [k EXCEPT !.hits[op] = @ + 1] = [k EXCEPT !.hits = h]
    BY DEF CountersType
  <1>3. [k EXCEPT !.misses[op] = @ + 1] = [k EXCEPT !.misses = m]
    BY DEF CountersType
  <1> HIDE DEF h, m
  <1>4. /\ [k EXCEPT !.hits = h] \in CountersType /\ OnlyLookups([k EXCEPT !.hits = h], k)
        /\ [k EXCEPT !.hits = h].hits = h /\ [k EXCEPT !.hits = h].misses = k.misses
    BY <1>1 DEF CountersType, OnlyLookups
  <1>5. /\ [k EXCEPT !.misses = m] \in CountersType /\ OnlyLookups([k EXCEPT !.misses = m], k)
        /\ [k EXCEPT !.misses = m].misses = m /\ [k EXCEPT !.misses = m].hits = k.hits
    BY <1>1 DEF CountersType, OnlyLookups
  <1> QED BY <1>2, <1>3, <1>4, <1>5 DEF h, m

\* What the cache counts in a call of operate_the_core.
LEMMA CountOfCall ==
  ASSUME SimulatorInv, StatisticsType, NEW c \in Cores,
         CountHit(c) \/ CountMiss(c) \/ CountNoLookup(c)
  PROVE  /\ CycleWithoutAccess(c) \/ CycleRefused(c) \/ CycleLoads(c) \/ CycleStores(c)
         /\ data_is_missing' \in [Lookups -> BOOLEAN]
         /\ \E k \in CountersType :
               /\ Observe(c, k) /\ OnlyLookups(k, counters[c])
               /\ \A op \in Lookups : LooksUp(c, k, op)
  <1> DEFINE mine == Operation(c)
             before == counters[c]
             flag == data_is_missing
  <1>1. before \in CountersType /\ flag \in [Lookups -> BOOLEAN]
    BY DEF StatisticsType
  <1>2. CycleWithoutAccess(c) \/ CycleRefused(c) \/ CycleLoads(c) \/ CycleStores(c)
    BY Zenon DEF CountHit, CountMiss, CountNoLookup
  <1>3. /\ CycleWithoutAccess(c) => ~S!InMem(cores[c])
        /\ CycleRefused(c) => S!InMem(cores[c]) /\ cores'[c].is_mem_stall
        /\ CycleLoads(c) \/ CycleStores(c) => S!InMem(cores[c]) /\ ~cores'[c].is_mem_stall
    BY <1>2, CycleOfCore
  <1>4. S!InMem(cores[c]) => mine \in Lookups /\ S!Active(S!MemStage(cores[c]))
    BY DEF S!InMem, S!Accesses, Lookups, Operation
  <1>5. \A op \in Lookups :
          Leaves(c, {op}) <=> S!InMem(cores[c]) /\ ~cores'[c].is_mem_stall /\ op = mine
    BY DEF S!InMem, S!Accesses, Lookups, Operation, Leaves
  <1>6. OnlyLookups(before, before)
    BY DEF OnlyLookups
  <1>7. CASE CountHit(c)
    <2> DEFINE k == IF flag[mine] THEN before ELSE [before EXCEPT !.hits[mine] = @ + 1]
    <2>1. /\ Observe(c, k) /\ data_is_missing' = [flag EXCEPT ![mine] = FALSE]
          /\ S!InMem(cores[c]) /\ ~cores'[c].is_mem_stall
      BY <1>3, <1>7 DEF CountHit
    <2>2. mine \in Lookups
      BY <1>4, <2>1
    <2>3. /\ k \in CountersType /\ OnlyLookups(k, before) /\ k.misses = before.misses
          /\ flag[mine] => k.hits = before.hits
          /\ ~flag[mine] => k.hits = [before.hits EXCEPT ![mine] = @ + 1]
      BY <1>1, <1>6, <2>2, LookupCounters
    <2> HIDE DEF k
    <2>4. before.hits \in [Lookups -> Nat]
      BY <1>1 DEF CountersType
    <2>5. /\ data_is_missing' \in [Lookups -> BOOLEAN] /\ ~data_is_missing'[mine]
          /\ \A op \in Lookups \ {mine} : data_is_missing'[op] = flag[op]
      BY <1>1, <2>1, <2>2
    <2>6. k.hits[mine] = before.hits[mine] + One(~flag[mine])
      BY <2>2, <2>3, <2>4 DEF One
    <2>7. \A op \in Lookups \ {mine} : k.hits[op] = before.hits[op]
      BY <2>2, <2>3, <2>4
    <2>8. \A op \in Lookups : LooksUp(c, k, op)
      BY <1>5, <2>1, <2>2, <2>3, <2>5, <2>6, <2>7, Zenon DEF LooksUp
    <2> QED BY <1>2, <2>1, <2>3, <2>5, <2>8
  <1>8. CASE CountMiss(c)
    <2> DEFINE k == [before EXCEPT !.misses[mine] = @ + 1]
    <2>1. /\ Observe(c, k) /\ data_is_missing' = [flag EXCEPT ![mine] = TRUE]
          /\ S!InMem(cores[c]) /\ cores'[c].is_mem_stall
      BY <1>3, <1>8 DEF CountMiss
    <2>2. mine \in Lookups
      BY <1>4, <2>1
    <2>3. /\ k \in CountersType /\ OnlyLookups(k, before) /\ k.hits = before.hits
          /\ k.misses = [before.misses EXCEPT ![mine] = @ + 1]
      BY <1>1, <2>2, LookupCounters
    <2> HIDE DEF k
    <2>4. before.misses \in [Lookups -> Nat]
      BY <1>1 DEF CountersType
    <2>5. /\ data_is_missing' \in [Lookups -> BOOLEAN] /\ data_is_missing'[mine]
          /\ \A op \in Lookups \ {mine} : data_is_missing'[op] = flag[op]
      BY <1>1, <2>1, <2>2
    <2>6. /\ k.misses[mine] = before.misses[mine] + 1
          /\ \A op \in Lookups \ {mine} : k.misses[op] = before.misses[op]
      BY <2>2, <2>3, <2>4
    <2>7. \A op \in Lookups : LooksUp(c, k, op)
      BY <1>5, <2>1, <2>2, <2>3, <2>5, <2>6, Zenon DEF LooksUp
    <2> QED BY <1>2, <2>1, <2>3, <2>5, <2>7
  <1>9. CASE CountNoLookup(c)
    <2>1. Observe(c, before) /\ data_is_missing' = flag
      BY <1>9 DEF CountNoLookup
    <2>2. \A op \in Lookups : ~Leaves(c, {op})
      BY <1>3, <1>5, <1>9 DEF CountNoLookup
    <2>3. \A op \in Lookups : LooksUp(c, before, op)
      BY <2>1, <2>2, Zenon DEF LooksUp
    <2> QED BY <1>1, <1>2, <1>6, <2>1, <2>3
  <1> QED BY <1>7, <1>8, <1>9

HitsOf(op) == SumFunction([c \in Cores |-> counters[c].hits[op]])
MissesOf(op) == SumFunction([c \in Cores |-> counters[c].misses[op]])
DoneOf(op) == SumFunction([c \in Cores |-> carried_out[c][op]])

\* The property in these words.
LEMMA LookupsInWords ==
  LookupsCounted <=>
    \A op \in Lookups : /\ HitsOf(op) <= DoneOf(op)
                        /\ DoneOf(op) + One(data_is_missing[op]) <= HitsOf(op) + MissesOf(op)
  BY Zenon DEF LookupsCounted, HitsOf, MissesOf, DoneOf, Lookups

\* There are finitely many cores.
LEMMA FiniteCores == IsFiniteSet(Cores)
  <1>1. CORES_NUMBER - 1 \in Int /\ Cores = 0..(CORES_NUMBER - 1)
    BY ConstantFacts DEF Cores
  <1> QED BY <1>1, FS_Interval

\* The sums over all cores are numbers.
LEMMA SumsOfLookups ==
  ASSUME StatisticsType, NEW op \in Lookups
  PROVE  /\ HitsOf(op) \in Nat /\ MissesOf(op) \in Nat /\ DoneOf(op) \in Nat
         /\ [c \in Cores |-> counters[c].hits[op]] \in [Cores -> Nat]
         /\ [c \in Cores |-> counters[c].misses[op]] \in [Cores -> Nat]
         /\ [c \in Cores |-> carried_out[c][op]] \in [Cores -> Nat]
  <1>1. [c \in Cores |-> counters[c].hits[op]] \in [Cores -> Nat]
    BY DEF StatisticsType, CountersType
  <1>2. [c \in Cores |-> counters[c].misses[op]] \in [Cores -> Nat]
    BY DEF StatisticsType, CountersType
  <1>3. [c \in Cores |-> carried_out[c][op]] \in [Cores -> Nat]
    BY DEF StatisticsType, Lookups
  <1> QED BY <1>1, <1>2, <1>3, FiniteCores, SumType DEF HitsOf, MissesOf, DoneOf

\* They grow by what one core counts.
LEMMA SumsGrow ==
  ASSUME StatisticsType, StatisticsType', NEW c \in Cores, NEW op \in Lookups,
         counters' = [counters EXCEPT ![c] = counters'[c]],
         carried_out' = [carried_out EXCEPT ![c] = carried_out'[c]],
         NEW h \in Nat, NEW m \in Nat, NEW d \in Nat,
         counters'[c].hits[op] = counters[c].hits[op] + h,
         counters'[c].misses[op] = counters[c].misses[op] + m,
         carried_out'[c][op] = carried_out[c][op] + d
  PROVE  /\ HitsOf(op)' = HitsOf(op) + h /\ MissesOf(op)' = MissesOf(op) + m
         /\ DoneOf(op)' = DoneOf(op) + d
  <1> DEFINE hits == [x \in Cores |-> counters[x].hits[op]]
             misses == [x \in Cores |-> counters[x].misses[op]]
             done == [x \in Cores |-> carried_out[x][op]]
             hits2 == [x \in Cores |-> counters'[x].hits[op]]
             misses2 == [x \in Cores |-> counters'[x].misses[op]]
             done2 == [x \in Cores |-> carried_out'[x][op]]
  <1>1. hits \in [Cores -> Nat] /\ misses \in [Cores -> Nat] /\ done \in [Cores -> Nat]
    BY SumsOfLookups
  <1>2. \A x \in Cores \ {c} : counters'[x] = counters[x] /\ carried_out'[x] = carried_out[x]
    BY DEF StatisticsType
  <1>3. hits2 \in [Cores -> Nat] /\ misses2 \in [Cores -> Nat]
    BY DEF StatisticsType, CountersType
  <1>4. done2 \in [Cores -> Nat]
    BY DEF StatisticsType, Lookups
  <1>5. GrowsAt(hits, hits2, Cores, c, h)
    BY <1>1, <1>2, <1>3 DEF GrowsAt
  <1>6. GrowsAt(misses, misses2, Cores, c, m)
    BY <1>1, <1>2, <1>3 DEF GrowsAt
  <1>7. GrowsAt(done, done2, Cores, c, d)
    BY <1>1, <1>2, <1>4 DEF GrowsAt
  <1> HIDE DEF hits, misses, done, hits2, misses2, done2
  <1>8. /\ SumFunction(hits2) = SumFunction(hits) + h
        /\ SumFunction(misses2) = SumFunction(misses) + m
        /\ SumFunction(done2) = SumFunction(done) + d
    BY <1>5, <1>6, <1>7, FiniteCores, SumGrows
  <1> QED BY <1>8 DEF HitsOf, MissesOf, DoneOf, hits, misses, done, hits2, misses2, done2

StatisticsInv == SimulatorInv /\ StatisticsType

\* Every step that is no call of a running pipeline leaves the statistics and, but for the end
\* of a core, the cores.
LEMMA OtherSteps ==
  ASSUME [StatisticsNext]_statisticsVars
  PROVE  \/ \E c \in Cores : CountHit(c) \/ CountMiss(c) \/ CountNoLookup(c)
         \/ /\ UNCHANGED counters /\ UNCHANGED data_is_missing /\ UNCHANGED carried_out
            /\ UNCHANGED cores \/ \E c \in Cores : CycleAtRest(c)
  <1>1. CASE UNCHANGED statisticsVars
    BY <1>1 DEF statisticsVars, simulatorVars
  <1>2. CASE BusTurn /\ UNCHANGED <<counters, data_is_missing, carried_out>>
    BY <1>2 DEF BusTurn
  <1> QED BY <1>1, <1>2 DEF StatisticsNext

\* The counters keep their types.
LEMMA StatisticsInvStep ==
  ASSUME StatisticsInv, [StatisticsNext]_statisticsVars
  PROVE  StatisticsInv'
  <1>1. SimulatorInv'
    BY StatisticsStep, SimulatorStep DEF StatisticsInv
  <1>2. CASE UNCHANGED counters /\ UNCHANGED data_is_missing /\ UNCHANGED carried_out
    BY <1>1, <1>2 DEF StatisticsInv, StatisticsType
  <1>3. ASSUME NEW c \in Cores, CountHit(c) \/ CountMiss(c) \/ CountNoLookup(c)
        PROVE  StatisticsType'
    <2>1. PICK k \in CountersType : Observe(c, k)
      BY <1>3, CountOfCall DEF StatisticsInv
    <2>2. data_is_missing' \in [Lookups -> BOOLEAN]
      BY <1>3, CountOfCall DEF StatisticsInv
    <2>3. /\ counters' = [counters EXCEPT ![c] = counters'[c]] /\ counters'[c] \in CountersType
          /\ carried_out' \in [Cores -> [instructions : Nat, lw : Nat, sw : Nat]]
      BY <2>1, ObserveFacts DEF StatisticsInv
    <2>4. counters' \in [Cores -> CountersType]
      BY <2>3 DEF StatisticsInv, StatisticsType
    <2> QED BY <2>2, <2>3, <2>4 DEF StatisticsType
  <1> QED BY <1>1, <1>2, <1>3, OtherSteps DEF StatisticsInv

\* A step keeps the balance of hits, misses and accesses.
LEMMA LookupsStep ==
  ASSUME StatisticsInv, LookupsCounted, [StatisticsNext]_statisticsVars
  PROVE  LookupsCounted'
  <1>1. StatisticsInv'
    BY StatisticsInvStep
  <1>2. CASE UNCHANGED counters /\ UNCHANGED data_is_missing /\ UNCHANGED carried_out
    BY <1>2 DEF LookupsCounted
  <1>3. ASSUME NEW c \in Cores, CountHit(c) \/ CountMiss(c) \/ CountNoLookup(c),
               NEW op \in Lookups
        PROVE  /\ HitsOf(op)' <= DoneOf(op)'
               /\ DoneOf(op)' + One(data_is_missing'[op]) <= HitsOf(op)' + MissesOf(op)'
    <2>1. PICK k \in CountersType : Observe(c, k) /\ LooksUp(c, k, op)
      BY <1>3, CountOfCall DEF StatisticsInv
    <2>2. /\ counters' = [counters EXCEPT ![c] = counters'[c]]
          /\ carried_out' = [carried_out EXCEPT ![c] = carried_out'[c]]
          /\ counters'[c].hits[op] = k.hits[op] /\ counters'[c].misses[op] = k.misses[op]
          /\ carried_out'[c][op] = carried_out[c][op] + One(Leaves(c, {op}))
      BY <2>1, ObserveFacts DEF StatisticsInv, Lookups
    <2>3. /\ HitsOf(op) \in Nat /\ MissesOf(op) \in Nat /\ DoneOf(op) \in Nat
          /\ counters[c].hits[op] \in Nat /\ counters[c].misses[op] \in Nat
      BY SumsOfLookups DEF StatisticsInv, StatisticsType, CountersType
    <2>4. /\ HitsOf(op) <= DoneOf(op)
          /\ DoneOf(op) + One(data_is_missing[op]) <= HitsOf(op) + MissesOf(op)
      BY LookupsInWords
    <2>5. data_is_missing[op] \in BOOLEAN /\ data_is_missing'[op] \in BOOLEAN
      BY <1>1 DEF StatisticsInv, StatisticsType
    <2>6. ASSUME NEW h \in Nat, NEW m \in Nat, NEW d \in Nat,
                 k.hits[op] = counters[c].hits[op] + h,
                 k.misses[op] = counters[c].misses[op] + m, One(Leaves(c, {op})) = d
          PROVE  /\ HitsOf(op)' = HitsOf(op) + h /\ MissesOf(op)' = MissesOf(op) + m
                 /\ DoneOf(op)' = DoneOf(op) + d
      BY <1>1, <2>2, <2>6, SumsGrow DEF StatisticsInv
    <2>7. CASE /\ Leaves(c, {op}) /\ ~data_is_missing'[op]
               /\ k.hits[op] = counters[c].hits[op] + One(~data_is_missing[op])
               /\ k.misses[op] = counters[c].misses[op]
      <3>1. One(Leaves(c, {op})) = 1 /\ One(data_is_missing'[op]) = 0
        BY <2>7 DEF One
      <3>2. PICK h \in Nat : h = One(~data_is_missing[op]) /\ h + One(data_is_missing[op]) = 1
        BY <2>5 DEF One
      <3>3. /\ k.hits[op] = counters[c].hits[op] + h
            /\ k.misses[op] = counters[c].misses[op] + 0
        BY <2>3, <2>7, <3>2
      <3>4. /\ HitsOf(op)' = HitsOf(op) + h /\ MissesOf(op)' = MissesOf(op) + 0
            /\ DoneOf(op)' = DoneOf(op) + 1
        BY <2>6, <3>1, <3>3
      <3>5. One(data_is_missing[op]) \in Nat
        BY DEF One
      <3> QED BY <2>3, <2>4, <3>1, <3>2, <3>4, <3>5
    <2>8. CASE /\ ~Leaves(c, {op}) /\ k.hits[op] = counters[c].hits[op]
               /\ k.misses[op] = counters[c].misses[op] + 1 /\ data_is_missing'[op]
      <3>1. One(Leaves(c, {op})) = 0 /\ One(data_is_missing'[op]) = 1
        BY <2>8 DEF One
      <3>2. k.hits[op] = counters[c].hits[op] + 0
        BY <2>3, <2>8
      <3>3. /\ HitsOf(op)' = HitsOf(op) + 0 /\ MissesOf(op)' = MissesOf(op) + 1
            /\ DoneOf(op)' = DoneOf(op) + 0
        BY <2>6, <2>8, <3>1, <3>2
      <3>4. One(data_is_missing[op]) \in Nat
        BY DEF One
      <3> QED BY <2>3, <2>4, <3>1, <3>3, <3>4
    <2>9. CASE /\ ~Leaves(c, {op}) /\ k.hits[op] = counters[c].hits[op]
               /\ k.misses[op] = counters[c].misses[op]
               /\ data_is_missing'[op] = data_is_missing[op]
      <3>1. One(Leaves(c, {op})) = 0 /\ One(data_is_missing'[op]) = One(data_is_missing[op])
        BY <2>9 DEF One
      <3>2. k.hits[op] = counters[c].hits[op] + 0 /\ k.misses[op] = counters[c].misses[op] + 0
        BY <2>3, <2>9
      <3>3. /\ HitsOf(op)' = HitsOf(op) + 0 /\ MissesOf(op)' = MissesOf(op) + 0
            /\ DoneOf(op)' = DoneOf(op) + 0
        BY <2>6, <3>1, <3>2
      <3>4. One(data_is_missing[op]) \in Nat
        BY DEF One
      <3> QED BY <2>3, <2>4, <3>1, <3>3, <3>4
    <2> QED BY <2>1, <2>7, <2>8, <2>9 DEF LooksUp
  <1>4. CASE \E c \in Cores : CountHit(c) \/ CountMiss(c) \/ CountNoLookup(c)
    <2>1. \A op \in Lookups :
             /\ HitsOf(op)' <= DoneOf(op)'
             /\ DoneOf(op)' + One(data_is_missing'[op]) <= HitsOf(op)' + MissesOf(op)'
      BY <1>3, <1>4, Zenon
    <2> QED BY <2>1, Zenon DEF LookupsCounted, HitsOf, MissesOf, DoneOf, Lookups
  <1> QED BY <1>2, <1>4, OtherSteps

\* It holds before any access.
LEMMA StatisticsStart == StatisticsInit => StatisticsInv /\ LookupsCounted
  <1> SUFFICES ASSUME StatisticsInit PROVE StatisticsInv /\ LookupsCounted
    OBVIOUS
  <1>1. SimulatorInv /\ StatisticsType
    BY SimulatorStart, CountersStart DEF StatisticsInit
  <1>2. ASSUME NEW op \in Lookups
        PROVE  /\ HitsOf(op) = 0 /\ MissesOf(op) = 0 /\ DoneOf(op) = 0
               /\ One(data_is_missing[op]) = 0
    <2> DEFINE hits == [c \in Cores |-> counters[c].hits[op]]
               misses == [c \in Cores |-> counters[c].misses[op]]
               done == [c \in Cores |-> carried_out[c][op]]
    <2>1. \A c \in Cores : hits[c] = 0 /\ misses[c] = 0 /\ done[c] = 0
      BY CountersStart
    <2>2. hits \in [Cores -> Nat] /\ misses \in [Cores -> Nat] /\ done \in [Cores -> Nat]
      BY <1>1, SumsOfLookups
    <2> HIDE DEF hits, misses, done
    <2>3. SumFunction(hits) = 0 /\ SumFunction(misses) = 0 /\ SumFunction(done) = 0
      BY <2>1, <2>2, FiniteCores, SumType
    <2>4. ~data_is_missing[op]
      BY CountersStart
    <2> QED BY <2>3, <2>4 DEF HitsOf, MissesOf, DoneOf, One, hits, misses, done
  <1>3. LookupsCounted
    BY <1>2, LookupsInWords
  <1> QED BY <1>1, <1>3 DEF StatisticsInv

\* No load or store goes uncounted, although the caches of all cores share the flags: whatever
\* the programs, there are no more hits than accesses, and no more accesses than lookups.
THEOREM LookupsCountedHolds == StatisticsSpec => []LookupsCounted
  <1>1. StatisticsInv /\ LookupsCounted /\ [StatisticsNext]_statisticsVars
          => (StatisticsInv /\ LookupsCounted)'
    BY StatisticsInvStep, LookupsStep
  <1> QED BY <1>1, StatisticsStart, PTL DEF StatisticsSpec

-----------------------------------------------------------------------------
(* Instructions and cycles.                                                *)

\* The counters of a core and what it has carried out: the instructions on their way make the
\* difference, and the cycles are accounted for.
Balanced(k, stats, done) ==
    /\ stats.instructions = done + SP!UnderWay(k)
    /\ SP!Accounted(k, stats.cycles + 1,
                    stats.instructions + (stats.decode_stalls + stats.mem_stalls))
    /\ k.is_core_terminated => SP!Drained(k)

\* The last address of a program.
LAST == S!HALTED - 1

CoreCounted(c) ==
    /\ SP!InBounds(cores[c], LAST) /\ SP!HaltsAtOnce(cores[c].program) /\ SP!Flowing(cores[c])
    /\ Registered(c) => Balanced(cores[c], counters[c], carried_out[c].instructions)

CountInv == StatisticsInv /\ \A c \in Cores : CoreCounted(c)

\* Counters are numbers.
LEMMA CounterParts ==
  ASSUME NEW k \in CountersType
  PROVE  /\ k.cycles + 1 \in Nat /\ k.instructions \in Nat
         /\ k.decode_stalls \in Nat /\ k.mem_stalls \in Nat
         /\ k.decode_stalls + k.mem_stalls \in Nat
  <1>1. k.cycles = -1 \/ k.cycles \in Nat
    BY DEF CountersType
  <1> QED BY <1>1 DEF CountersType

\* A cycle of a core keeps the balance.
LEMMA BalancedCycle ==
  ASSUME NEW k, NEW stalled, NEW stage, NEW n, SP!Counting(k, stalled, stage, n),
         ~SP!Drained(k), ~k.is_core_terminated,
         NEW before \in CountersType, NEW after \in CountersType, NEW done \in Nat, NEW now \in Nat,
         Balanced(k, before, done),
         after.cycles = before.cycles + 1,
         after.instructions = before.instructions + SP!One(SP!Legal(k)),
         after.decode_stalls + after.mem_stalls
           = before.decode_stalls + before.mem_stalls + SP!One(SP!Stalled(n)),
         now = done + SP!One(SP!Works(k.pipe_stages[SP!MEM]) /\ ~stalled)
  PROVE  Balanced(n, after, now)
  <1> DEFINE legal == SP!One(SP!Legal(k))
             stalls == SP!One(SP!Stalled(n))
             left == SP!One(SP!Works(k.pipe_stages[SP!MEM]) /\ ~stalled)
             cycles == before.cycles + 1
             waited == before.decode_stalls + before.mem_stalls
  <1>1. legal \in Nat /\ stalls \in Nat /\ left \in Nat
    BY SameOne
  <1>2. cycles \in Nat /\ before.instructions \in Nat /\ waited \in Nat
    BY CounterParts
  <1>3. SP!UnderWay(k) \in Nat /\ SP!UnderWay(n) \in Nat
    BY SP!UnderWayType, StagesConstants
  <1>4. SP!UnderWay(n) + left = SP!UnderWay(k) + legal
    BY SP!UnderWayStep, StagesConstants
  <1>5. after.cycles + 1 = cycles + 1 /\ after.instructions = before.instructions + legal
        /\ after.decode_stalls + after.mem_stalls = waited + stalls /\ now = done + left
    OBVIOUS
  <1>6. before.instructions = done + SP!UnderWay(k)
    BY DEF Balanced
  <1>7. SP!Accounted(k, cycles, before.instructions + waited)
    BY DEF Balanced
  <1>8. ~n.is_core_terminated
    BY SP!CountingFacts, StagesConstants DEF SP!CycleEffect
  <1> HIDE DEF legal, stalls, left, cycles, waited
  <1>9. after.instructions = now + SP!UnderWay(n)
    BY <1>1, <1>2, <1>3, <1>4, <1>5, <1>6
  <1>10. before.instructions + waited \in Nat
    BY <1>2
  <1>11. SP!Accounted(n, cycles + 1, before.instructions + waited + legal + stalls)
    <2>1. CASE ~k.is_pip_halt
      BY <1>2, <1>7, <1>10, <2>1, SP!AccountedFlow, StagesConstants DEF legal, stalls
    <2>2. CASE k.is_pip_halt
      BY <1>2, <1>7, <1>10, <2>2, SP!AccountedDrain, StagesConstants DEF legal, stalls
    <2> QED BY <2>1, <2>2
  <1>12. before.instructions + waited + legal + stalls
           = after.instructions + (after.decode_stalls + after.mem_stalls)
    BY <1>1, <1>2, <1>5
  <1> QED BY <1>5, <1>8, <1>9, <1>11, <1>12 DEF Balanced

\* A core that has ended stays as it is.
LEMMA BalancedEnd ==
  ASSUME NEW k \in SP!CoreType, SP!Flowing(k), SP!Drained(k), NEW stats, NEW done,
         Balanced(k, stats, done)
  PROVE  Balanced(SP!Terminated(k), stats, done) /\ SP!Flowing(SP!Terminated(k))
  BY SP!TerminatedCountable, StagesConstants DEF Balanced

\* An instruction leaves MEM if there is one, a halt excepted, and nothing stalls.
LEMMA LeavesWorks ==
  ASSUME CoresType, NEW c \in Cores
  PROVE  Leaves(c, Instructions)
           <=> SP!Works(cores[c].pipe_stages[SP!MEM]) /\ ~cores'[c].is_mem_stall
  <1> DEFINE stage == cores[c].pipe_stages[SP!MEM]
  <1>1. stage.instruction \in SP!Instruction
    BY SP!CoreParts, SP!PhaseFacts, StagesConstants DEF CoresType
  <1>2. stage.instruction.op \in {"halt"} \cup Instructions
    BY <1>1, SameStages DEF SP!Instruction, Instructions
  <1>3. "halt" \notin Instructions
    BY DEF Instructions, S!Arithmetic, S!Branches, S!Accesses
  <1>4. S!MemStage(cores[c]) = stage /\ S!Op(cores[c], S!MEM) = stage.instruction.op
        /\ (S!Active(stage) <=> SP!Active(stage))
    BY SameStages, SameHazards DEF S!MemStage, S!Op
  <1> QED BY <1>2, <1>3, <1>4 DEF Leaves, SP!Works

\* A call of a running pipeline keeps the counts of its core.
LEMMA CountedCall ==
  ASSUME CountInv, NEW c \in Cores, CountHit(c) \/ CountMiss(c) \/ CountNoLookup(c),
         StatisticsInv'
  PROVE  CoreCounted(c)'
  <1> DEFINE k == cores[c]
             n == cores'[c]
             stalled == n.is_mem_stall
  <1>1. /\ StatisticsInv /\ SimulatorInv /\ CoresType
        /\ SP!InBounds(k, LAST) /\ SP!HaltsAtOnce(k.program) /\ SP!Flowing(k)
        /\ Registered(c) => Balanced(k, counters[c], carried_out[c].instructions)
    BY DEF CountInv, CoreCounted, StatisticsInv, SimulatorInv
  <1>2. CycleWithoutAccess(c) \/ CycleRefused(c) \/ CycleLoads(c) \/ CycleStores(c)
    BY <1>1, CountOfCall DEF StatisticsInv
  <1>3. PICK stage : SP!Cycle(k, stalled, stage, n)
    BY <1>1, <1>2, CycleOfCore
  <1>4. ~k.is_core_terminated /\ ~SP!Drained(k)
    BY <1>1, <1>2, CycleOfCore
  <1>5. stalled => SP!InMem(k)
    <2>1. k.is_mem_stall => SP!InMem(k)
      BY <1>1 DEF SP!Flowing
    <2>2. SP!InMem(k) = S!InMem(k)
      BY SameCores
    <2> QED BY <1>1, <1>2, <2>1, <2>2, CycleOfCore
  <1>6. SP!Countable(k)
    <2>1. SP!Addressed(k)
      BY <1>1, SP!BoundedAddresses, StagesConstants
    <2> QED BY <1>1, <2>1 DEF SP!Countable, SP!InBounds
  <1> HIDE DEF k, n
  <1>7. SP!Counting(k, stalled, stage, n)
    BY <1>3, <1>5, <1>6 DEF SP!Counting
  <1>8. SP!InBounds(n, LAST) /\ n.program = k.program
    BY <1>1, <1>3, SP!CycleInBounds, StagesConstants
  <1>9. SP!Flowing(n)
    BY <1>7, SP!FlowingStep, StagesConstants
  <1>10. Registered(c)' => Registered(c)
    BY <1>8 DEF Registered, k, n
  <1>11. ASSUME Registered(c) PROVE Balanced(n, counters'[c], carried_out'[c].instructions)
    <2>1. PICK observed \in CountersType :
             Observe(c, observed) /\ OnlyLookups(observed, counters[c])
      BY <1>1, CountOfCall DEF StatisticsInv
    <2>2. /\ counters'[c] \in CountersType
          /\ counters'[c].cycles = counters[c].cycles + 1
          /\ counters'[c].instructions = counters[c].instructions + One(PipelineIsLegal(cores[c]))
          /\ counters'[c].decode_stalls + counters'[c].mem_stalls
               = counters[c].decode_stalls + counters[c].mem_stalls
                   + One(cores'[c].is_data_stall \/ cores'[c].is_mem_stall)
          /\ carried_out'[c].instructions
               = carried_out[c].instructions + One(Leaves(c, Instructions))
      BY <1>1, <2>1, ObserveFacts DEF StatisticsInv, OnlyLookups
    <2>3. One(PipelineIsLegal(cores[c])) = SP!One(SP!Legal(k))
      BY SameOne DEF k
    <2>4. One(cores'[c].is_data_stall \/ cores'[c].is_mem_stall) = SP!One(SP!Stalled(n))
      BY DEF One, SP!One, SP!Stalled, n
    <2>5. One(Leaves(c, Instructions))
            = SP!One(SP!Works(k.pipe_stages[SP!MEM]) /\ ~stalled)
      BY <1>1, LeavesWorks DEF One, SP!One, k, n
    <2>6. /\ counters[c] \in CountersType /\ carried_out[c].instructions \in Nat
          /\ carried_out'[c].instructions \in Nat
      BY <1>1 DEF StatisticsInv, StatisticsType
    <2> QED BY <1>1, <1>4, <1>7, <1>11, <2>2, <2>3, <2>4, <2>5, <2>6, BalancedCycle
  <1> QED BY <1>1, <1>8, <1>9, <1>10, <1>11 DEF CoreCounted, k, n

\* Every step keeps the counts of all cores.
LEMMA CountStep ==
  ASSUME CountInv, [StatisticsNext]_statisticsVars
  PROVE  CountInv'
  <1>1. StatisticsInv' /\ StatisticsInv /\ SimulatorInv /\ CoresType
    BY StatisticsInvStep DEF CountInv, StatisticsInv, SimulatorInv
  <1>2. CASE UNCHANGED counters /\ UNCHANGED carried_out /\ UNCHANGED cores
    BY <1>1, <1>2 DEF CountInv, CoreCounted, Registered
  <1>3. ASSUME NEW c \in Cores, CycleAtRest(c), UNCHANGED counters, UNCHANGED carried_out
        PROVE  CountInv'
    <2>1. CASE UNCHANGED cores
      BY <1>2, <1>3, <2>1
    <2>2. CASE S!Halts(cores[c]) /\ cores' = [cores EXCEPT ![c] = S!Terminated(@)]
      <3>1. /\ cores'[c] = SP!Terminated(cores[c])
            /\ \A d \in Cores \ {c} : cores'[d] = cores[d]
        BY <1>1, <2>2, SameCores DEF CoresType
      <3>2. S!Drained(cores[c])
        BY <2>2 DEF S!Halts
      <3>3. SP!Drained(cores[c])
        BY <3>2, SameWords, SameHazards DEF S!Drained, SP!Drained
      <3>4. CoreCounted(c) /\ cores[c] \in SP!CoreType
        BY <1>1 DEF CountInv, CoresType
      <3>5. SP!InBounds(cores'[c], LAST) /\ cores'[c].program = cores[c].program
        BY <3>1, <3>4, SP!TerminatedInBounds, StagesConstants DEF CoreCounted
      <3>6. SP!Flowing(cores'[c])
        BY <3>1, <3>4, SP!TerminatedCountable, StagesConstants DEF CoreCounted
      <3>7. Registered(c) => Balanced(cores'[c], counters[c], carried_out[c].instructions)
        BY <3>1, <3>3, <3>4, BalancedEnd DEF CoreCounted
      <3>8. CoreCounted(c)'
        BY <1>3, <3>4, <3>5, <3>6, <3>7 DEF CoreCounted, Registered
      <3>9. \A d \in Cores \ {c} : CoreCounted(d)'
        BY <1>3, <3>1 DEF CountInv, CoreCounted, Registered
      <3> QED BY <1>1, <3>8, <3>9 DEF CountInv
    <2> QED BY <1>3, <2>1, <2>2 DEF CycleAtRest
  <1>4. ASSUME NEW c \in Cores, CountHit(c) \/ CountMiss(c) \/ CountNoLookup(c)
        PROVE  CountInv'
    <2>1. CoreCounted(c)'
      BY <1>1, <1>4, CountedCall
    <2>2. \A d \in Cores \ {c} : cores'[d] = cores[d]
      <3>1. CycleWithoutAccess(c) \/ CycleRefused(c) \/ CycleLoads(c) \/ CycleStores(c)
        BY <1>1, <1>4, CountOfCall DEF StatisticsInv
      <3> QED BY <1>1, <3>1, CycleOfCore
    <2>3. /\ counters' = [counters EXCEPT ![c] = counters'[c]]
          /\ carried_out' = [carried_out EXCEPT ![c] = carried_out'[c]]
      <3>1. PICK observed \in CountersType : Observe(c, observed)
        BY <1>1, <1>4, CountOfCall DEF StatisticsInv
      <3> QED BY <1>1, <3>1, ObserveFacts DEF StatisticsInv
    <2>4. \A d \in Cores \ {c} : counters'[d] = counters[d] /\ carried_out'[d] = carried_out[d]
      BY <1>1, <2>3 DEF StatisticsInv, StatisticsType
    <2>5. \A d \in Cores \ {c} : CoreCounted(d)'
      BY <2>2, <2>4 DEF CountInv, CoreCounted, Registered
    <2> QED BY <1>1, <2>1, <2>5 DEF CountInv
  <1> QED BY <1>2, <1>3, <1>4, OtherSteps

\* It holds when the cores start.
LEMMA CountStart ==
  ASSUME HaltingWorkloads
  PROVE  StatisticsInit => CountInv
  <1> SUFFICES ASSUME StatisticsInit PROVE CountInv
    OBVIOUS
  <1>1. StatisticsInv
    BY StatisticsStart
  <1>2. PICK w \in Workloads : cores = [c \in Cores |-> CoreOf(w[c])]
    BY DEF StatisticsInit, SimulatorInit
  <1>3. ASSUME NEW c \in Cores PROVE CoreCounted(c)
    <2>1. PICK m \in Nat : m = Cardinality(DOMAIN w[c]) /\ m <= 1024
      BY SimulatorAssumption, FS_CardinalityType DEF S!HALTED
    <2>2. w[c] \in [0..(m - 1) -> SP!Instruction]
      BY <2>1, SimulatorAssumption, SameWords
    <2>3. w[c] \in SP!AnyProgram
      BY <2>2 DEF SP!AnyProgram
    <2>4. SP!Reaches(w[c], LAST)
      BY <2>1, <2>2 DEF SP!Reaches, LAST, S!HALTED, SP!MAX_INTEGER
    <2>5. cores[c] \in {SP!Started(w[c]), SP!Terminated(SP!Started(w[c]))}
      BY <1>2, SameCores DEF CoreOf
    <2>6. /\ cores[c].program = w[c] /\ SP!InBounds(cores[c], LAST) /\ SP!Flowing(cores[c])
          /\ SP!UnderWay(cores[c]) = 0 /\ SP!Accounted(cores[c], 0, 0)
      BY <2>3, <2>4, <2>5, SP!StartedCountable, StagesConstants
    <2>7. SP!HaltsAtOnce(w[c])
      <3>1. S!HaltsAtOnce(w[c])
        BY DEF HaltingWorkloads
      <3> QED BY <3>1, SameStages DEF S!HaltsAtOnce, SP!HaltsAtOnce
    <2>8. ASSUME Registered(c)
          PROVE  Balanced(cores[c], counters[c], carried_out[c].instructions)
      <3>1. cores[c] = SP!Started(w[c])
        BY <1>2, <2>6, <2>8, SameCores DEF CoreOf, Registered
      <3>2. ~cores[c].is_core_terminated
        BY <3>1 DEF SP!Started
      <3>3. /\ counters[c].cycles = -1 /\ counters[c].instructions = 0
            /\ counters[c].decode_stalls = 0 /\ counters[c].mem_stalls = 0
            /\ carried_out[c].instructions = 0
        BY <2>8 DEF StatisticsInit, CountersOf
      <3> QED BY <2>6, <3>2, <3>3 DEF Balanced
    <2> QED BY <2>6, <2>7, <2>8 DEF CoreCounted
  <1> QED BY <1>1, <1>3 DEF CountInv

\* A core that has ended has emptied its stages: what it has counted adds up.
LEMMA CountReported ==
  ASSUME CountInv
  PROVE  InstructionsCounted /\ CyclesExplained
  <1>1. ASSUME NEW c \in Cores, Reports(c)
        PROVE  /\ counters[c].instructions - 1 = carried_out[c].instructions + 1
               /\ \E n \in 2..4 :
                    counters[c].cycles + 1 = counters[c].instructions - 1
                                               + counters[c].decode_stalls + counters[c].mem_stalls + n
    <2> DEFINE s == counters[c]
               cycles == s.cycles + 1
               waited == s.decode_stalls + s.mem_stalls
               counted == s.instructions + waited
    <2>1. /\ SP!Drained(cores[c]) /\ s.instructions = carried_out[c].instructions + SP!UnderWay(cores[c])
          /\ SP!Accounted(cores[c], cycles, counted)
      BY <1>1 DEF CountInv, CoreCounted, Balanced, Reports
    <2>2. s \in CountersType /\ carried_out[c].instructions \in Nat
      BY DEF CountInv, StatisticsInv, StatisticsType
    <2>3. cycles \in Nat /\ s.instructions \in Nat /\ s.decode_stalls \in Nat /\ s.mem_stalls \in Nat
      BY <2>2, CounterParts
    <2>4. counted \in Nat
      BY <2>3
    <2>5. cycles >= counted + 1 /\ cycles <= counted + 3 /\ SP!UnderWay(cores[c]) = 2
      BY <2>1, <2>3, <2>4, SP!AccountedDrained, StagesConstants
    <2>6. s.instructions - 1 = carried_out[c].instructions + 1
      BY <2>1, <2>2, <2>3, <2>5
    <2> DEFINE n == cycles - counted + 1
    <2>7. n \in 2..4
      <3> HIDE DEF cycles, counted
      <3> QED BY <2>3, <2>4, <2>5
    <2>8. cycles = s.instructions - 1 + s.decode_stalls + s.mem_stalls + n
      <3> HIDE DEF cycles, s
      <3> QED BY <2>3
    <2> QED BY <2>6, <2>7, <2>8
  <1> QED BY <1>1 DEF InstructionsCounted, CyclesExplained

\* Whatever the programs, if their halts wait for no register: however often stalls make a core
\* fetch an instruction again, it reports those that it has carried out and its halt.
THEOREM InstructionsCountedHolds ==
  ASSUME HaltingWorkloads
  PROVE  StatisticsSpec => []InstructionsCounted
  <1>1. CountInv /\ [StatisticsNext]_statisticsVars => CountInv'
    BY CountStep
  <1>2. CountInv => InstructionsCounted
    BY CountReported
  <1> QED BY <1>1, <1>2, CountStart, PTL DEF StatisticsSpec

\* With these programs, every cycle that a core reports is one of an instruction, a reported
\* stall, or one of the two to four in which its stages fill and empty.
THEOREM CyclesExplainedHolds ==
  ASSUME HaltingWorkloads
  PROVE  StatisticsSpec => []CyclesExplained
  <1>1. CountInv /\ [StatisticsNext]_statisticsVars => CountInv'
    BY CountStep
  <1>2. CountInv => CyclesExplained
    BY CountReported
  <1> QED BY <1>1, <1>2, CountStart, PTL DEF StatisticsSpec

=============================================================================
