---------------------------- MODULE MCCoherence ----------------------------
(***************************************************************************)
(* Coherence.tla for TLC.  The constants below are the addresses that the  *)
(* programs of the cores use.                                              *)
(***************************************************************************)
EXTENDS Coherence

Word(t, i, o) == [block |-> [tag |-> t, index |-> i], offset |-> o]

AllAddresses == [c \in Cores |-> Addresses]

\* Core 0 alternates between the blocks of one cache line; the others share the first.
OneEvictor == [c \in Cores |->
    IF c = 0 THEN {Word(t, 0, 0) : t \in Tags} ELSE {Word(0, 0, 0)}]

\* Every core but the last has a block of its own; the last block of the line is
\* nobody's and all cores load it.
OwnTag == [c \in Cores |-> IF c = CORES_NUMBER - 1 THEN {} ELSE {Word(c, 0, 0)}]
OwnOrCommonTag == [c \in Cores |-> OwnTag[c] \cup {Word(CORES_NUMBER - 1, 0, 0)}]

\* Behaviours are followed up to the first race.
NoRaceYet == raced = {}

=============================================================================
