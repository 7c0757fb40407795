----------------------------- MODULE MCQuadCore -----------------------------
(***************************************************************************)
(* QuadCore.tla for TLC.  The constants below are the addresses that the   *)
(* programs of the cores use.                                              *)
(***************************************************************************)
EXTENDS QuadCore

Word(t, i, o) == [block |-> [tag |-> t, index |-> i], offset |-> o]

NoAddresses == [c \in Cores |-> {}]

\* Core 0 alternates between the blocks of one cache line; the others share the first.
OneEvictor == [c \in Cores |->
    IF c = 0 THEN {Word(t, 0, 0) : t \in Tags} ELSE {Word(0, 0, 0)}]

\* Cores 0 and 1 alternate, and share both blocks.
TwoEvictors == [c \in Cores |->
    IF c < 2 THEN {Word(t, 0, 0) : t \in Tags} ELSE {Word(0, 0, 0)}]

\* Every core stores to the same word.
OneWord == [c \in Cores |-> {Word(0, 0, 0)}]

\* Every core has a block of its own, all of them in one cache line.
OwnTag == [c \in Cores |-> {Word(c, 0, 0)}]

\* The word behind the operation_status array is one that core 0 writes.
SharedCell == {Word(0, 0, 0)}

=============================================================================
