-------------------------------- MODULE Bus --------------------------------
(***************************************************************************)
(* The shared bus of the quad-core simulator: the arbitration list, the    *)
(* per-core operation status and the control of operate_bus (bus.c).  What *)
(* caches and main memory put on the bus is left to QuadCore.tla, which    *)
(* implements this specification; here a word may be answered at any call. *)
(***************************************************************************)
EXTENDS Naturals, Sequences

CONSTANTS CORES_NUMBER,   \* the cores attached to the bus, 4 in the code
          BLOCK_SIZE      \* words moved by one transaction, 4 in the code

ASSUME CoresAssumption == CORES_NUMBER \in Nat \ {0} /\ CORES_NUMBER < 65535
ASSUME BlockSizeAssumption == BLOCK_SIZE \in Nat \ {0}

Cores == 0..(CORES_NUMBER - 1)
ErrOriginator == 65535   \* err_originator_on_bus: nobody's transaction

VARIABLES list,                  \* arbitration list; its Head is the next to be popped
          core_operating_state,  \* operation_status of every core
          is_bus_operating,      \* a transaction is being carried out
          current_data_on_bus,   \* the packet popped last
          offset_of_address      \* the word of the block to be answered next

vars == <<list, core_operating_state, is_bus_operating, current_data_on_bus,
          offset_of_address>>

Status == {"idle", "ready", "operate", "final"}
Fetches == {"bus_read", "bus_read_exclusive"}
Commands == Fetches \cup {"bus_flush", "idle"}
Packet == [origid : Cores \cup {ErrOriginator}, command : Commands]

NewPacket(c, cmd) == [origid |-> c, command |-> cmd]
\* The container pushed behind a write to a shared block: only its originator is set.
Delay == NewPacket(ErrOriginator, "idle")

\* Every static variable of bus.c starts as zero, so the originator is core 0.
Init ==
    /\ list = <<>>
    /\ core_operating_state = [c \in Cores |-> "idle"]
    /\ is_bus_operating = FALSE
    /\ current_data_on_bus = NewPacket(0, "idle")
    /\ offset_of_address = 0

-----------------------------------------------------------------------------
(* What a cache asks of the bus.                                           *)

\* Mutant: the end of the transaction already frees the core, before it is retired.
FreeBeforeRetired(c) == core_operating_state[c] \in {"ready", "operate"}

\* A cache is turned away while its core's last request is not retired.
IsBusBusy(c) == core_operating_state[c] # "idle"

\* Mutant: the new nodes get in front of those that wait.
PushInFront(c, packets) ==
    /\ ~IsBusBusy(c)
    /\ list' = packets \o list
    /\ core_operating_state' = [core_operating_state EXCEPT ![c] = "ready"]
    /\ UNCHANGED <<is_bus_operating, current_data_on_bus, offset_of_address>>

\* The consecutive pushes a cache makes in one call; packets with the error
\* originator leave every status alone.
PushNewBusOperations(c, packets) ==
    /\ ~IsBusBusy(c)
    /\ list' = list \o packets
    /\ core_operating_state' = [core_operating_state EXCEPT ![c] = "ready"]
    /\ UNCHANGED <<is_bus_operating, current_data_on_bus, offset_of_address>>

\* A miss on a clean line asks for the block.
RequestClean(c) ==
    \E cmd \in Fetches : PushNewBusOperations(c, <<NewPacket(c, cmd)>>)

\* Mutant: the fetch is queued in front of the eviction.
FetchThenEviction(c) ==
    \E cmd \in Fetches :
        PushNewBusOperations(c, <<NewPacket(c, cmd), NewPacket(c, "bus_flush")>>)

\* A miss on a modified line queues the eviction in front of the fetch.
RequestDirty(c) ==
    \E cmd \in Fetches :
        PushNewBusOperations(c, <<NewPacket(c, "bus_flush"), NewPacket(c, cmd)>>)

\* Mutants: the container is pushed before the request, or twice.
DelayThenUpgrade(c) ==
    PushNewBusOperations(c, <<Delay, NewPacket(c, "bus_read_exclusive")>>)

UpgradeWithTwoDelays(c) ==
    PushNewBusOperations(c, <<NewPacket(c, "bus_read_exclusive"), Delay, Delay>>)

\* A write to a shared line asks for ownership and for one idle bus cycle after it.
RequestUpgrade(c) ==
    PushNewBusOperations(c, <<NewPacket(c, "bus_read_exclusive"), Delay>>)

-----------------------------------------------------------------------------
(* One call of operate_bus.                                                *)

\* Mutant: a transaction that ended is never retired.
NeverRetired == core_operating_state

\* The status once the transaction that ended in the previous call is retired.
Retired ==
    [c \in Cores |->
        IF c = current_data_on_bus.origid /\ core_operating_state[c] = "final"
        THEN "idle" ELSE core_operating_state[c]]

OperateIdle ==
    /\ ~is_bus_operating
    /\ list = <<>>
    /\ current_data_on_bus' = [current_data_on_bus EXCEPT !.origid = ErrOriginator]
    /\ core_operating_state' = Retired
    /\ UNCHANGED <<list, is_bus_operating, offset_of_address>>

\* Mutant: the container is looked at but not taken from the list.
DelayNotPopped ==
    /\ ~is_bus_operating
    /\ list # <<>>
    /\ Head(list).origid = ErrOriginator
    /\ current_data_on_bus' = Head(list)
    /\ core_operating_state' = Retired
    /\ UNCHANGED <<list, is_bus_operating, offset_of_address>>

OperateDelay ==
    /\ ~is_bus_operating
    /\ list # <<>>
    /\ Head(list).origid = ErrOriginator
    /\ list' = Tail(list)
    /\ current_data_on_bus' = Head(list)
    /\ core_operating_state' = Retired
    /\ UNCHANGED <<is_bus_operating, offset_of_address>>

\* The oldest transaction gets the bus.
OperateGrant ==
    /\ ~is_bus_operating
    /\ list # <<>>
    /\ Head(list).origid \in Cores
    /\ list' = Tail(list)
    /\ current_data_on_bus' = Head(list)
    /\ core_operating_state' = [Retired EXCEPT ![Head(list).origid] = "operate"]
    /\ is_bus_operating' = TRUE
    /\ offset_of_address' = 0

\* Mutant: the last word is recognised one word too late.
WordPastBlock ==
    /\ is_bus_operating
    /\ offset_of_address < BLOCK_SIZE
    /\ offset_of_address' = offset_of_address + 1
    /\ UNCHANGED <<list, core_operating_state, is_bus_operating, current_data_on_bus>>

\* A word reaches the cache of the originator; it is not the last of the block.
OperateWord ==
    /\ is_bus_operating
    /\ offset_of_address < BLOCK_SIZE - 1
    /\ offset_of_address' = offset_of_address + 1
    /\ UNCHANGED <<list, core_operating_state, is_bus_operating, current_data_on_bus>>

\* The last word ends the transaction.
OperateFinish ==
    /\ is_bus_operating
    /\ offset_of_address = BLOCK_SIZE - 1
    /\ core_operating_state' =
         [core_operating_state EXCEPT ![current_data_on_bus.origid] = "final"]
    /\ is_bus_operating' = FALSE
    /\ UNCHANGED <<list, current_data_on_bus, offset_of_address>>

OperateBus == OperateIdle \/ OperateDelay \/ OperateGrant \/ OperateWord \/ OperateFinish

Next ==
    \/ \E c \in Cores : RequestClean(c) \/ RequestDirty(c) \/ RequestUpgrade(c)
    \/ OperateBus

\* main() calls operate_bus in every iteration of its loop; no core has to ask for
\* anything.
Spec == Init /\ [][Next]_vars /\ WF_vars(OperateBus)

-----------------------------------------------------------------------------
(* Properties.                                                             *)

TypeOK ==
    /\ list \in Seq(Packet)
    /\ core_operating_state \in [Cores -> Status]
    /\ is_bus_operating \in BOOLEAN
    /\ current_data_on_bus \in Packet
    /\ offset_of_address \in 0..(BLOCK_SIZE - 1)

\* The owner of the bus: the core whose transaction runs or has just ended.
Owns(c) == core_operating_state[c] \in {"operate", "final"}

\* The pending transaction of c at position i of the list.
PendingAt(c, i) == i \in 1..Len(list) /\ list[i].origid = c

\* At most one core owns the bus, and it is the originator of the packet that
\* operate_bus carries on with in its next call: words never reach the cache of a
\* core that did not ask for them.
SingleOwner ==
    /\ \A c \in Cores : Owns(c) => current_data_on_bus.origid = c
    /\ is_bus_operating <=> \E c \in Cores : core_operating_state[c] = "operate"

\* A core that is turned away because it is "ready" has a transaction in the list
\* (otherwise its pipeline would stall for ever), and a core that is free to issue a
\* new request has none left (otherwise an old request would run behind its back).
NoLostRequest ==
    \A c \in Cores :
        /\ core_operating_state[c] = "ready" => \E i \in 1..Len(list) : PendingAt(c, i)
        /\ core_operating_state[c] = "idle" => \A i \in 1..Len(list) : ~PendingAt(c, i)

\* The eviction of a dirty block and the fetch that replaces it are never separated:
\* nobody else's transaction can be granted between the two.
EvictionThenFetch ==
    /\ \A i \in 1..Len(list) :
           list[i].command = "bus_flush" =>
               /\ i + 1 \in 1..Len(list)
               /\ list[i + 1].origid = list[i].origid
               /\ list[i + 1].command \in Fetches
    /\ \A c \in Cores :
           Owns(c) /\ current_data_on_bus.command = "bus_flush" =>
               /\ list # <<>>
               /\ list[1].origid = c
               /\ list[1].command \in Fetches

\* The empty container that delays the bus by a cycle stays right behind the
\* ownership request it was pushed with, so the cycle is given to the writer.
DelayBehindUpgrade ==
    \A i \in 1..Len(list) :
        list[i].origid = ErrOriginator =>
            IF i = 1
            THEN \E c \in Cores : Owns(c) /\ current_data_on_bus.command = "bus_read_exclusive"
            ELSE /\ list[i - 1].origid \in Cores
                 /\ list[i - 1].command = "bus_read_exclusive"

\* A core never has two transactions under way: the nodes of one core in the list are
\* an eviction and the fetch behind it, and the owner of the bus has at most that fetch
\* left.
OneTransactionPerCore ==
    /\ \A i, j \in 1..Len(list) :
           i < j /\ list[i].origid \in Cores /\ list[i].origid = list[j].origid
               => j = i + 1 /\ list[i].command = "bus_flush"
    /\ \A c \in Cores : \A i \in 1..Len(list) :
           Owns(c) /\ PendingAt(c, i) => i = 1 /\ current_data_on_bus.command = "bus_flush"

\* Nodes of the list are allocated without a limit, yet a core has at most two.
ListBounded == Len(list) <= 2 * CORES_NUMBER

\* Once pushed, a request is never overtaken: for as long as its core waits, the
\* number of nodes in front of the core's first one does not grow.
Ahead(c, l) == {i \in 1..Len(l) : \A j \in 1..i : l[j].origid # c}

NoOvertaking ==
    [][\A c \in Cores :
          core_operating_state[c] = "ready" /\ core_operating_state'[c] = "ready"
             => Ahead(c, list') \subseteq Ahead(c, list)]_vars

\* Every request that waits for the bus is carried out to its last word.
EveryRequestServed ==
    \A c \in Cores : core_operating_state[c] = "ready" ~> core_operating_state[c] = "final"

=============================================================================
