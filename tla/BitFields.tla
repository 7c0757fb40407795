----------------------------- MODULE BitFields -----------------------------
(***************************************************************************)
(* The packed fields of TSRAM words, word addresses and instructions       *)
(* (helper.c, "Dealing with bits").  A word is the set of the positions of *)
(* its ones: a mask is an interval, and & and | are intersection and       *)
(* union.  The other modules keep these words as records of their fields.  *)
(***************************************************************************)
EXTENDS Integers

Word == SUBSET (0..31)
ShiftedRight(w, n) == {i \in 0..31 : i + n \in w}
ShiftedLeft(w, n) == {i \in 0..31 : i - n \in w}

\* A value assigned to a uint16_t.
UInt16(w) == w \cap 0..15

-----------------------------------------------------------------------------
(* TSRAM words: the tag in the 12 low bits, the MESI state above it.       *)

get_tsram_tag(tsram) == UInt16(tsram \cap 0..11)
get_tsram_mesi_state(tsram) == ShiftedRight(UInt16(tsram \cap 12..13), 12)

set_tag_to_tsram(tsram, tag) == (tsram \ 0..11) \cup (tag \cap 0..11)
set_mesi_state_to_tsram(tsram, mesi_state) ==
    (tsram \ 12..13) \cup UInt16(ShiftedLeft(mesi_state \cap 0..1, 12))

-----------------------------------------------------------------------------
(* Addresses: two bits of offset, six of index, twelve of tag.             *)

get_cache_address_offset(cache) == cache \cap 0..1
get_cache_address_index(cache) == ShiftedRight(cache \cap 2..7, 2)
get_cache_address_tag(cache) == ShiftedRight(cache \cap 8..19, 8)

set_offset_to_cache_address(cache, offset) == (cache \ 0..1) \cup (offset \cap 0..1)
set_index_to_cache_address(cache, index) == (cache \ 2..7) \cup ShiftedLeft(index \cap 0..5, 2)
set_tag_to_cache_address(cache, tag) == (cache \ 8..19) \cup ShiftedLeft(tag \cap 0..11, 8)

\* The address of the block that operate_dirty_block evicts from the line of addr.
EvictedAddress(tsram, addr) ==
    set_offset_to_cache_address(
        set_tag_to_cache_address(
            set_index_to_cache_address({}, get_cache_address_index(addr)),
            get_tsram_tag(tsram)),
        {})

-----------------------------------------------------------------------------
(* Instructions.                                                           *)

get_command_immediate(cmd) == UInt16(cmd \cap 0..11)
get_command_rt(cmd) == ShiftedRight(UInt16(cmd \cap 12..15), 12)
get_command_rs(cmd) == UInt16(ShiftedRight(cmd \cap 16..19, 16))
get_command_rd(cmd) == UInt16(ShiftedRight(cmd \cap 20..23, 20))
get_command_opcode(cmd) == UInt16(ShiftedRight(cmd \cap 24..31, 24))

=============================================================================
