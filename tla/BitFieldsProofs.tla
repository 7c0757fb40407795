-------------------------- MODULE BitFieldsProofs --------------------------
(***************************************************************************)
(* That the packed words hold what the records of the other modules hold.  *)
(***************************************************************************)
EXTENDS BitFields, TLAPS

\* A shift to the right takes back a shift to the left, as long as no one is shifted out.
LEMMA ShiftBack ==
    ASSUME NEW n \in 0..31, NEW w \in SUBSET (0..31), \A i \in w : i + n \in 0..31
    PROVE  ShiftedRight(ShiftedLeft(w, n), n) = w
<1>1. ASSUME NEW i \in 0..31
      PROVE  i \in ShiftedRight(ShiftedLeft(w, n), n) <=> i + n \in 0..31 /\ (i + n) - n \in w
  BY <1>1 DEF ShiftedRight, ShiftedLeft
<1>2. ASSUME NEW i \in 0..31
      PROVE  i \in ShiftedRight(ShiftedLeft(w, n), n) <=> i \in w
  BY <1>1, <1>2
<1>3. ShiftedRight(ShiftedLeft(w, n), n) \subseteq 0..31 /\ w \subseteq 0..31
  BY DEF ShiftedRight
<1>4. QED
  BY <1>2, <1>3

\* Storing a tag in a TSRAM word changes the tag and leaves the MESI state alone: bits of the
\* tag never turn into a state (set_tag_to_tsram).
THEOREM TagStored ==
    ASSUME NEW tsram \in Word, NEW tag \in SUBSET (0..11)
    PROVE  /\ set_tag_to_tsram(tsram, tag) \in Word
           /\ get_tsram_tag(set_tag_to_tsram(tsram, tag)) = tag
           /\ get_tsram_mesi_state(set_tag_to_tsram(tsram, tag)) = get_tsram_mesi_state(tsram)
<1> DEFINE w == set_tag_to_tsram(tsram, tag)
<1>1. w \in Word
  BY DEF Word, set_tag_to_tsram
<1>2. w \cap 0..11 = tag /\ w \cap 12..13 = tsram \cap 12..13
  <2>1. \A i \in 0..11 : i \in w <=> i \in tag
    BY DEF set_tag_to_tsram
  <2>2. \A i \in 12..13 : i \in w <=> i \in tsram
    BY DEF set_tag_to_tsram
  <2>3. QED
    BY <2>1, <2>2
<1>3. get_tsram_tag(w) = tag
  BY <1>2 DEF get_tsram_tag, UInt16
<1>4. get_tsram_mesi_state(w) = get_tsram_mesi_state(tsram)
  BY <1>2 DEF get_tsram_mesi_state
<1>5. QED
  BY <1>1, <1>3, <1>4

\* Storing a MESI state changes the state and leaves the tag alone (set_mesi_state_to_tsram).
THEOREM MesiStateStored ==
    ASSUME NEW tsram \in Word, NEW mesi_state \in SUBSET (0..1)
    PROVE  /\ set_mesi_state_to_tsram(tsram, mesi_state) \in Word
           /\ get_tsram_mesi_state(set_mesi_state_to_tsram(tsram, mesi_state)) = mesi_state
           /\ get_tsram_tag(set_mesi_state_to_tsram(tsram, mesi_state)) = get_tsram_tag(tsram)
<1> DEFINE w == set_mesi_state_to_tsram(tsram, mesi_state)
           s == ShiftedLeft(mesi_state \cap 0..1, 12)
<1>1. s \subseteq 12..13
  BY DEF ShiftedLeft
<1>2. UInt16(s) = s
  BY <1>1 DEF UInt16
<1>3. w = (tsram \ 12..13) \cup s
  BY <1>2 DEF set_mesi_state_to_tsram
<1>4. w \in Word /\ w \cap 12..13 = s /\ w \cap 0..11 = tsram \cap 0..11
  <2>1. w \in Word
    <3>1. \A i \in s : i \in 0..31
      BY <1>1
    <3>2. \A i \in tsram : i \in 0..31
      BY DEF Word
    <3>3. \A i \in w : i \in 0..31
      BY <1>3, <3>1, <3>2
    <3>4. QED
      BY <3>3 DEF Word
  <2>2. \A i \in 12..13 : i \in w <=> i \in s
    BY <1>3
  <2>3. \A i \in 0..11 : i \in w <=> i \in tsram
    BY <1>1, <1>3
  <2>4. QED
    BY <1>1, <2>1, <2>2, <2>3
<1>5. get_tsram_mesi_state(w) = ShiftedRight(s, 12)
  BY <1>2, <1>4 DEF get_tsram_mesi_state
<1>6. mesi_state \cap 0..1 = mesi_state
  OBVIOUS
<1>7. ShiftedRight(s, 12) = mesi_state
  <2>1. mesi_state \in SUBSET (0..31) /\ \A i \in mesi_state : i + 12 \in 0..31
    OBVIOUS
  <2>2. QED
    BY <1>6, <2>1, ShiftBack
<1>8. get_tsram_tag(w) = get_tsram_tag(tsram)
  BY <1>4 DEF get_tsram_tag
<1>9. QED
  BY <1>4, <1>5, <1>7, <1>8

\* The word addresses of main memory, 20 bits wide, are told apart by offset, index and tag:
\* two words never share a place in the caches (get_cache_address_*).
THEOREM AddressFieldsTellApart ==
    ASSUME NEW a \in SUBSET (0..19), NEW b \in SUBSET (0..19),
           get_cache_address_offset(a) = get_cache_address_offset(b),
           get_cache_address_index(a) = get_cache_address_index(b),
           get_cache_address_tag(a) = get_cache_address_tag(b)
    PROVE  a = b
<1>1. \A i \in 0..1 : i \in a <=> i \in b
  BY DEF get_cache_address_offset
<1>2. \A i \in 2..7 : i \in a <=> i \in b
  <2>1. ASSUME NEW i \in 2..7, NEW c \in SUBSET (0..19)
        PROVE  i \in c <=> i - 2 \in get_cache_address_index(c)
    BY DEF get_cache_address_index, ShiftedRight
  <2>2. QED
    BY <2>1
<1>3. \A i \in 8..19 : i \in a <=> i \in b
  <2>1. ASSUME NEW i \in 8..19, NEW c \in SUBSET (0..19)
        PROVE  i \in c <=> i - 8 \in get_cache_address_tag(c)
    BY DEF get_cache_address_tag, ShiftedRight
  <2>2. QED
    BY <2>1
<1>4. \A i \in 0..19 : i \in a <=> i \in b
  BY <1>1, <1>2, <1>3
<1>5. QED
  BY <1>4

\* An eviction goes to the block that the line holds: its address has the tag of the TSRAM
\* word, the index of the line and offset zero (operate_dirty_block).
THEOREM EvictionGoesToTheLinesBlock ==
    ASSUME NEW tsram \in Word, NEW addr \in Word
    PROVE  LET a == EvictedAddress(tsram, addr) IN
           /\ a \in SUBSET (0..19)
           /\ get_cache_address_offset(a) = {}
           /\ get_cache_address_index(a) = get_cache_address_index(addr)
           /\ get_cache_address_tag(a) = get_tsram_tag(tsram)
<1> DEFINE i == get_cache_address_index(addr)
           t == get_tsram_tag(tsram)
           a == EvictedAddress(tsram, addr)
<1>1. i \in SUBSET (0..5)
  BY DEF get_cache_address_index, ShiftedRight
<1>2. t \in SUBSET (0..11)
  BY DEF get_tsram_tag, UInt16
<1>3. i \cap 0..5 = i /\ t \cap 0..11 = t
  BY <1>1, <1>2
<1>4. ShiftedLeft(i, 2) \subseteq 2..7 /\ ShiftedLeft(t, 8) \subseteq 8..19
  BY <1>1, <1>2 DEF ShiftedLeft
<1> HIDE DEF i, t
<1>5. a = ShiftedLeft(i, 2) \cup ShiftedLeft(t, 8)
  <2>1. set_index_to_cache_address({}, i) = ShiftedLeft(i, 2)
    BY <1>3 DEF set_index_to_cache_address
  <2>2. set_tag_to_cache_address(ShiftedLeft(i, 2), t) = ShiftedLeft(i, 2) \cup ShiftedLeft(t, 8)
    BY <1>3, <1>4 DEF set_tag_to_cache_address
  <2>3. set_offset_to_cache_address(ShiftedLeft(i, 2) \cup ShiftedLeft(t, 8), {})
          = ShiftedLeft(i, 2) \cup ShiftedLeft(t, 8)
    BY <1>4 DEF set_offset_to_cache_address
  <2>4. QED
    BY <2>1, <2>2, <2>3 DEF EvictedAddress, i, t
<1>6. a \in SUBSET (0..19) /\ a \cap 0..1 = {}
  BY <1>4, <1>5
<1>7. a \cap 2..7 = ShiftedLeft(i, 2) /\ a \cap 8..19 = ShiftedLeft(t, 8)
  BY <1>4, <1>5
<1>8. ShiftedRight(ShiftedLeft(i, 2), 2) = i
  <2>1. i \in SUBSET (0..31) /\ \A k \in i : k + 2 \in 0..31
    BY <1>1
  <2>2. QED
    BY <2>1, ShiftBack
<1>9. ShiftedRight(ShiftedLeft(t, 8), 8) = t
  <2>1. t \in SUBSET (0..31) /\ \A k \in t : k + 8 \in 0..31
    BY <1>2
  <2>2. QED
    BY <2>1, ShiftBack
<1>10. get_cache_address_offset(a) = {}
  BY <1>6 DEF get_cache_address_offset
<1>11. get_cache_address_index(a) = i /\ get_cache_address_tag(a) = t
  BY <1>7, <1>8, <1>9 DEF get_cache_address_index, get_cache_address_tag
<1>12. QED
  BY <1>6, <1>10, <1>11 DEF i, t

\* An instruction is its five fields: no bit of it is lost, or read as part of two fields
\* (get_command_*).
THEOREM CommandFieldsTellApart ==
    ASSUME NEW x \in Word, NEW y \in Word,
           get_command_immediate(x) = get_command_immediate(y),
           get_command_rt(x) = get_command_rt(y),
           get_command_rs(x) = get_command_rs(y),
           get_command_rd(x) = get_command_rd(y),
           get_command_opcode(x) = get_command_opcode(y)
    PROVE  x = y
<1>1. \A i \in 0..11 : i \in x <=> i \in y
  BY DEF get_command_immediate, UInt16
<1>2. \A i \in 12..15 : i \in x <=> i \in y
  <2>1. ASSUME NEW i \in 12..15, NEW c \in Word
        PROVE  i \in c <=> i - 12 \in get_command_rt(c)
    BY DEF get_command_rt, ShiftedRight, UInt16
  <2>2. QED
    BY <2>1
<1>3. \A i \in 16..19 : i \in x <=> i \in y
  <2>1. ASSUME NEW i \in 16..19, NEW c \in Word
        PROVE  i \in c <=> i - 16 \in get_command_rs(c)
    BY DEF get_command_rs, ShiftedRight, UInt16
  <2>2. QED
    BY <2>1
<1>4. \A i \in 20..23 : i \in x <=> i \in y
  <2>1. ASSUME NEW i \in 20..23, NEW c \in Word
        PROVE  i \in c <=> i - 20 \in get_command_rd(c)
    BY DEF get_command_rd, ShiftedRight, UInt16
  <2>2. QED
    BY <2>1
<1>5. \A i \in 24..31 : i \in x <=> i \in y
  <2>1. ASSUME NEW i \in 24..31, NEW c \in Word
        PROVE  i \in c <=> i - 24 \in get_command_opcode(c)
    BY DEF get_command_opcode, ShiftedRight, UInt16
  <2>2. QED
    BY <2>1
<1>6. \A i \in 0..31 : i \in x <=> i \in y
  BY <1>1, <1>2, <1>3, <1>4, <1>5
<1>7. QED
  BY <1>6 DEF Word

=============================================================================
