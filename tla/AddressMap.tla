----------------------------- MODULE AddressMap -----------------------------
(***************************************************************************)
(* Where an address goes in the DRAM (configuration.cc): the size of a     *)
(* channel decides the number of ranks, SetAddressMapping gives each field *)
(* of the address its bits, one turn of its loop for each field from the   *)
(* low end, and AddressMapping takes an address apart.                     *)
(***************************************************************************)
EXTENDS Integers, Sequences, FiniteSets

CONSTANTS
  Configs,    \* what Config reads of the structure and the system
  Mappings,   \* values of address_mapping: sequences of fields, the high first
  Kilo        \* 1024

Fields == {"ch", "ra", "bg", "ba", "ro", "co"}

\* 1 << n
TwoTo[n \in Nat] == IF n = 0 THEN 1 ELSE 2 * TwoTo[n - 1]
IsPowerOfTwo(n) == \E k \in 0..n : n = TwoTo[k]

\* Read, and not checked: megabytes come out whole, a request is no longer
\* than a page, and no field is missing.
AddressMapAssumption ==
  /\ Kilo \in Nat \ {0}
  /\ \A c \in Configs :
       /\ c \in [{"channels", "bankgroups", "banks_per_group", "rows", "columns",
                  "device_width", "bus_width", "BL", "channel_size"} -> Nat \ {0}]
       /\ c.bus_width % c.device_width = 0 /\ c.device_width % 8 = 0
       /\ c.rows % Kilo = 0
       /\ (c.columns * (c.device_width \div 8) * (c.rows \div Kilo)) % Kilo = 0
       /\ c.BL <= c.columns
  /\ \A m \in Mappings :
       m \in [1..6 -> Fields] /\ \A f \in Fields : \E i \in 1..6 : m[i] = f

VARIABLES
  pc,                    \* "size", "fields" or "done"
  config,
  ranks, channel_size,
  fields,                \* those that have no position yet
  field_pos, pos

vars == <<pc, config, ranks, channel_size, fields, field_pos, pos>>

Init ==
  /\ pc = "size"
  /\ config \in Configs /\ channel_size = config.channel_size /\ ranks = 0
  /\ fields \in Mappings /\ field_pos = [f \in Fields |-> 0] /\ pos = 0

\* The exponent of the largest power of two that is no larger.
LogBase2(n) == CHOOSE k \in 0..n : TwoTo[k] <= n /\ n < TwoTo[k + 1]

-----------------------------------------------------------------------------
banks == config.bankgroups * config.banks_per_group
page_size == (config.columns * config.device_width) \div 8
megs_per_bank == (page_size * (config.rows \div Kilo)) \div Kilo
megs_per_rank == megs_per_bank * banks * (config.bus_width \div config.device_width)

\* A channel has at least one rank, and its size is that of whole ranks.
CalculateSize ==
  /\ pc = "size"
  /\ ranks' = IF megs_per_rank > channel_size THEN 1 ELSE channel_size \div megs_per_rank
  /\ channel_size' = ranks' * megs_per_rank
  /\ pc' = "fields"
  /\ UNCHANGED <<config, fields, field_pos, pos>>

request_size_bytes == (config.bus_width \div 8) * config.BL
shift_bits == LogBase2(request_size_bytes)

\* Mutant: the columns of one request are counted as columns of their own.
Width_AllColumns(f) ==
  CASE f = "ch" -> LogBase2(config.channels)
    [] f = "ra" -> LogBase2(ranks)
    [] f = "bg" -> LogBase2(config.bankgroups)
    [] f = "ba" -> LogBase2(config.banks_per_group)
    [] f = "ro" -> LogBase2(config.rows)
    [] f = "co" -> LogBase2(config.columns)

Width(f) ==
  CASE f = "ch" -> LogBase2(config.channels)
    [] f = "ra" -> LogBase2(ranks)
    [] f = "bg" -> LogBase2(config.bankgroups)
    [] f = "ba" -> LogBase2(config.banks_per_group)
    [] f = "ro" -> LogBase2(config.rows)
    [] f = "co" -> LogBase2(config.columns) - LogBase2(config.BL)

\* Mutant: a field is put after the bits that it takes.
PlaceField_After ==
  /\ pc = "fields" /\ fields # <<>>
  /\ LET token == fields[Len(fields)]
     IN  /\ field_pos' = [field_pos EXCEPT ![token] = pos + Width(token)]
         /\ pos' = pos + Width(token)
  /\ fields' = SubSeq(fields, 1, Len(fields) - 1)
  /\ UNCHANGED <<pc, config, ranks, channel_size>>

PlaceField ==
  /\ pc = "fields" /\ fields # <<>>
  /\ LET token == fields[Len(fields)]
     IN  /\ field_pos' = [field_pos EXCEPT ![token] = pos]
         /\ pos' = pos + Width(token)
  /\ fields' = SubSeq(fields, 1, Len(fields) - 1)
  /\ UNCHANGED <<pc, config, ranks, channel_size>>

AllPlaced ==
  /\ pc = "fields" /\ fields = <<>>
  /\ pc' = "done"
  /\ UNCHANGED <<config, ranks, channel_size, fields, field_pos, pos>>

Next == CalculateSize \/ PlaceField \/ AllPlaced

SafeSpec == Init /\ [][Next]_vars

-----------------------------------------------------------------------------
\* The bits of a field of an address; GetChannel takes those of the channel.
Field(f, hex_addr) ==
  ((hex_addr \div TwoTo[shift_bits]) \div TwoTo[field_pos[f]]) % TwoTo[Width(f)]
AddressMapping(hex_addr) == [f \in Fields |-> Field(f, hex_addr)]

Count(f) ==
  CASE f = "ch" -> config.channels
    [] f = "ra" -> ranks
    [] f = "bg" -> config.bankgroups
    [] f = "ba" -> config.banks_per_group
    [] f = "ro" -> config.rows
    [] f = "co" -> config.columns

\* Two addresses that the mapping tells apart go to different places, all in
\* the memory; the bytes of one request go to one place.  Otherwise two blocks
\* of a layer would share a column, and the controllers, which order what has
\* one address, would order neither of the two after the other.
PlacesApart ==
  pc = "done" =>
    LET requests == {a * TwoTo[shift_bits] : a \in 0..(TwoTo[pos] - 1)}
    IN  /\ Cardinality({AddressMapping(a) : a \in requests}) = TwoTo[pos]
        /\ \A a \in requests :
             /\ \A f \in Fields : Field(f, a) < Count(f)
             /\ AddressMapping(a + TwoTo[shift_bits] - 1) = AddressMapping(a)

\* The addresses that the mapping tells apart are as many bytes as the memory
\* has, when every number of the structure is a power of two; with another
\* number of ranks, or of anything, a part of the memory is never used.  With
\* neither the burst nor the bus a power of two, the bits cut off a request are
\* more than those taken off the columns, and addresses may be told apart that
\* the memory does not have.
AllUsed ==
  pc = "done" =>
    LET bytes == TwoTo[pos + shift_bits]
        memory == config.channels * channel_size * Kilo * Kilo
        burst == IsPowerOfTwo(config.BL)
        bus == IsPowerOfTwo(config.bus_width)
    IN  /\ burst \/ bus => bytes <= memory
        /\ burst /\ bus /\ (\A f \in Fields : IsPowerOfTwo(Count(f))) => bytes = memory
=============================================================================
