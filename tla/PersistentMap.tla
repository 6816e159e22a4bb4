--------------------------- MODULE PersistentMap ---------------------------
(***************************************************************************)
(* morpho/persistent_unordered_map.h: a hash map with one table for each   *)
(* length of keys.  It is filled in two passes over the same entries: the  *)
(* first sums their sizes in the buckets, the second writes them one after *)
(* another, and the slots of a bucket go from size to start to end and     *)
(* back to start.  Keys are sequences of characters 0..Alphabet-1; a value *)
(* is kept whole, at the offset where its bytes begin.                     *)
(***************************************************************************)
EXTENDS Integers, Sequences, SequencesExt, FiniteSets, FiniteSetsExt, Functions, TLC

CONSTANTS
  Alphabet,      \* 256 in the code
  Hash(_, _)     \* Hash(key, size): any function of the key into 0..size-1

ASSUME AlphabetAssumption == Alphabet \in Nat \ {0}

\* fnv_hash: size buckets and one slot behind them.
Table(size) == [hash |-> [k \in 0..size |-> 0], data |-> <<>>]
Power(elements) == CHOOSE p \in {2^k : k \in 0..16} : p >= elements /\ (p = 1 \/ p \div 2 < elements)

EmptyMap == <<>>

\* resize: one more length; the first three lengths need no hashing.
Resized(map, elements) ==
  Append(map, Table(CASE Len(map) = 0 -> 1 [] Len(map) = 1 -> Alphabet [] Len(map) = 2 -> Alphabet^2
                      [] OTHER -> Power(elements)))

max_length(map) == Len(map)
TableOf(map, len) == map[len + 1]
Buckets(table) == Cardinality(DOMAIN table.hash) - 1

index(table, key) ==
  CASE Len(key) = 0 -> 0 [] Len(key) = 1 -> key[1] [] Len(key) = 2 -> key[1] + Alphabet * key[2]
    [] OTHER -> Hash(key, Buckets(table))

\* add: the sizes of a bucket are summed.
add(map, key, size) ==
  IF Len(key) >= Len(map) THEN map
  ELSE [map EXCEPT ![Len(key) + 1].hash[index(TableOf(map, Len(key)), key)] = @ + Len(key) + size]

\* Mutant: every slot is moved behind its bucket.
EndsOfBuckets(map) ==
  [l \in DOMAIN map |->
     [map[l] EXCEPT !.hash = [k \in DOMAIN @ |-> SumFunctionOnSet(@, 0..k)]]]

\* done_adding: every slot becomes the start of its bucket.
done_adding(map) ==
  [l \in DOMAIN map |->
     [map[l] EXCEPT !.hash = [k \in DOMAIN @ |-> SumFunctionOnSet(@, 0..k - 1)]]]

\* fill: the entry goes to the slot, which moves behind it.
FillOffset(map, key) == LET table == TableOf(map, Len(key)) IN table.hash[index(table, key)]

\* Mutant: the slot moves behind the value only.
FillKeyForgotten(map, key, size, value) ==
  IF Len(key) >= Len(map) THEN map
  ELSE [map EXCEPT ![Len(key) + 1] =
          LET k == index(@, key) IN
          [hash |-> [@.hash EXCEPT ![k] = @ + size],
           data |-> (@.hash[k] :> [key |-> key, value |-> value, size |-> Len(key) + size]) @@ @.data]]

fill(map, key, size, value) ==
  IF Len(key) >= Len(map) THEN map
  ELSE [map EXCEPT ![Len(key) + 1] =
          LET k == index(@, key) IN
          [hash |-> [@.hash EXCEPT ![k] = @ + Len(key) + size],
           data |-> (@.hash[k] :> [key |-> key, value |-> value, size |-> Len(key) + size]) @@ @.data]]

\* Mutant: the slots stay at the ends of their buckets.
UnshiftedFilling(map) == map

\* done_filling: the end of a bucket is the start of the next one.
done_filling(map) ==
  [l \in DOMAIN map |-> [map[l] EXCEPT !.hash = [k \in DOMAIN @ |-> IF k > 0 THEN @[k - 1] ELSE 0]]]

\* The entries of the bucket of a key, by their offsets in the table.
bucket(map, key) ==
  IF Len(key) >= Len(map) THEN {}
  ELSE LET table == TableOf(map, Len(key))
           k == index(table, key)
       IN  {o \in DOMAIN table.data : table.hash[k] <= o /\ o < table.hash[k + 1]}

\* iter: the entries of the bucket of a key; the caller compares the keys.
iter(map, key) == {TableOf(map, Len(key)).data[o] : o \in bucket(map, key)}

\* iter_all
iter_all(map) == UNION {{table.data[o] : o \in DOMAIN table.data} : table \in Range(map)}

\* at: where the entry of a key is, as a set of at most one offset; keys of up to two
\* characters are not compared.
offset(map, key) ==
  {o \in bucket(map, key) : Len(key) <= 2 \/ TableOf(map, Len(key)).data[o].key = key}
at(map, key) == {TableOf(map, Len(key)).data[o] : o \in offset(map, key)}

\* construct: entries is a function of keys to values, sizes gives those of the encoded values.
construct(entries, load_factor, sizes) ==
  LET keys == SetToSeq(DOMAIN entries)
      lengths == {Len(key) : key \in DOMAIN entries}
      count(l) == Cardinality({key \in DOMAIN entries : Len(key) = l - 1})
      sized == FoldLeft(LAMBDA map, l : Resized(map, load_factor * count(l)),
                        EmptyMap, [l \in 1..IF lengths = {} THEN 0 ELSE Max(lengths) + 1 |-> l])
      added == FoldLeft(LAMBDA map, key : add(map, key, sizes[key]), sized, keys)
  IN  done_filling(FoldLeft(LAMBDA map, key : fill(map, key, sizes[key], entries[key]), done_adding(added), keys))

\* The entries of a filled table follow one another without gaps or overlaps, each
\* in its bucket.
Tiled(table) ==
  LET end(o) == o + table.data[o].size
      starts == DOMAIN table.data
      buckets == 0..Buckets(table) - 1
  IN  /\ table.hash[0] = 0
      /\ \A o \in starts : \E k \in buckets :
           k = index(table, table.data[o].key) /\ table.hash[k] <= o /\ end(o) <= table.hash[k + 1]
      /\ {end(o) : o \in starts} \cup {0} = starts \cup {table.hash[Buckets(table)]}
=============================================================================
