------------------------------ MODULE TagFilter ------------------------------
(***************************************************************************)
(* morpho/tag_filter: wildcards that choose tags.  Characters are numbers, *)
(* as in the bytes of the code; positions are those of the tag, from 0.    *)
(***************************************************************************)
EXTENDS Integers, Sequences, SequencesExt, FiniteSetsExt

AnyByte == 63        \* ?
GroupStart == 91     \* [
GroupStop == 93      \* ]
Negation == 94       \* ^

\* Mutant: the first character of a group may end it.
EmptyGroupEnd(wildcard, start) == Min({k \in start..Len(wildcard) : wildcard[k] = GroupStop} \cup {Len(wildcard) + 1})

\* Where a group ends whose characters begin at start.
GroupEnd(wildcard, start) == Min({k \in start + 1..Len(wildcard) : wildcard[k] = GroupStop} \cup {Len(wildcard) + 1})

\* The constructor: a filter for each position that is not free.
filters(wildcard) ==
  LET parsed[at \in 1..Len(wildcard) + 2, pos \in 0..Len(wildcard)] ==
        IF at > Len(wildcard) THEN <<>>
        ELSE IF wildcard[at] = AnyByte THEN parsed[at + 1, pos + 1]
        ELSE IF wildcard[at] # GroupStart
        THEN <<[pos |-> pos, negate |-> FALSE, chars |-> {wildcard[at]}]>> \o parsed[at + 1, pos + 1]
        ELSE LET negate == at < Len(wildcard) /\ wildcard[at + 1] = Negation
                 start == IF negate THEN at + 2 ELSE at + 1
                 end == GroupEnd(wildcard, start)
             IN  <<[pos |-> pos, negate |-> negate, chars |-> {wildcard[k] : k \in start..end - 1}]>>
                   \o parsed[end + 1, pos + 1]
  IN  parsed[1, 0]

\* Positions behind the end of the tag are accepted.
matches(wildcard, tag) ==
  \A filter \in Range(filters(wildcard)) :
    filter.pos < Len(tag) => (tag[filter.pos + 1] \in filter.chars) # filter.negate
-----------------------------------------------------------------------------
\* The documented meaning (morpho.h): items that stand for any byte, or for some bytes, or for
\* all but some, and how they are written; ? and [ have no meaning inside a group.
Unrestricted == [negate |-> TRUE, bytes |-> <<>>]
ByteOf(bytes) == [negate |-> FALSE, bytes |-> bytes]
NoByteOf(bytes) == [negate |-> TRUE, bytes |-> bytes]

Written(item) ==
  CASE item = Unrestricted -> <<AnyByte>>
    [] item.negate /\ item # Unrestricted -> <<GroupStart, Negation>> \o item.bytes \o <<GroupStop>>
    [] ~item.negate /\ Len(item.bytes) = 1 /\ item.bytes[1] \notin {AnyByte, GroupStart} -> item.bytes
    [] OTHER -> <<GroupStart>> \o item.bytes \o <<GroupStop>>
WrittenAs(items) == FlattenSeq([k \in DOMAIN items |-> Written(items[k])])

Meant(items, tag) ==
  \A k \in DOMAIN items \cap DOMAIN tag : (tag[k] \in Range(items[k].bytes)) # items[k].negate
=============================================================================
