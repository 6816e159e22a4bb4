------------------------------- MODULE Texts -------------------------------
(***************************************************************************)
(* What the encoders do with strings: sequences of characters, which are   *)
(* numbers as in the bytes of the code.                                    *)
(***************************************************************************)
EXTENDS Integers, FiniteSets, Sequences, SequencesExt

Before(s, t) ==
  \/ IsStrictPrefix(s, t)
  \/ \E k \in DOMAIN s \cap DOMAIN t : s[k] < t[k] /\ SubSeq(s, 1, k - 1) = SubSeq(t, 1, k - 1)

Smallest(texts) == CHOOSE s \in texts : \A t \in texts \ {s} : Before(s, t)

\* The texts of a set in order.
Sorted(texts) ==
  [k \in 1..Cardinality(texts) |-> CHOOSE t \in texts : Cardinality({u \in texts : Before(u, t)}) = k - 1]

Rest(s, n) == SubSeq(s, n + 1, Len(s))

\* The first longest part that two strings have in common: behind how many characters
\* of each it starts, and how long it is.
CommonPart(from, to) ==
  LET parts == {part \in [from : 0..Len(from), to : 0..Len(to), len : 0..Len(from)] :
                  /\ part.from + part.len <= Len(from) /\ part.to + part.len <= Len(to)
                  /\ \A k \in 1..part.len : from[part.from + k] = to[part.to + k]}
      earlier(p, q) == p.from < q.from \/ (p.from = q.from /\ p.to < q.to)
  IN  CHOOSE p \in parts : \A q \in parts \ {p} : q.len < p.len \/ (q.len = p.len /\ earlier(p, q))

\* How one string is made from another around that part.
Edit(from, to) ==
  LET part == CommonPart(from, to) IN
  [remove_start |-> part.from, remove_end |-> Len(from) - part.from - part.len,
   add_start |-> SubSeq(to, 1, part.to), add_end |-> Rest(to, part.to + part.len)]

\* Mutant: the end is added before the old one is removed.
EndAddedFirst(text, e) ==
  LET longer == Rest(text, e.remove_start) \o e.add_end IN
  e.add_start \o SubSeq(longer, 1, Len(longer) - e.remove_end)
Edited(text, e) == e.add_start \o SubSeq(text, e.remove_start + 1, Len(text) - e.remove_end) \o e.add_end

\* How a string is written as a change of the one before.
Change(prev, next) ==
  LET cpl == Len(LongestCommonPrefix({prev, next})) IN
  [remove |-> Len(prev) - cpl, add |-> Rest(next, cpl)]
Changed(prev, change) == SubSeq(prev, 1, Len(prev) - change.remove) \o change.add
=============================================================================
