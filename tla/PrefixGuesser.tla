---------------------------- MODULE PrefixGuesser ---------------------------
(***************************************************************************)
(* morpho/morpho_prefix_guesser.h: analyze of one form.  An initial prefix *)
(* is kept, a chain of middle prefixes is cut out behind it, and what      *)
(* remains is looked up in the dictionary; every prefix carries the tag    *)
(* filters it allows.  Masks are sets of filters.                          *)
(***************************************************************************)
EXTENDS TagFilter, FiniteSets

CONSTANTS Forms,                   \* sequences of characters
          Filters,                 \* the tag filters of the guesser, by their wildcards
          InitialMaps, MiddleMaps, \* what the encoder read: sequences of characters -> filters
          Dictionary(_)            \* word -> sequence of [lemma, tag]

\* 1 << tag_filters.size() is computed in an int.
ASSUME FiltersAssumption == IsFiniteSet(Filters) /\ Cardinality(Filters) < 32
ASSUME MapsAssumption ==
  /\ \A f \in Forms : f \in Seq(Int) /\ f # <<>>
  /\ \A m \in InitialMaps \cup MiddleMaps : \A k \in DOMAIN m : k # <<>> /\ m[k] \in SUBSET Filters

tagged_lemma == [lemma : Seq(Int), tag : Seq(Int)]

\* What it says of words no longer than a form and of the same characters are texts.
ASSUME DictionaryAssumption ==
  \A shape \in {<<Range(f), Len(f)>> : f \in Forms} : \A n \in 1..shape[2] :
    \A word \in [1..n -> shape[1]] : Dictionary(word) \in Seq(tagged_lemma)

VARIABLES
  prefixes_initial, prefixes_middle, form,
  initial, middle,   \* the two loops
  middle_masks,      \* the vector; position n of the code is n + 1 here
  form_tmp,          \* <<>> while it is empty
  asked,             \* <<initial, middle, word>> of each dictionary lookup, in order
  lemmas,
  pc

input == <<prefixes_initial, prefixes_middle, form>>
vars == <<input, initial, middle, middle_masks, form_tmp, asked, lemmas, pc>>

Init ==
  /\ prefixes_initial \in InitialMaps /\ prefixes_middle \in MiddleMaps
  /\ form \in Forms
  /\ initial = 0 /\ middle = 0
  /\ middle_masks = <<>> /\ form_tmp = <<>> /\ asked = <<>> /\ lemmas = <<>>
  /\ pc = "initial"

\* The characters from position a up to b, as string_piece(form.str + a, b - a).
Part(a, b) == SubSeq(form, a + 1, b)

\* Mutant: the maps hold the keys only.
FoundExactly(map, key) == key \in DOMAIN map

\* The encoder adds the prefixes of the keys, with no filters.
Found(map, key) == \E k \in DOMAIN map : IsPrefix(key, k)
Mask(map, key) == IF key \in DOMAIN map THEN map[key] ELSE {}
Grown(masks, n) == [k \in 1..n |-> IF k <= Len(masks) THEN masks[k] ELSE {}]

\* What the initial prefix of n characters allows.
Base(n) == IF n = 0 THEN Filters ELSE Mask(prefixes_initial, Part(0, n))

\* Mutant: the vector is not cut, and keeps what the last initial prefix left.
StartUncut(n) ==
  [Grown(middle_masks, IF n + 1 > Len(middle_masks) THEN n + 1 ELSE Len(middle_masks))
     EXCEPT ![n + 1] = Base(n)]

Start(n) == Append(Grown(middle_masks, n), Base(n))

\* One turn of the outer loop up to the inner one.
MatchInitial ==
  /\ pc = "initial" /\ initial < Len(form)
  /\ initial = 0 \/ Found(prefixes_initial, Part(0, initial))
  /\ IF initial > 0 /\ Mask(prefixes_initial, Part(0, initial)) = {}
     THEN initial' = initial + 1 /\ UNCHANGED <<middle, middle_masks, pc>>
     ELSE /\ middle_masks' = Start(initial)
          /\ middle' = initial
          /\ pc' = "middle"
          /\ UNCHANGED initial
  /\ UNCHANGED <<input, form_tmp, asked, lemmas>>

\* The outer loop ends, or breaks at an unknown initial prefix.
Return ==
  /\ pc = "initial"
  /\ initial = Len(form) \/ (initial > 0 /\ ~Found(prefixes_initial, Part(0, initial)))
  /\ pc' = "done"
  /\ UNCHANGED <<input, initial, middle, middle_masks, form_tmp, asked, lemmas>>

\* The ends of the middle prefixes that start at middle: the loop breaks at the first one unknown.
Reached == {n \in middle + 1..Len(form) - 1 : \A m \in middle + 1..n : Found(prefixes_middle, Part(middle, m))}
Marked == {n \in Reached : Mask(prefixes_middle, Part(middle, n)) # {}}

\* Mutant: the masks of the chain are not intersected.
ExtendedByUnion ==
  LET last == Max({Len(middle_masks)} \cup {n + 1 : n \in Marked}) IN
  [k \in 1..last |->
     Grown(middle_masks, last)[k]
       \cup (IF k - 1 \in Marked THEN Mask(prefixes_middle, Part(middle, k - 1)) ELSE {})]

Extended ==
  LET last == Max({Len(middle_masks)} \cup {n + 1 : n \in Marked}) IN
  [k \in 1..last |->
     Grown(middle_masks, last)[k]
       \cup (IF k - 1 \in Marked THEN middle_masks[middle + 1] \cap Mask(prefixes_middle, Part(middle, k - 1)) ELSE {})]

\* form_tmp is assigned once, and then written over before each lookup.
Moved ==
  LET tmp == IF form_tmp = <<>> THEN form ELSE form_tmp IN
  [k \in DOMAIN tmp |-> IF k \in middle - initial + 1..middle THEN form[k - (middle - initial)] ELSE tmp[k]]

\* The analyses that some filter of the mask matches, with the middle prefix put back.
Guessed(word, mask) ==
  LET found == Dictionary(word)
      guess(a) == IF \E f \in mask : matches(f, a.tag) THEN <<[a EXCEPT !.lemma = Part(initial, middle) \o @]>> ELSE <<>>
  IN  FlattenSeq([k \in DOMAIN found |-> guess(found[k])])

\* One turn of the inner loop.
MatchMiddle ==
  /\ pc = "middle" /\ middle < Len(middle_masks)
  /\ IF middle_masks[middle + 1] = {}
     THEN UNCHANGED <<middle_masks, form_tmp, asked, lemmas>>
     ELSE /\ middle_masks' = Extended
          /\ IF middle > initial
             THEN /\ form_tmp' = IF initial > 0 THEN Moved ELSE form_tmp
                  /\ LET text == IF initial > 0 THEN Moved ELSE form
                         word == SubSeq(text, middle - initial + 1, Len(form)) IN
                     /\ asked' = Append(asked, <<initial, middle, word>>)
                     /\ lemmas' = lemmas \o Guessed(word, middle_masks[middle + 1])
             ELSE UNCHANGED <<form_tmp, asked, lemmas>>
  /\ middle' = middle + 1
  /\ UNCHANGED <<input, initial, pc>>

\* The inner loop ends.
NextInitial ==
  /\ pc = "middle" /\ middle = Len(middle_masks)
  /\ initial' = initial + 1
  /\ pc' = "initial"
  /\ UNCHANGED <<input, middle, middle_masks, form_tmp, asked, lemmas>>

Next == MatchInitial \/ MatchMiddle \/ NextInitial \/ Return
Spec == Init /\ [][Next]_vars
-----------------------------------------------------------------------------
\* What the masks stand for: the filters that the initial prefix up to a allows and
\* that some way to cut the characters from a to b into middle prefixes allows throughout.
Neighbours(P, p, q) == p \in P /\ q \in P /\ p < q /\ ~ \E r \in P : p < r /\ r < q
Cuts(a, b) == {P \cup {a, b} : P \in SUBSET (a + 1..b - 1)}
Allowed(a, b) ==
  {f \in Base(a) :
     \E P \in Cuts(a, b) : \A p, q \in P : Neighbours(P, p, q) => f \in Mask(prefixes_middle, Part(p, q))}

\* All ways to split a form are asked for, each once: also after an initial prefix that
\* is only the beginning of a longer one.
EverySplitAsked ==
  pc = "done" =>
    LET splits == {s \in (0..Len(form) - 1) \X (1..Len(form) - 1) : s[1] < s[2] /\ Allowed(s[1], s[2]) # {}} IN
    /\ {<<q[1], q[2]>> : q \in Range(asked)} = splits
    /\ Len(asked) = Cardinality(splits)

\* What is guessed is what the dictionary says of the words asked for, with the cut
\* prefix put back, as far as one filter is allowed by all the prefixes and matches the tag.
GuessesAllowed ==
  pc = "done" =>
    Range(lemmas) = UNION {{[a EXCEPT !.lemma = Part(q[1], q[2]) \o @] : a \in
                              {a \in Range(Dictionary(q[3])) : \E f \in Allowed(q[1], q[2]) : matches(f, a.tag)}} :
                            q \in Range(asked)}

\* The word looked up is the initial prefix followed by the rest of the form.
AskedIsWordForm == \A n \in DOMAIN asked : LET q == asked[n] IN q[3] = Part(0, q[1]) \o Part(q[2], Len(form))
=============================================================================
