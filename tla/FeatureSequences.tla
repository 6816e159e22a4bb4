-------------------------- MODULE FeatureSequences --------------------------
(***************************************************************************)
(* tagger/feature_sequences.h and feature_sequences_encoder.h: the score   *)
(* of a position is the sum of the weights of its feature sequences, and a *)
(* cache recomputes only those whose tags may have changed since the last  *)
(* call.  One elementary feature of each type stands for all of that type; *)
(* elementary_features.h makes a value of it, which may be unknown.        *)
(***************************************************************************)
EXTENDS Integers, Sequences, FiniteSetsExt, SequencesExt

CONSTANTS
  window_size,
  Templates,    \* the lines of the template file, each a sequence of elements
  Verbs         \* the tag values that a dynamic feature remembers

elementary_feature_unknown == 0
elementary_feature_empty == 1
PER_FORM == "PER_FORM"
PER_TAG == "PER_TAG"
DYNAMIC == "DYNAMIC"

ASSUME WindowAssumption == window_size \in Nat \ {0}
\* parse refuses a template that looks outside the window or forward at a tag.
ASSUME TemplatesAssumption ==
  /\ Templates \in Seq(Seq([type : {PER_FORM, PER_TAG, DYNAMIC}, sequence_index : Int]))
  /\ \A line \in ToSet(Templates) :
       /\ line # <<>>
       /\ \A e \in ToSet(line) :
            \/ e.type = PER_FORM
            \/ e.type = PER_TAG /\ e.sequence_index \in (1 - window_size)..0
            \/ e.type = DYNAMIC /\ e.sequence_index = 0
-----------------------------------------------------------------------------
(* parse *)

\* How many tags of the window an element depends on: a dynamic one on more than all.
Reach(e) ==
  CASE e.type = DYNAMIC -> window_size + 1
    [] e.type = PER_TAG -> 1 - e.sequence_index
    [] OTHER -> 1
dependant_range(line) == Max({1} \cup {Reach(line[k]) : k \in DOMAIN line})

\* stable_sort by decreasing dependant_range: a line goes behind the last one that sees as far.
Inserted(sorted, line) ==
  LET n == Max({0} \cup {f \in DOMAIN sorted : dependant_range(sorted[f]) >= dependant_range(line)})
  IN  SubSeq(sorted, 1, n) \o <<line>> \o SubSeq(sorted, n + 1, Len(sorted))
sequences ==
  LET sorted[n \in 0..Len(Templates)] == IF n = 0 THEN <<>> ELSE Inserted(sorted[n - 1], Templates[n])
  IN  sorted[Len(Templates)]
ranges == [f \in DOMAIN sequences |-> dependant_range(sequences[f])]
-----------------------------------------------------------------------------
(* score: positions and tags count from 0, window[1] is the current tag; a   *)
(* sentence is a sequence of records form, tags of elementary values.        *)

value(e, s, i, window, dynamic) ==
  LET at == i + e.sequence_index IN
  CASE e.type = PER_FORM -> IF at < 0 \/ at >= Len(s) THEN elementary_feature_empty ELSE s[at + 1].form
    [] e.type = PER_TAG -> IF at < 0 THEN elementary_feature_empty
                           ELSE s[at + 1].tags[window[1 - e.sequence_index] + 1]
    [] OTHER -> dynamic.before

\* A sequence with an unknown element has the empty key, which has no weight.
key(f, s, i, window, dynamic) ==
  LET values == [k \in DOMAIN sequences[f] |-> value(sequences[f][k], s, i, window, dynamic)]
  IN  IF elementary_feature_unknown \in ToSet(values) THEN <<>> ELSE values

\* Map::score: a key that is not in the map has weight 0.
Weight(weights, f, k) == IF <<f, k>> \in DOMAIN weights THEN weights[<<f, k>>] ELSE 0

EmptyCache == [score |-> 0, elements |-> [f \in DOMAIN sequences |-> [key |-> <<>>, score |-> 0]]]

\* Mutant: initialize_sentence leaves the cached scores of the last sentence.
Uncleared(cache) == cache
\* initialize_sentence: "Clear score cache, because scores may have been modified"
Cleared(cache) == EmptyCache

\* How many sequences are recomputed before the loop breaks.
Stale(unchanged) == Max({0} \cup {f \in DOMAIN sequences : \A g \in 1..f : unchanged < ranges[g]})

\* What the cache holds after score; its score is the result.
Rescored(cache, weights, s, i, window, unchanged, dynamic) ==
  LET old == cache.elements
      n == Stale(unchanged)
      updated(f, k) == IF k = old[f].key THEN old[f]
                       ELSE [key |-> k, score |-> IF k = <<>> THEN 0 ELSE Weight(weights, f, k)]
      new == [f \in DOMAIN sequences |-> IF f <= n THEN updated(f, key(f, s, i, window, dynamic)) ELSE old[f]]
  IN  [score |-> cache.score + SumFunction([f \in DOMAIN sequences |-> new[f].score - old[f].score]), elements |-> new]

\* compute_dynamic_features: the last verb before this position, and up to it.
compute_dynamic_features(tagvalue, prev_dynamic) ==
  [before |-> prev_dynamic.upto, upto |-> IF tagvalue \in Verbs THEN tagvalue ELSE prev_dynamic.upto]
no_dynamic == [before |-> elementary_feature_empty, upto |-> elementary_feature_empty]

\* Reference: the sum of the weights of all keys, computed from nothing.
FullScore(weights, s, i, window, dynamic) ==
  SumFunction([f \in DOMAIN sequences |->
    LET k == key(f, s, i, window, dynamic) IN IF k = <<>> THEN 0 ELSE Weight(weights, f, k)])
=============================================================================
