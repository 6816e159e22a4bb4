------------------------------- MODULE Viterbi -------------------------------
(***************************************************************************)
(* tagger/viterbi.h: one decoder cache tags sentence after sentence.  A    *)
(* step of Consider is one turn of the inner loop; between two sentences   *)
(* the trainer may change the weights.  Nodes are numbered from 0.         *)
(***************************************************************************)
EXTENDS FeatureSequences

CONSTANTS
  decoding_order,
  Sentences,     \* sequences of [form |-> value, tags |-> sequence of values]
  WeightMaps,    \* partial functions from <<sequence, key>> to weights
  MaxCalls       \* bound: how many sentences the cache is used for

ASSUME OrderAssumption == decoding_order \in 2..window_size /\ MaxCalls \in Nat
ASSUME SentencesAssumption == Sentences \subseteq Seq([form : Nat, tags : Seq(Nat)])
ASSUME WeightsAssumption == \A map \in WeightMaps : \A fk \in DOMAIN map : map[fk] \in Int

VARIABLES
  nodes, features,                 \* the decoder cache
  weights, sentence, tags,         \* the scores, the arguments
  pc, i, tag, prev,                \* where the loops are
  nodes_prev, nodes_now, nodes_next, window, dynamic,
  calls

loop == <<i, tag, prev, nodes_prev, nodes_now, nodes_next, window, dynamic>>
vars == <<nodes, features, weights, sentence, tags, pc, loop, calls>>

Size(k) == Len(sentence[k + 1].tags)
NoWindow == [n \in 1..window_size |-> -1]
NoNode == [tag |-> 0, prev |-> 0, score |-> 0, dynamic |-> no_dynamic]

Init ==
  /\ nodes = <<>> /\ features = EmptyCache
  /\ weights \in WeightMaps
  /\ sentence = <<>> /\ tags = <<>>
  /\ pc = "idle"
  /\ i = 0 /\ tag = 0 /\ prev = -1
  /\ nodes_prev = -1 /\ nodes_now = 0 /\ nodes_next = 0
  /\ window = NoWindow /\ dynamic = no_dynamic
  /\ calls = 0
-----------------------------------------------------------------------------
\* Mutant: the states of a position are those of one tag fewer.
StatesTooFew(s) ==
  LET states[k \in 0..Len(s)] ==
        IF k = 0 THEN 1
        ELSE (IF k >= decoding_order - 1 /\ k > 1 THEN states[k - 1] \div Len(s[k - 1].tags) ELSE states[k - 1])
             * Len(s[k].tags)
  IN  states

\* How many nodes each position can need: the product of the last decoding_order - 1 sizes.
States(s) ==
  LET states[k \in 0..Len(s)] ==
        IF k = 0 THEN 1
        ELSE (IF k >= decoding_order THEN states[k - 1] \div Len(s[k - decoding_order + 1].tags)
              ELSE states[k - 1]) * Len(s[k].tags)
  IN  states
Allocated(s) ==
  LET count[k \in 0..Len(s)] == IF k = 0 THEN 0 ELSE count[k - 1] + States(s)[k] IN count[Len(s)]

\* tag is called; it returns at once for no forms, or a form with no analysis.
Tag(s) ==
  /\ pc = "idle" /\ calls < MaxCalls
  /\ calls' = calls + 1
  /\ sentence' = s
  /\ tags' = [k \in 1..Len(s) |-> 0]
  /\ IF s = <<>> \/ \E k \in DOMAIN s : s[k].tags = <<>>
     THEN UNCHANGED <<nodes, features, pc, loop>>
     ELSE /\ nodes' = nodes \o [k \in 1..(Allocated(s) - Len(nodes)) |-> NoNode]
          /\ features' = Cleared(features)
          /\ i' = 0 /\ tag' = 0 /\ prev' = -1
          /\ nodes_prev' = -1 /\ nodes_now' = 0 /\ nodes_next' = 0
          /\ window' = NoWindow /\ dynamic' = no_dynamic
          /\ pc' = "node"
  /\ UNCHANGED weights

\* The node n steps before node p, -1 before the start of the sentence.
Ancestor(p, n) ==
  LET back[k \in 0..n] == IF k = 0 THEN p
                          ELSE LET q == back[k - 1] IN IF q < 0 THEN -1 ELSE nodes[q + 1].prev
  IN  back[n]
TagBack(p, n) == nodes[Ancestor(p, n) + 1].tag

\* The tags of the path to node p of the previous position, as far as the window goes.
Chain(p) == [n \in 1..Min({window_size - 1, i}) |-> TagBack(p, n - 1)]
\* The window of tag t after node p; its older entries are left as they were.
NextWindow(t, p) == LET new == <<t>> \o Chain(p) IN new \o SubSeq(window, Len(new) + 1, window_size)

\* Mutants: tags that agree after one that does not count too; the current tag does not count.
CurrentNotCounted(new) ==
  Cardinality({n \in 2..Min({window_size, i + 1}) : \A m \in 2..n : window[m] = new[m]})
AgreeingTags(new) == Cardinality({n \in 1..Min({window_size, i + 1}) : window[n] = new[n]})

\* same_tags: how many leading tags are those of the last turn.
SameTags(new) ==
  Cardinality({n \in 1..Min({window_size, i + 1}) : \A m \in 1..n : window[m] = new[m]})

\* Mutant: scoring is skipped for every form with a single analysis.
SingleAnalysis == Size(i) = 1
\* One way to get here and one way to go on: the score cannot matter.
Unscored == nodes_prev + 1 = nodes_now /\ Size(i) = 1

Consider ==
  /\ pc = "node" /\ tag < Size(i)
  /\ window' = NextWindow(tag, prev)
  /\ dynamic' = compute_dynamic_features(sentence[i + 1].tags[tag + 1],
                  IF prev >= 0 THEN nodes[prev + 1].dynamic ELSE no_dynamic)
  /\ features' = IF Unscored THEN features
                 ELSE Rescored(features, weights, sentence, i, window', SameTags(window'), dynamic')
  /\ LET score == (IF Unscored THEN 0 ELSE features'.score) + (IF prev >= 0 THEN nodes[prev + 1].score ELSE 0)
         merge == SameTags(window') >= decoding_order - 1
         place == IF merge THEN nodes_next - 1 ELSE nodes_next
     IN  IF merge /\ score <= nodes[nodes_next].score
         THEN UNCHANGED <<nodes, nodes_next>>
         ELSE /\ nodes' = [nodes EXCEPT ![place + 1] =
                   [tag |-> tag, prev |-> prev, score |-> score, dynamic |-> dynamic']]
              /\ nodes_next' = place + 1
  /\ IF prev + 1 < nodes_now
     THEN prev' = prev + 1 /\ UNCHANGED tag
     ELSE prev' = nodes_prev /\ tag' = tag + 1
  /\ UNCHANGED <<weights, sentence, tags, pc, i, nodes_prev, nodes_now, calls>>

\* Every tag of the form has been considered.
NextForm ==
  /\ pc = "node" /\ tag = Size(i)
  /\ nodes_prev' = nodes_now /\ nodes_now' = nodes_next
  /\ i' = i + 1 /\ tag' = 0 /\ prev' = nodes_now
  /\ window' = NoWindow
  /\ pc' = IF i + 1 = Len(sentence) THEN "trace" ELSE "node"
  /\ UNCHANGED <<nodes, features, weights, sentence, tags, nodes_next, dynamic, calls>>

\* The best ending node, the first of equal ones, and its path written from the end.
Ending == nodes_prev..nodes_now - 1
Best(n) ==
  \A m \in Ending : IF m < n THEN nodes[m + 1].score < nodes[n + 1].score ELSE nodes[m + 1].score <= nodes[n + 1].score
Trace ==
  /\ pc = "trace"
  /\ \E best \in Ending : Best(best) /\ tags' = [k \in DOMAIN sentence |-> TagBack(best, Len(sentence) - k)]
  /\ pc' = "done"
  /\ UNCHANGED <<nodes, features, weights, sentence, loop, calls>>

\* The caller goes on, the trainer with other weights.
Return ==
  /\ pc = "done" /\ calls < MaxCalls
  /\ pc' = "idle"
  /\ weights' \in WeightMaps
  /\ UNCHANGED <<nodes, features, sentence, tags, loop, calls>>

Next == (\E s \in Sentences : Tag(s)) \/ Consider \/ NextForm \/ Trace \/ Return
Spec == Init /\ [][Next]_vars
-----------------------------------------------------------------------------
\* The cached score is the sum of the weights of the keys of the current window, though
\* only the sequences that reach a changed tag were recomputed.
ScoreIsExact ==
  pc = "node" /\ window[1] # -1 /\ ~Unscored
    => features.score = FullScore(weights, sentence, i, window, dynamic)

\* Two nodes of a position never share their last decoding_order - 1 tags, and so the nodes
\* written never outgrow the vector that States allocates once, before the loop.
History(p) == [n \in 0..Min({decoding_order - 2, i}) |-> TagBack(p, n)]
NodesFit ==
  /\ nodes_next <= Len(nodes)
  /\ pc = "node" => \A m, n \in nodes_now..nodes_next - 1 : m # n => History(m) # History(n)

\* The score of choosing the tags ts (0-based indices, in sentence order) for the whole sentence.
WindowAt(ts, k) == [n \in 1..window_size |-> IF n <= k THEN ts[k - n + 1] ELSE -1]
DynamicAt(ts, k) ==
  LET d[n \in 0..k] == IF n = 0 THEN no_dynamic ELSE compute_dynamic_features(sentence[n].tags[ts[n] + 1], d[n - 1])
  IN  d[k]
Total(ts) ==
  SumFunction([k \in DOMAIN sentence |-> FullScore(weights, sentence, k - 1, WindowAt(ts, k), DynamicAt(ts, k))])

\* With weights of features that see no further than the states, no choice of tags scores better.
Within == \A fk \in DOMAIN weights : weights[fk] # 0 => ranges[fk[1]] <= decoding_order
TagSequences == {ts \in [DOMAIN sentence -> UNION {0..Len(sentence[k].tags) - 1 : k \in DOMAIN sentence}] :
              \A k \in DOMAIN sentence : ts[k] < Len(sentence[k].tags)}
DecodedIsBest ==
  pc = "done" /\ Within => LET best == Total(tags) IN \A ts \in TagSequences : Total(ts) <= best
=============================================================================
