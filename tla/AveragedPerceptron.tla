------------------------- MODULE AveragedPerceptron -------------------------
(***************************************************************************)
(* tagger/perceptron_tagger_trainer.h: the weights of the feature          *)
(* sequences are trained for some iterations and averaged.  gamma sums the *)
(* values alpha has after each sentence, but is brought up to date only    *)
(* when alpha is to change.  The decoder is abstracted to the keys it      *)
(* finds, the evaluation on held-out data to the number of its successes.  *)
(***************************************************************************)
EXTENDS Integers, Sequences, FiniteSets

CONSTANTS
  Keys,              \* pairs of a feature sequence and a key
  GoldKeys,          \* those of the gold tags of the training data
  NoKey,             \* a sequence with an unknown value
  sentences,         \* train.size()
  iterations,
  early_stopping,
  heldout,           \* how many forms the held-out data have
  MaxUpdates         \* bound: differing keys per sentence

ASSUME TrainingAssumption ==
  /\ GoldKeys \subseteq Keys /\ NoKey \notin Keys
  /\ sentences \in Nat /\ iterations \in Nat /\ heldout \in Nat /\ MaxUpdates \in Nat
  /\ early_stopping \in BOOLEAN

VARIABLES
  prune_features,                  \* an argument, the same for all of the training
  known,                           \* the keys of the maps
  alpha, gamma, last_gamma_update, \* training_feature_sequence_map::info
  phase, iteration, seen, updates, \* the iteration, its sentences so far, differences in the next one
  best_correct, best_iteration, best_gamma,
  model,                           \* what is encoded: the weights that are not 0
  total,    \* auxiliary: the sum, over the sentences trained on, of alpha after each
  scored    \* auxiliary: per iteration, its successes and averages

infos == <<alpha, gamma, last_gamma_update>>
best == <<best_correct, best_iteration, best_gamma>>
trainer == <<prune_features, known, infos, phase, iteration, seen, updates, best, model, total, scored>>

Zero == [k \in Keys |-> 0]

\* When features are pruned, the maps hold the keys of the gold tags and no others.
TrainerInit ==
  /\ prune_features \in BOOLEAN
  /\ known = IF prune_features THEN GoldKeys ELSE {}
  /\ alpha = Zero /\ gamma = Zero /\ last_gamma_update = Zero
  /\ phase = IF iterations = 0 THEN "finish" ELSE "train"
  /\ iteration = 0 /\ seen = 0 /\ updates = 0
  /\ best_correct = 0 /\ best_iteration = -1 /\ best_gamma = Zero
  /\ model = <<>>
  /\ total = Zero /\ scored = <<>>
-----------------------------------------------------------------------------
\* gamma with what alpha contributed since its last update, at sentence n
Caught(k, n) == gamma[k] + alpha[k] * (n - last_gamma_update[k])

\* The differing keys that get an update; one that is not in the map is added unless pruned.
Touched(d, g) == {k \in {d, g} \ {NoKey} : k \in known \/ ~prune_features}

\* Mutant: alpha moves before gamma is brought up to date.
AlphaFirst(d, g) ==
  /\ phase = "train" /\ seen < sentences /\ updates < MaxUpdates
  /\ d # g
  /\ LET touched == Touched(d, g) IN
     /\ known' = known \cup touched
     /\ alpha' = [k \in Keys |-> IF k \in touched THEN alpha[k] + (IF k = g THEN 1 ELSE -1) ELSE alpha[k]]
     /\ gamma' = [k \in Keys |-> IF k \in touched
                                 THEN gamma[k] + alpha'[k] * (seen - last_gamma_update[k]) ELSE gamma[k]]
     /\ last_gamma_update' = [k \in Keys |-> IF k \in touched THEN seen ELSE last_gamma_update[k]]
  /\ updates' = updates + 1
  /\ UNCHANGED <<prune_features, phase, iteration, seen, best, model, total, scored>>

\* The decoded and the gold key of one feature sequence at one form differ.
Update(d, g) ==
  /\ phase = "train" /\ seen < sentences /\ updates < MaxUpdates
  /\ d # g
  /\ LET touched == Touched(d, g) IN
     /\ known' = known \cup touched
     /\ gamma' = [k \in Keys |-> IF k \in touched THEN Caught(k, seen) ELSE gamma[k]]
     /\ last_gamma_update' = [k \in Keys |-> IF k \in touched THEN seen ELSE last_gamma_update[k]]
     /\ alpha' = [k \in Keys |-> IF k \in touched THEN alpha[k] + (IF k = g THEN 1 ELSE -1) ELSE alpha[k]]
  /\ updates' = updates + 1
  /\ UNCHANGED <<prune_features, phase, iteration, seen, best, model, total, scored>>

\* Every form of the sentence has been compared.
NextSentence ==
  /\ phase = "train" /\ seen < sentences
  /\ seen' = seen + 1 /\ updates' = 0
  /\ total' = [k \in Keys |-> total[k] + alpha[k]]
  /\ UNCHANGED <<prune_features, known, infos, phase, iteration, best, model, scored>>

\* Mutant: the counters of the updates go on into the next iteration.
CounterNotReset ==
  /\ phase = "train" /\ seen = sentences
  /\ gamma' = [k \in Keys |-> IF k \in known THEN Caught(k, sentences) ELSE gamma[k]]
  /\ phase' = "evaluate"
  /\ UNCHANGED <<prune_features, known, alpha, last_gamma_update, iteration, seen, updates, best, model, total, scored>>

\* "Finalize incremental gamma updates"
Finalize ==
  /\ phase = "train" /\ seen = sentences
  /\ gamma' = [k \in Keys |-> IF k \in known THEN Caught(k, sentences) ELSE gamma[k]]
  /\ last_gamma_update' = [k \in Keys |-> IF k \in known THEN 0 ELSE last_gamma_update[k]]
  /\ phase' = "evaluate"
  /\ UNCHANGED <<prune_features, known, alpha, iteration, seen, updates, best, model, total, scored>>

\* Mutant: a later iteration that is as good replaces the best one.
NotWorse(correct) == early_stopping /\ correct >= best_correct

Better(correct) == early_stopping /\ correct > best_correct

NextIteration ==
  /\ iteration' = iteration + 1 /\ seen' = 0 /\ updates' = 0
  /\ phase' = IF iteration + 1 < iterations THEN "train" ELSE "finish"

\* The averages are tried on the held-out data, if there are any.
Evaluate(correct) ==
  /\ phase = "evaluate"
  /\ IF heldout > 0 /\ Better(correct)
     THEN best_correct' = correct /\ best_iteration' = iteration /\ best_gamma' = gamma
     ELSE UNCHANGED best
  /\ scored' = Append(scored, [correct |-> correct, average |-> total])
  /\ NextIteration
  /\ UNCHANGED <<prune_features, known, infos, model, total>>

\* The features that are encoded, and the optimizer, which drops those of weight 0.
Encode ==
  /\ phase = "finish"
  /\ LET chosen == IF early_stopping /\ best_iteration >= 0 THEN best_gamma ELSE gamma
     IN  model' = [k \in {x \in Keys : chosen[x] # 0} |-> chosen[k]]
  /\ phase' = "done"
  /\ UNCHANGED <<prune_features, known, infos, iteration, seen, updates, best, total, scored>>

TrainerNext ==
  \/ \E d \in Keys \cup {NoKey}, g \in GoldKeys \cup {NoKey} : Update(d, g)
  \/ NextSentence \/ Finalize \/ Encode
  \/ \E correct \in 0..heldout : Evaluate(correct)

TrainerSpec == TrainerInit /\ [][TrainerNext]_trainer
-----------------------------------------------------------------------------
TrainerTypeOK ==
  /\ prune_features \in BOOLEAN
  /\ known \in SUBSET Keys
  /\ alpha \in [Keys -> Int] /\ gamma \in [Keys -> Int]
  /\ last_gamma_update \in [Keys -> Nat]
  /\ phase \in {"train", "evaluate", "finish", "done"}
  /\ iteration \in Nat /\ seen \in 0..sentences /\ updates \in Nat
  /\ best_correct \in 0..heldout /\ best_iteration \in -1..iterations - 1 /\ best_gamma \in [Keys -> Int]
  /\ total \in [Keys -> Int]

\* At every moment of the training, gamma and what alpha still owes it are the sum of
\* all values alpha had after the sentences so far, in this and in earlier iterations.
OwedIsExact == phase = "train" => \A k \in Keys : Caught(k, seen) = total[k]
\* The averages that are evaluated and stored owe nothing.
FinalizedIsTotal == phase # "train" => gamma = total
AveragesExact == OwedIsExact /\ FinalizedIsTotal

\* With pruning, only keys of the gold tags ever get a weight.
PrunedIsGold == \A k \in Keys : alpha[k] # 0 \/ gamma[k] # 0 => k \in known /\ (prune_features => k \in GoldKeys)

\* The encoded weights are the averages after the first of the iterations with most
\* successes, or after the last when none had any or no early stopping was asked for.
Wins(n) == /\ heldout > 0 /\ scored[n].correct > 0
           /\ \A m \in DOMAIN scored : IF m < n THEN scored[m].correct < scored[n].correct
                                       ELSE scored[m].correct <= scored[n].correct
Weights(average) == [k \in {x \in Keys : average[x] # 0} |-> average[k]]
BestIsEncoded ==
  phase = "done" =>
    IF early_stopping /\ \E n \in DOMAIN scored : Wins(n)
    THEN \A n \in DOMAIN scored : Wins(n) => model = Weights(scored[n].average)
    ELSE model = Weights(total)
=============================================================================
