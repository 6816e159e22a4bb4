------------------------------ MODULE LemmaText ------------------------------
(***************************************************************************)
(* The structure of Czech lemmas, morpho/czech_lemma_addinfo.h: a raw      *)
(* lemma, then possibly the number of a sense, then possibly comments.     *)
(* The number with its hyphen is one character here, and a comment starts  *)
(* with the character Comment.                                             *)
(***************************************************************************)
EXTENDS Texts

CONSTANTS Senses, Comment

ASSUME SeparatorsAssumption == Comment \notin Senses

\* The end of the characters before the first separator that is not the first character.
raw_lemma_len(lemma) ==
  CHOOSE n \in 0..Len(lemma) :
    /\ \A k \in 2..n : lemma[k] \notin Senses \cup {Comment}
    /\ n = Len(lemma) \/ (n > 0 /\ lemma[n + 1] \in Senses \cup {Comment})

lemma_id_len(lemma) ==
  LET raw == raw_lemma_len(lemma) IN
  IF raw < Len(lemma) /\ lemma[raw + 1] \in Senses THEN raw + 1 ELSE raw

Raw(lemma) == SubSeq(lemma, 1, raw_lemma_len(lemma))
Id(lemma) == SubSeq(lemma, 1, lemma_id_len(lemma))
Sense(lemma) == Rest(Id(lemma), raw_lemma_len(lemma))
Comments(lemma) == Rest(lemma, lemma_id_len(lemma))
=============================================================================
