--------------------------- MODULE EnglishGuesser ---------------------------
(***************************************************************************)
(* morpho/english_morpho_guesser.rl: the lemmas of an unknown English form *)
(* from a list of exceptions or from its ending, with a negative prefix    *)
(* moved behind the lemma, and proper names.  The rules of the endings are *)
(* constants; a form is in lowercase.                                      *)
(***************************************************************************)
EXTENDS SpecialForms, FiniteSetsExt

CONSTANTS
  Exceptions,        \* form -> sequence of [lemma, tag]
  Negations,         \* prefix -> [negation_len, to_follow]
  Endings(_),        \* the groups of tags that the ending of a form adds, in order
  Lemmatized(_, _),  \* the lemma of a form in a group of tags, itself if the group has no rules
  NameStarts,        \* the apostrophe and the digits from 0 to 9
  Caret, Plus, Hyphen, Letters

\* What is moved is a part of the prefix, and something is left: the encoder checks only that
\* it is not empty.
ASSUME NegationsAssumption ==
  \A p \in DOMAIN Negations :
    /\ Negations[p].negation_len \in 1..Len(p) /\ Negations[p].to_follow \in Nat
    /\ Negations[p].negation_len < Len(p) + Negations[p].to_follow

\* Mutant: what has to follow is counted from the start of the form.
NegationsOfForm(text) == {p \in DOMAIN Negations : IsPrefix(p, text) /\ Len(text) >= Negations[p].to_follow}

\* The encoder adds the beginnings of the prefixes, with length 0.
NegationsIn(text) == {p \in DOMAIN Negations : IsPrefix(p, text) /\ Len(text) - Len(p) >= Negations[p].to_follow}

negation_len(text) ==
  LET usable == NegationsIn(text) IN
  IF usable = {} THEN 0
  ELSE Negations[CHOOSE p \in usable : \A q \in usable : Len(q) <= Len(p)].negation_len

\* What the add functions append for a group of tags; the negation is kept by some of them.
GroupTags ==
  [FW |-> <<"FW">>, JJ |-> <<"JJ">>, RB |-> <<"RB">>, NN |-> <<"NN">>, NNS |-> <<"NNS">>,
   JJR_RBR |-> <<"JJR", "RBR">>, JJS_RBS |-> <<"JJS", "RBS">>, VBG |-> <<"VBG">>, VBD_VBN |-> <<"VBD", "VBN">>,
   VBZ |-> <<"VBZ">>, VB_VBP |-> <<"VB", "VBP">>, SYM |-> <<"SYM">>, CD |-> <<"CD">>]
Negatable == {"JJ", "RB", "NN", "NNS", "JJR_RBR", "JJS_RBS"}

add(group, text) ==
  LET negation == IF group \in Negatable THEN negation_len(text) ELSE 0
      lemma == Lemmatized(group, Rest(text, negation))
                 \o IF negation = 0 THEN <<>> ELSE <<Caret>> \o SubSeq(text, 1, negation)
  IN  [k \in DOMAIN GroupTags[group] |-> Analysis(lemma, Tags[GroupTags[group][k]])]

ByEnding(text) ==
  LET groups == <<"FW", "JJ", "RB", "NN", "NNS">> \o Endings(text) IN
  FlattenSeq([k \in DOMAIN groups |-> add(groups[k], text)])


\* A form that differs from its lowercase, or starts with a digit or an apostrophe, may be a name.
analyze_proper_names(text, lowered, known) ==
  LET has(tag) == \E k \in DOMAIN known : known[k].tag = tag IN
  (IF (lowered \/ text[1] \in NameStarts) /\ ~has(Tags.NNP) THEN <<Analysis(text, Tags.NNP)>> ELSE <<>>)
    \o (IF lowered /\ ~has(Tags.NNPS) THEN <<Analysis(Lemmatized("NNPS", text), Tags.NNPS)>> ELSE <<>>)

analyze_english(text, text_lc, lowered) ==
  LET guessed == IF text_lc \in DOMAIN Exceptions THEN Exceptions[text_lc] ELSE ByEnding(text_lc) IN
  guessed \o analyze_proper_names(text, lowered, guessed)
-----------------------------------------------------------------------------
\* english_lemma_addinfo.h: a raw lemma ends at a caret before letters, or at a caret or a plus
\* that is the last character.
english_raw_lemma_len(lemma) ==
  LET ends == {n \in 1..Len(lemma) - 1 :
                 IF n + 1 = Len(lemma) THEN lemma[n + 1] \in {Caret, Plus}
                 ELSE /\ lemma[n + 1] = Caret
                      /\ \A k \in n + 2..Len(lemma) : lemma[k] \in Letters \/ (k > n + 2 /\ lemma[k] = Hyphen)}
  IN  IF ends = {} THEN Len(lemma) ELSE Min(ends)
=============================================================================
