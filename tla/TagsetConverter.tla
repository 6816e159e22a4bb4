--------------------------- MODULE TagsetConverter ---------------------------
(***************************************************************************)
(* tagset_converter: what the converters make of a lemma and a tag, and    *)
(* how analyses and generated forms that became equal are merged.  Tags    *)
(* are sequences of characters, like lemmas.                               *)
(***************************************************************************)
EXTENDS LemmaText, FiniteSets, FiniteSetsExt

Converters == {"identity", "pdt_to_conll2009", "strip_lemma_comment", "strip_lemma_id"}

\* The Sem feature of a Conll tag is the character behind the mark in the lemma.
Sem(lemma) == SubSeq(Comments(lemma), 2, Min({2, Len(Comments(lemma))}))

convert_tag(converter, lemma, tag) == IF converter = "pdt_to_conll2009" THEN tag \o Sem(lemma) ELSE tag
convert_lemma(converter, lemma) ==
  CASE converter = "identity" -> lemma
    [] converter = "strip_lemma_comment" -> Id(lemma)
    [] OTHER -> Raw(lemma)

convert(converter, analysis) ==
  [lemma |-> convert_lemma(converter, analysis.lemma), tag |-> convert_tag(converter, analysis.lemma, analysis.tag)]
-----------------------------------------------------------------------------
AnalysisBefore(a, b) == Before(a.lemma, b.lemma) \/ (a.lemma = b.lemma /\ Before(a.tag, b.tag))
FormBefore(a, b) == Before(a.tag, b.tag) \/ (a.tag = b.tag /\ Before(a.form, b.form))

unique_analyzed(analyses) ==
  LET all == Range(analyses)
      smaller(a) == {b \in all : AnalysisBefore(b, a)}
  IN  [k \in 1..Cardinality(all) |-> CHOOSE a \in all : Cardinality(smaller(a)) = k - 1]
unique_forms(forms) ==
  LET all == Range(forms)
      smaller(a) == {b \in all : FormBefore(b, a)}
  IN  [k \in 1..Cardinality(all) |-> CHOOSE a \in all : Cardinality(smaller(a)) = k - 1]


\* Equal analyses are looked for only if some lemma changed.
convert_analyzed(converter, analyses) ==
  LET converted == [k \in DOMAIN analyses |-> convert(converter, analyses[k])] IN
  IF Len(analyses) < 2 \/ \A k \in DOMAIN analyses : converted[k].lemma = analyses[k].lemma
  THEN converted
  ELSE unique_analyzed(converted)
-----------------------------------------------------------------------------
\* Mutant: the last entry is dropped, and not moved to the place of the merged one.
WithoutLast(groups, j) == Front(groups)

\* An entry is removed by moving the last one to its place.
Without(groups, j) == [k \in 1..Len(groups) - 1 |-> IF k = j THEN Last(groups) ELSE groups[k]]

\* The later entries with the lemma of entry i are merged into it, from the last one on.
Merged(groups, i) ==
  FoldRight(LAMBDA j, gs :
              IF gs[j].lemma # gs[i].lemma THEN gs
              ELSE [Without(gs, j) EXCEPT ![i].forms = @ \o gs[j].forms],
            [k \in 1..Len(groups) - i |-> i + k], groups)

Regrouped(groups, i) ==
  LET merged == Merged(groups, i) IN
  IF merged = groups THEN groups
  ELSE [merged EXCEPT ![i].forms = unique_forms(@)]

unique_generated(groups) ==
  FoldLeft(LAMBDA gs, i : IF i > Len(gs) THEN gs ELSE Regrouped(gs, i), groups, [i \in DOMAIN groups |-> i])

convert_generated(converter, groups) ==
  LET tagged(g) == [k \in DOMAIN g.forms |-> [g.forms[k] EXCEPT !.tag = convert_tag(converter, g.lemma, @)]]
      converted == [k \in DOMAIN groups |->
                      [lemma |-> convert_lemma(converter, groups[k].lemma), forms |-> tagged(groups[k])]]
  IN  IF Len(groups) < 2 \/ \A k \in DOMAIN groups : converted[k].lemma = groups[k].lemma
      THEN converted
      ELSE unique_generated(converted)
=============================================================================
