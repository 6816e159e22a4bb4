----------------------------- MODULE Morphology ------------------------------
(***************************************************************************)
(* The morphologies of morpho/morpho.cpp.  A form is analyzed by the       *)
(* dictionary with all its casings, as a number or punctuation, and by the *)
(* guessers that the language has; a lemma generates forms.  The external  *)
(* morphology finds both in the text that it is given.  Either result is   *)
(* converted by its caller, as in rest_server/morphodita_service.cpp.      *)
(* Characters are numbers, as in the bytes of the code.                    *)
(***************************************************************************)
EXTENDS PrefixGuesser, TagsetConverter, EnglishGuesser, StatisticalTrainer

CONSTANT
  Calls   \* sets of [call, language, version, text, guesser, prefixes, statistical, wildcard, generated]

lemma_rules == [pref_del : Seq(Int), pref_add : Seq(Int), suff_del : Seq(Int), suff_add : Seq(Int)]

\* The casings of a text are texts, and so is what a statistical guesser was trained to add.
ASSUME CasingAssumption == \A c \in DOMAIN Lower : Lower[c] \in Int
ASSUME CallsAssumption ==
  \A calls \in Calls : \A c \in calls :
    /\ c.text \in Seq(Int) \ {<<>>}
    /\ c.statistical # <<>> =>
         LET g == c.statistical[1] IN
         /\ g.default_tag \in Seq(Int)
         /\ \A label \in DOMAIN g.rules : g.rules[label] \in Seq([lemma_rule : lemma_rules, tags : Seq(Seq(Int))])

NO_GUESSER == 0
GUESSER == 1

VARIABLES
  request,                \* from one of Calls
  stage,                  \* "dictionary", "special", "rules", "prefix", "statistical", "end",
                          \* "generate", "external", "converted"
  turn,                   \* the casing that the statistical guesser is asked for
  used,                   \* the labels of the rules it used
  prefix_guesser_guesses,
  code, converter,
  forms                   \* generated: a sequence of [lemma, forms]

morphoVars == <<vars, request, stage, turn, used, prefix_guesser_guesses, code, converter, forms>>
-----------------------------------------------------------------------------
(* casing_variants.h *)

form_lc(text) == IF \E k \in DOMAIN text : IsUpper(text[k]) THEN [k \in DOMAIN text |-> lowercase(text[k])] ELSE <<>>
form_uclc(text) ==
  IF IsUpper(text[1]) /\ \E k \in 2..Len(text) : IsUpper(text[k])
  THEN [k \in DOMAIN text |-> IF k = 1 THEN text[1] ELSE lowercase(text[k])]
  ELSE <<>>

generate_casing_variants(text) ==
  LET variant(t) == IF t = <<>> THEN <<>> ELSE <<t>>
  IN  <<text>> \o variant(form_uclc(text)) \o variant(form_lc(text))
Casings == generate_casing_variants(request.text)
-----------------------------------------------------------------------------
(* morpho_statistical_guesser.cpp *)

rules == request.statistical[1].rules
LabelIn(text, suffix, prefix) == Label(Rest(text, Len(text) - suffix), SubSeq(text, 1, prefix))

\* The suffixes that begin some label, the prefixes that continue it, and those with rules.
SuffixesOf(text) == {s \in 0..Len(text) : \A n \in 1..s : Found(rules, Reverse(Rest(text, Len(text) - n)))}
PrefixesOf(text, s) == {p \in 0..Len(text) - s : \A n \in 0..p : Found(rules, LabelIn(text, s, n))}
Ruled(text, s) == {p \in PrefixesOf(text, s) : LabelIn(text, s, p) \in DOMAIN rules}

\* The label with the longest suffix, and of those with the longest prefix; <<>> if there is none.
BestLabel(text) ==
  LET ends == {s \in SuffixesOf(text) : Ruled(text, s) # {}} IN
  IF ends = {} THEN <<>> ELSE LabelIn(text, Max(ends), Max(Ruled(text, Max(ends))))

Applies(rule, text) ==
  /\ Len(rule.pref_del) + Len(rule.suff_del) <= Len(text)
  /\ IsPrefix(rule.pref_del, text) /\ IsSuffix(rule.suff_del, text)
  /\ Len(text) + Len(rule.pref_add) + Len(rule.suff_add) # Len(rule.pref_del) + Len(rule.suff_del)

ByRule(rule, tags, text) ==
  LET stem == SubSeq(text, Len(rule.pref_del) + 1, Len(text) - Len(rule.suff_del)) IN
  [k \in DOMAIN tags |-> Analysis(rule.pref_add \o stem \o rule.suff_add, tags[k])]

\* The lemmas of one casing: used is consulted only if there are several casings.
ByRules(text) ==
  LET label == BestLabel(text)
      by(r) == IF Applies(r.lemma_rule, text) THEN ByRule(r.lemma_rule, r.tags, text) ELSE <<>>
  IN  IF Len(label) <= 1 \/ label \in used THEN <<>>
      ELSE FlattenSeq([k \in DOMAIN rules[label] |-> by(rules[label][k])])
-----------------------------------------------------------------------------
MorphoInit ==
  /\ \E calls \in Calls : request \in calls
  /\ form = Last(Casings)
  /\ request.prefixes \/ (~request.prefixes /\ prefixes_initial = <<>> /\ prefixes_middle = <<>>)
  /\ Init
  /\ stage = CASE request.language = "external" -> "external"
               [] request.language # "external" /\ request.call = "analyze" -> "dictionary"
               [] OTHER -> "generate"
  /\ turn = 1 /\ used = {} /\ prefix_guesser_guesses = FALSE
  /\ code = NO_GUESSER /\ converter = "identity" /\ forms = <<>>

guesserState == <<input, initial, middle, middle_masks, form_tmp, asked, pc>>

English == request.language = "english"
\* The casings start with the form, and end with its lowercase if it has one.
Lowered == form_lc(request.text) # <<>>

\* What is in the dictionary is not guessed, but in English it may also be a name.
AnalyzeByDictionary ==
  /\ stage = "dictionary"
  /\ LET known == FlattenSeq([k \in DOMAIN Casings |-> Dictionary(Casings[k])])
         names == IF known # <<>> /\ English /\ request.guesser
                  THEN analyze_proper_names(request.text, Lowered, known) ELSE <<>>
     IN  /\ lemmas' = known \o names
         /\ stage' = IF known # <<>> THEN "end" ELSE "special"
         /\ code' = IF names # <<>> THEN GUESSER ELSE NO_GUESSER
  /\ UNCHANGED <<guesserState, request, turn, used, prefix_guesser_guesses, converter, forms>>

analyze_special(text) ==
  CASE request.language = "czech" -> analyze_special_czech(text)
    [] request.language = "generic" -> analyze_special_generic(text)
    [] English -> analyze_special_english(text, request.version)

AnalyzeSpecial ==
  /\ stage = "special"
  /\ lemmas' = analyze_special(request.text)
  /\ stage' = IF lemmas' # <<>> THEN "end" ELSE IF English THEN "rules" ELSE "prefix"
  /\ UNCHANGED <<guesserState, request, turn, used, prefix_guesser_guesses, code, converter, forms>>

AskEnglishGuesser ==
  /\ stage = "rules"
  /\ lemmas' = IF request.guesser THEN analyze_english(request.text, Last(Casings), Lowered) ELSE <<>>
  /\ stage' = "statistical"
  /\ UNCHANGED <<guesserState, request, turn, used, prefix_guesser_guesses, code, converter, forms>>

PrefixGuesses == request.language = "czech" /\ request.guesser /\ request.prefixes

\* The prefix guesser works on the last casing, which is lowercase.
AskPrefixGuesser ==
  /\ stage = "prefix" /\ PrefixGuesses
  /\ Next
  /\ UNCHANGED <<request, stage, turn, used, prefix_guesser_guesses, code, converter, forms>>

EndPrefixGuesser ==
  /\ stage = "prefix" /\ (pc = "done" \/ ~PrefixGuesses)
  /\ prefix_guesser_guesses' = (lemmas # <<>>)
  /\ stage' = "statistical"
  /\ UNCHANGED <<vars, request, turn, used, code, converter, forms>>

StatisticalGuesses == request.language \in {"czech", "generic"} /\ request.guesser /\ request.statistical # <<>>

\* The default tag stands in for rules that yield nothing, once.
AskStatisticalGuesser ==
  /\ stage = "statistical" /\ StatisticalGuesses /\ turn <= Len(Casings)
  /\ LET text == Casings[turn]
         found == ByRules(text)
         remembered == IF Len(Casings) = 1 THEN {} ELSE (IF Len(BestLabel(text)) > 1 THEN {BestLabel(text)} ELSE {})
         default == found = <<>> /\ <<>> \notin used
     IN  /\ lemmas' = lemmas \o found \o (IF default THEN <<Analysis(text, request.statistical[1].default_tag)>> ELSE <<>>)
         /\ used' = used \cup remembered \cup (IF default /\ Len(Casings) > 1 THEN {<<>>} ELSE {})
  /\ turn' = turn + 1
  /\ UNCHANGED <<guesserState, request, stage, prefix_guesser_guesses, code, converter, forms>>

\* Mutant: unique without the sort, which only compares neighbours.
UniqueNeighbours(analyses) ==
  LET kept == {k \in DOMAIN analyses : k = 1 \/ analyses[k] # analyses[k - 1]}
      place(n) == CHOOSE k \in kept : Cardinality({m \in kept : m < k}) = n - 1
  IN  [n \in 1..Cardinality(kept) |-> analyses[place(n)]]

\* The same sort and unique as after a conversion.
UniquePairs(analyses) == unique_analyzed(analyses)

EndGuessing ==
  /\ stage = "statistical" /\ ~(StatisticalGuesses /\ turn <= Len(Casings))
  /\ lemmas' = IF lemmas = <<>> THEN <<Analysis(request.text, Tags.unknown_tag)>>
               ELSE IF prefix_guesser_guesses THEN UniquePairs(lemmas) ELSE lemmas
  /\ code' = IF lemmas = <<>> THEN -1 ELSE GUESSER
  /\ stage' = "end"
  /\ UNCHANGED <<guesserState, request, turn, used, prefix_guesser_guesses, converter, forms>>

\* The prefix guesser generates nothing.  The code tells whether a lemma matched, of which
\* the filter may have refused every form.
Generate ==
  /\ stage = "generate"
  /\ forms' = request.generated
  /\ code' \in {NO_GUESSER} \cup (IF request.generated = <<>> THEN {-1} ELSE {})
  /\ stage' = "end"
  /\ UNCHANGED <<vars, request, turn, used, prefix_guesser_guesses, converter>>

\* The fields of a text between blanks.
Fields(text) ==
  LET starts == {1} \cup {k + 1 : k \in {k \in DOMAIN text : text[k] = Blank}}
      start(n) == CHOOSE k \in starts : Cardinality({m \in starts : m < k}) = n - 1
      end(n) == Min({k \in start(n)..Len(text) + 1 : k > Len(text) \/ text[k] = Blank})
  IN  [n \in 1..Cardinality(starts) |-> SubSeq(text, start(n), end(n) - 1)]

\* Mutant: the first field is taken for the first lemma.
PairsFromFirst(text) == [n \in 1..Len(Fields(text)) \div 2 |-> <<Fields(text)[2 * n - 1], Fields(text)[2 * n]>>]

\* What follows the first field, in pairs; a field without a partner is ignored.
Pairs(text) == [n \in 1..(Len(Fields(text)) - 1) \div 2 |-> <<Fields(text)[2 * n], Fields(text)[2 * n + 1]>>]

AnalyzeExternal ==
  /\ stage = "external" /\ request.call = "analyze"
  /\ LET pairs == Pairs(request.text) IN
     /\ lemmas' = IF pairs = <<>> THEN <<Analysis(request.text, Tags.unknown_tag)>>
                  ELSE [n \in DOMAIN pairs |-> Analysis(pairs[n][1], pairs[n][2])]
     /\ code' = IF pairs = <<>> THEN -1 ELSE NO_GUESSER
  /\ stage' = "end"
  /\ UNCHANGED <<guesserState, request, turn, used, prefix_guesser_guesses, converter, forms>>

\* The code tells whether there were forms, of any tag.
GenerateExternal ==
  /\ stage = "external" /\ request.call = "generate"
  /\ LET pairs == Pairs(request.text)
         matching == SelectSeq(pairs, LAMBDA p : matches(request.wildcard, p[2]))
     IN  /\ forms' = IF matching = <<>> THEN <<>>
                     ELSE <<[lemma |-> Fields(request.text)[1],
                             forms |-> [n \in DOMAIN matching |-> [form |-> matching[n][1], tag |-> matching[n][2]]]]>>
         /\ code' = IF pairs = <<>> THEN -1 ELSE NO_GUESSER
  /\ stage' = "end"
  /\ UNCHANGED <<vars, request, turn, used, prefix_guesser_guesses, converter>>

\* Of lemmas that are not Czech only the identity is considered.
Converted(language) == IF language = "czech" THEN Converters ELSE {"identity"}

Convert ==
  /\ stage = "end"
  /\ \E c \in Converted(request.language) :
       /\ converter' = c
       /\ lemmas' = convert_analyzed(c, lemmas)
       /\ forms' = convert_generated(c, forms)
  /\ stage' = "converted"
  /\ UNCHANGED <<guesserState, request, turn, used, prefix_guesser_guesses, code>>

MorphoNext ==
  \/ AnalyzeByDictionary \/ AnalyzeSpecial \/ AskEnglishGuesser \/ AskPrefixGuesser \/ EndPrefixGuesser
  \/ AskStatisticalGuesser \/ EndGuessing \/ Generate \/ AnalyzeExternal \/ GenerateExternal \/ Convert
MorphoSpec == MorphoInit /\ [][MorphoNext]_morphoVars
-----------------------------------------------------------------------------
\* What the comments say of a number: for Czech and the generic morphology
\* [+-]? is_Pn* ([.,] is_Pn*)? ([Ee] [+-]? is_Pn+)? for at least one is_Pn* nonempty, and for
\* English [+-]? is_Pn* (, is_Pn{3})? (. is_Pn*)? (s | [Ee] [+-]? is_Pn+)? with at least one
\* digit, where s is a decade and none before version 2.
OneOf(text, n, m, chars) == m = n \/ (m = n + 1 /\ text[m] \in chars)
AllDigits(text, n, m) == \A k \in n + 1..m : text[k] \in Digits
OneGroup(text, n, m) == m = n \/ (English /\ m = n + 4 /\ text[n + 1] = Comma /\ AllDigits(text, n + 1, m))
DocumentedMantissa(text, n) ==
  \E a, b, g, c \in 0..n :
    /\ a <= b /\ b <= g /\ g <= c /\ (b > a \/ g > b \/ n > c)
    /\ OneOf(text, 0, a, Signs) /\ AllDigits(text, a, b) /\ OneGroup(text, b, g)
    /\ OneOf(text, g, c, IF English THEN {Point} ELSE {Point, Comma}) /\ AllDigits(text, c, n)
DocumentedNumber(text) ==
  \E n \in 0..Len(text) :
    /\ DocumentedMantissa(text, n)
    /\ \/ n = Len(text)
       \/ /\ text[n + 1] \in Exponents
          /\ \E e \in n + 1..Len(text) - 1 : OneOf(text, n + 1, e, Signs) /\ AllDigits(text, e, Len(text))
NumberOrEnd(text) == DocumentedNumber(text) \/ (Last(text) = Point /\ DocumentedNumber(Front(text)))
Decade(text) == English /\ request.version > 1 /\ Last(text) = Ess /\ DocumentedMantissa(text, Len(text) - 1)

\* The code reads no group, against its comment: a number with one is not settled here.
GroupUnread(text) == English /\ Comma \in Range(text) /\ (NumberOrEnd(text) \/ Decade(text))

\* Forms of a kind that the language reads without a dictionary.
Marks(text) ==
  CASE request.language = "czech" -> text[1] \in CzechPunctuation
    [] request.language = "generic" -> AllIn(text, Punctuation) \/ AllIn(text, Symbols)
    [] English -> \/ AllIn(text, Punctuation) \/ AllIn(text, EnglishSymbols) \/ (Len(text) = 1 /\ text[1] \in DOMAIN Singles)
                  \/ Decade(text)
\* Quotes of the two categories, which English reads only next to one another.
MixedMarks(text) == English /\ AllIn(text, Punctuation \cup Symbols)


\* A lemma of the English guesser can be taken apart again: what follows the caret is
\* the start of the form, a negation with enough behind it, and there is a lemma before it.
GuessesParse ==
  stage = "end" /\ English /\ request.call = "analyze" /\ code = GUESSER =>
    \A a \in Range(lemmas) :
      LET raw == english_raw_lemma_len(a.lemma)
          negation == Rest(a.lemma, raw + 1)
      IN  Caret \in Range(a.lemma) =>
            /\ raw < Len(a.lemma)
            /\ \E p \in DOMAIN Negations :
                 /\ IsPrefix(negation, p) /\ IsPrefix(p, Last(Casings))
                 /\ Len(negation) = Negations[p].negation_len
                 /\ Len(Last(Casings)) >= Len(p) + Negations[p].to_follow

\* What the external morphology returns, written behind the first field of the text, is the
\* text but for a last field alone.
ExternalIsText ==
  stage = "end" /\ request.language = "external" /\ code = NO_GUESSER /\ request.call = "analyze" =>
    \E n \in 0..Len(request.text) :
      LET written == SubSeq(request.text, 1, n)
                       \o FlattenSeq([k \in DOMAIN lemmas |-> <<Blank>> \o lemmas[k].lemma \o <<Blank>> \o lemmas[k].tag])
          left == Rest(request.text, Len(written))
      IN  /\ \A k \in 1..n : request.text[k] # Blank
          /\ IsPrefix(written, request.text)
          /\ left = <<>> \/ (left[1] = Blank /\ Blank \notin Range(Tail(left)))

\* The lemmas that the English guesser proposes and the analyses that the external morphology
\* returns can be read back from the form.
AnalysesReadBack == GuessesParse /\ ExternalIsText

\* When the prefix guesser has something to say, no analysis is reported twice, although it
\* may reach one by several splits and the statistical guesser may propose the same.
AnalysesUnique == stage = "end" /\ prefix_guesser_guesses => IsInjective(lemmas)

\* The guesser looks for one label, with the longest ending and then the longest prefix; the
\* trainer has written there all that a form of the corpus needs: it gets the lemma and the tag
\* it was trained with, if there is room for all rules, no prefix overlaps its ending,
\* and the label was not used for another casing.  No casing gets more than what fits.
TrainedIsGuessed ==
  stage = "end" /\ code = GUESSER /\ StatisticalGuesses =>
    LET training == request.statistical[1].training
        data == {Instance(line) : line \in training.corpus}
        prefixes == PrefixesKept(data, training)
        apart(i) == Len(PrefixOf(i, prefixes)) + Min({training.suffix_len, Len(i.form)}) <= Len(i.form)
        asked_first(n) == \A m \in 1..n - 1 : BestLabel(Casings[m]) # BestLabel(Casings[n])
    IN  /\ training.rules_per_suffix >= Cardinality(training.corpus) =>
             \A line \in training.corpus : \A n \in DOMAIN Casings :
               Casings[n] = Instance(line).form /\ apart(Instance(line)) /\ asked_first(n)
                 => Analysis(line.lemma, line.tag) \in Range(lemmas)
        /\ ~prefix_guesser_guesses => Len(lemmas) <= Max({1, training.rules_per_suffix}) * Len(Casings)

\* A guess is what the tables of the guesser say, of prefixes and filters in the one and of
\* the corpus behind the rules in the other: none is forgotten and none is added.
GuessesFollowTables == (stage = "prefix" => GuessesAllowed) /\ TrainedIsGuessed

\* A conversion neither loses nor invents a form of a lemma, and leaves each lemma in one
\* group, in which no form stands twice.
Tagged(groups) == UNION {{[lemma |-> g.lemma, form |-> f.form, tag |-> f.tag] : f \in Range(g.forms)} : g \in Range(groups)}
GeneratedKept ==
  stage = "converted" /\ request.language # "external" =>
    /\ Tagged(forms) = {[lemma |-> convert_lemma(converter, t.lemma), form |-> t.form,
                         tag |-> convert_tag(converter, t.lemma, t.tag)] : t \in Tagged(request.generated)}
    /\ IsInjective([k \in DOMAIN forms |-> forms[k].lemma])
    /\ \A k \in DOMAIN forms : IsInjective(forms[k].forms)
=============================================================================
