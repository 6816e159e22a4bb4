---------------------------- MODULE SpecialForms ----------------------------
(***************************************************************************)
(* analyze_special of czech_morpho, generic_morpho and english_morpho:     *)
(* forms that are numbers, punctuation or symbols.  Every morphology has   *)
(* its own automaton; what differs between those of Czech and of generic   *)
(* is what comes after the number.                                         *)
(***************************************************************************)
EXTENDS Texts

CONSTANTS
  Digits,            \* of the category N
  DigitsOneToNine,
  Punctuation,       \* of the category P
  Symbols,           \* of the category S
  Asterisk,          \* punctuation, but also a symbol in English
  CzechPunctuation,  \* with punctuation_additional and without punctuation_exceptions
  Signs, Exponents, Point, Comma, Ess,
  OpenQuotes, CloseQuotes, OpenParentheses, CloseParentheses,
  Singles,           \* the tags of the one-letter exceptions of English
  Tags               \* the names of the tags in the code -> tags

Analysis(text, tag) == [lemma |-> text, tag |-> tag]
AllIn(text, chars) == \A k \in DOMAIN text : text[k] \in chars
-----------------------------------------------------------------------------
SkipDigits(text, n) ==
  CHOOSE m \in n..Len(text) + 1 :
    /\ m > Len(text) \/ text[m] \notin Digits
    /\ \A k \in n..m - 1 : text[k] \in Digits
Skip(text, n, chars) == IF n <= Len(text) /\ text[n] \in chars THEN n + 1 ELSE n

\* A mantissa: where it ends, and whether it has a digit.  The separators that are read if
\* something follows them, and those that are read at the end.
Mantissa(text, inner, last) ==
  LET whole == Skip(text, 1, Signs)
      point == SkipDigits(text, whole)
      part == Skip(text, point, IF point < Len(text) THEN inner ELSE last)
      end == SkipDigits(text, part)
  IN  [end |-> end, any_digit |-> point > whole \/ end > part]

\* Mutant: the digits of the mantissa also count for the exponent.
IsNumberWithBareExponent(text, inner, last) ==
  LET mantissa == Mantissa(text, inner, last)
      power == Skip(text, mantissa.end + 1, Signs)
      stop == IF mantissa.any_digit /\ Skip(text, mantissa.end, Exponents) > mantissa.end
              THEN SkipDigits(text, power) ELSE mantissa.end
  IN  mantissa.any_digit /\ (stop > Len(text) \/ (stop = Len(text) /\ text[stop] = Point))

\* A point is accepted at the end.
IsNumber(text, inner, last) ==
  LET mantissa == Mantissa(text, inner, last)
      power == Skip(text, mantissa.end + 1, Signs)
      exponent == mantissa.any_digit /\ Skip(text, mantissa.end, Exponents) > mantissa.end
      stop == IF exponent THEN SkipDigits(text, power) ELSE mantissa.end
  IN  /\ IF exponent THEN stop > power ELSE mantissa.any_digit
      /\ stop > Len(text) \/ (stop = Len(text) /\ text[stop] = Point)

\* The loop that should read groups of thousands asks for the category of a character without
\* some bits, and not whether it is a number: every category is a reason to break.
IsEnglishNumber(text) == IsNumber(text, {Point}, {})
IsDecade(text) ==
  LET mantissa == Mantissa(text, {Point}, {}) IN
  mantissa.any_digit /\ mantissa.end = Len(text) /\ Last(text) = Ess
-----------------------------------------------------------------------------
analyze_special_czech(text) ==
  IF IsNumber(text, {Point, Comma}, {Comma}) THEN <<Analysis(text, Tags.number_tag)>>
  ELSE IF text[1] \in CzechPunctuation THEN <<Analysis(text, Tags.punctuation_tag)>> ELSE <<>>

analyze_special_generic(text) ==
  IF IsNumber(text, {Point, Comma}, {Comma}) THEN <<Analysis(text, Tags.number_tag)>>
  ELSE IF AllIn(text, Punctuation) THEN <<Analysis(text, Tags.punctuation_tag)>>
  ELSE IF AllIn(text, Symbols) THEN <<Analysis(text, Tags.symbol_tag)>> ELSE <<>>

EnglishSymbols == Symbols \cup {Asterisk}

\* The loop over the characters ends before the last one if they are neither all symbols nor
\* all punctuation; the quotes and the parentheses are decided at the end.
EnglishMarks(text) ==
  IF ~(AllIn(Front(text), EnglishSymbols) \/ AllIn(Front(text), Punctuation)) THEN <<>>
  ELSE IF AllIn(text, OpenQuotes) THEN <<Tags.open_quotation_tag>>
  ELSE IF AllIn(text, CloseQuotes) THEN <<Tags.close_quotation_tag>>
  ELSE IF AllIn(text, OpenParentheses) THEN <<Tags.open_parenthesis_tag>>
  ELSE IF AllIn(text, CloseParentheses) THEN <<Tags.close_parenthesis_tag>>
  ELSE IF AllIn(text, EnglishSymbols) THEN <<Tags.SYM>>
  ELSE IF AllIn(text, Punctuation) THEN <<Tags.punctuation_tag>> ELSE <<>>

analyze_special_english(text, version) ==
  LET all(tags) == [k \in DOMAIN tags |-> Analysis(text, tags[k])]
      enumerates == \E d \in DigitsOneToNine : text \in {<<d>>, <<d, Point>>}
  IN
  IF Len(text) = 1 /\ text[1] \in DOMAIN Singles THEN all(Singles[text[1]])
  ELSE IF version >= 2 /\ IsDecade(text) THEN <<Analysis(text, Tags.CD), Analysis(Front(text), Tags.NNS)>>
  ELSE IF IsEnglishNumber(text)
  THEN all(<<Tags.CD, Tags.NNP>> \o IF enumerates THEN <<Tags.LS>> ELSE <<>>)
  ELSE all(EnglishMarks(text))
=============================================================================
