---------------------------- MODULE GruTokenizer ----------------------------
(***************************************************************************)
(* tokenizer/gru_tokenizer.cpp on unicode_tokenizer.cpp: a text is split   *)
(* into sentences of tokens.  The network classifies windows of segment    *)
(* items, which are characters or runs of spaces; the cursor walks through *)
(* the outcomes, while addresses move it over several at once.  Texts,     *)
(* offsets and outcomes are numbered from 1.                               *)
(***************************************************************************)
EXTENDS Integers, Sequences, FiniteSetsExt, SequencesExt

CONSTANTS
  Inputs,            \* sequences of texts, given to the tokenizer one after the other
  Segments,          \* the sizes of windows the trainer accepts
  classify,          \* the outcomes the network may choose for a kind of character, in any context
  address_length,    \* the least number of characters of an address
  sentence_limit, sentence_limit_P, sentence_limit_Po  \* 500, 450 and 400 in the code

NO_SPLIT == 0
END_OF_TOKEN == 1
END_OF_SENTENCE == 2

\* The kinds of characters: Po is punctuation that may end a sentence, P is other punctuation.
Spaces == {"space", "LF", "CR"}
Kinds == {"letter", "address", "P", "Po"} \cup Spaces

ASSUME InputsAssumption == Inputs \subseteq Seq(Seq(Kinds))
ASSUME SegmentsAssumption == \A s \in Segments : s \in Nat /\ s >= 10
ASSUME LimitsAssumption == sentence_limit \in Nat \ {0} /\ address_length \in Nat \ {0}
ASSUME NetworkAssumption ==
  \A kind \in Kinds : classify[kind] # {} /\ classify[kind] \subseteq {NO_SPLIT, END_OF_TOKEN, END_OF_SENTENCE}

VARIABLES
  segment, allow_spaces,      \* of the model
  inputs, chars, current,     \* the texts to come, the text and the cursor
  network_index, network_length, network_outcomes, network_offsets,
  pc, tokens, token_start,    \* of the call of next_sentence
  sentences                   \* what the calls have returned for this text

model == <<segment, allow_spaces>>
window == <<network_index, network_length, network_outcomes, network_offsets>>
vars == <<model, inputs, chars, current, window, pc, tokens, token_start, sentences>>

size == Len(chars)
is_space(at) == chars[at] \in Spaces
token(from, to) == [start |-> from, length |-> to - from]

Init ==
  /\ segment \in Segments /\ allow_spaces \in BOOLEAN
  /\ inputs \in Inputs /\ chars = <<>> /\ current = 1
  /\ network_index = 1 /\ network_length = 0 /\ network_outcomes = <<>> /\ network_offsets = <<1>>
  /\ pc = "idle" /\ tokens = <<>> /\ token_start = 1
  /\ sentences = <<>>

\* The client gives another text, possibly before the end of the last one.
SetText ==
  /\ pc = "idle" /\ inputs # <<>>
  /\ chars' = Head(inputs) /\ inputs' = Tail(inputs)
  /\ current' = 1
  /\ sentences' = <<>>
  /\ UNCHANGED <<model, window, pc, tokens, token_start>>

\* Mutant: the window of the last text is kept.
NotReset == UNCHANGED window
Reset ==
  IF current = 1 THEN network_index' = 1 /\ network_length' = 0 /\ UNCHANGED <<network_outcomes, network_offsets>>
  ELSE UNCHANGED window

NextSentence ==
  /\ pc = "idle" /\ current <= size
  /\ tokens' = <<>>
  /\ Reset
  /\ pc' = "spaces"
  /\ UNCHANGED <<model, inputs, chars, current, token_start, sentences>>
-----------------------------------------------------------------------------
(* next_outcome: the window that starts at the cursor                        *)

\* Where the items from one offset on start, and where the last one ends: spaces are joined.
Starts(from) == {k \in from..size + 1 : ~(k \in from + 1..size /\ is_space(k - 1) /\ is_space(k))}
Offsets(from) ==
  LET rank(k) == Cardinality(Starts(from) \cap (from..k))
  IN  [n \in 1..Min({Cardinality(Starts(from)), segment + 1}) |-> CHOOSE k \in Starts(from) : rank(k) = n]

Kind(offset) == IF is_space(offset) THEN "space" ELSE chars[offset]
Classified(offsets) ==
  LET possible == [k \in 1..Len(offsets) - 1 |-> classify[Kind(offsets[k])]]
      open == {k \in DOMAIN possible : Cardinality(possible[k]) > 1}
      choices == {c \in [open -> UNION Range(classify)] : \A k \in open : c[k] \in possible[k]}
  IN  {[k \in DOMAIN possible |-> IF k \in open THEN c[k] ELSE CHOOSE o \in possible[k] : TRUE] : c \in choices}

\* An empty line among the characters from one offset up to the next.
Paragraph(from, to) ==
  \E j \in from..to - 2 :
    \/ chars[j] = "LF" /\ chars[j + 1] = "LF"
    \/ j + 3 < to /\ SubSeq(chars, j, j + 3) = <<"CR", "LF", "CR", "LF">>

\* A sentence ends before these spaces: by their own outcome, with the text, or at an empty line.
EndsSentence(outcomes, offsets, k) ==
  \/ outcomes[k + 1] = END_OF_SENTENCE
  \/ k + 1 = Len(outcomes)
  \/ Paragraph(offsets[k + 1], offsets[k + 2])
ForcedToken(outcomes, k) == outcomes[k] = NO_SPLIT /\ (~allow_spaces \/ outcomes[k + 1] = END_OF_TOKEN)

\* Mutant: the end of a token is decided before the end of a sentence.
TokensFirst(outcomes, offsets) ==
  [k \in DOMAIN outcomes |->
     IF k = Len(outcomes) \/ ~is_space(offsets[k + 1]) THEN outcomes[k]
     ELSE IF ForcedToken(outcomes, k) THEN END_OF_TOKEN
     ELSE IF EndsSentence(outcomes, offsets, k) THEN END_OF_SENTENCE
     ELSE outcomes[k]]
\* "Add spacing token/sentence breaks" to the characters in front of spaces.
Spaced(outcomes, offsets) ==
  [k \in DOMAIN outcomes |->
     IF k = Len(outcomes) \/ ~is_space(offsets[k + 1]) THEN outcomes[k]
     ELSE IF EndsSentence(outcomes, offsets, k) THEN END_OF_SENTENCE
     ELSE IF ForcedToken(outcomes, k) THEN END_OF_TOKEN
     ELSE outcomes[k]]

\* Mutant: the whole window is used, although nothing is known of what follows it.
Uncut(outcomes) == Len(outcomes)
\* "Adjust network_length to suitable break": a full window is used up to its second half.
Cut(outcomes) ==
  IF Len(outcomes) < segment THEN Len(outcomes)
  ELSE Max({segment \div 2} \cup {n \in segment \div 2..segment - 6 : outcomes[n + 1] # NO_SPLIT})

\* The window is computed if the last one is used up; the cursor goes to the next item of it.
next_outcome ==
  \/ /\ network_index <= network_length
     /\ network_index' = network_index + 1
     /\ UNCHANGED <<network_length, network_outcomes, network_offsets>>
     /\ current' = network_offsets[network_index + 1]
  \/ /\ network_index > network_length
     /\ network_offsets' = Offsets(current)
     /\ \E outcomes \in Classified(network_offsets') : network_outcomes' = Spaced(outcomes, network_offsets')
     /\ network_length' = Cut(network_outcomes')
     /\ network_index' = 2
     /\ current' = network_offsets'[2]
outcome == network_outcomes'[network_index' - 1]
-----------------------------------------------------------------------------
(* next_sentence                                                             *)

emergency_sentence_split(ts) ==
  \/ Len(ts) >= sentence_limit
  \/ Len(ts) >= sentence_limit_P /\ chars[Last(ts).start] \in {"P", "Po"}
  \/ Len(ts) >= sentence_limit_Po /\ chars[Last(ts).start] = "Po"

\* Another turn of the loop, or the sentence is returned.
Goto(eos, ts) ==
  /\ tokens' = ts
  /\ IF eos \/ emergency_sentence_split(ts)
     THEN pc' = "idle" /\ sentences' = Append(sentences, ts)
     ELSE pc' = "spaces" /\ UNCHANGED sentences

SkipSpaces ==
  /\ pc = "spaces" /\ current <= size /\ is_space(current)
  /\ next_outcome
  /\ pc' = IF outcome = END_OF_SENTENCE /\ tokens # <<>> THEN "begin" ELSE "spaces"
  /\ UNCHANGED <<model, inputs, chars, tokens, token_start, sentences>>

AtToken == pc = "begin" \/ (pc = "spaces" /\ (current <= size => ~is_space(current)))

\* The text ends; what it has after the last sentence is returned if it has a token.
EndText ==
  /\ AtToken /\ current > size
  /\ pc' = "idle"
  /\ sentences' = IF tokens = <<>> THEN sentences ELSE Append(sentences, tokens)
  /\ UNCHANGED <<model, inputs, chars, current, window, tokens, token_start>>

\* tokenize_url_email: the end of the address at the cursor, or the cursor itself.
EndOfAddress ==
  LET end == Min({k \in current..size + 1 : k > size \/ chars[k] # "address"})
  IN  IF end - current >= address_length THEN end ELSE current

\* Mutant: the outcomes of the address are not skipped.
NotCaughtUp(end) == network_index
\* Where the outcomes go on behind an address.
CaughtUp(end) ==
  Min({network_length + 1} \cup {k \in network_index..network_length : network_offsets[k] >= end})

TokenizeAddress ==
  /\ AtToken /\ current <= size /\ EndOfAddress > current
  /\ current' = EndOfAddress
  /\ network_index' = CaughtUp(EndOfAddress)
  /\ Goto(\E k \in network_index..network_index' - 1 : network_outcomes[k] = END_OF_SENTENCE,
          Append(tokens, token(current, EndOfAddress)))
  /\ UNCHANGED <<model, inputs, chars, network_length, network_outcomes, network_offsets, token_start>>

BeginToken ==
  /\ AtToken /\ current <= size /\ EndOfAddress = current
  /\ token_start' = current
  /\ pc' = "slurp"
  /\ UNCHANGED <<model, inputs, chars, current, window, tokens, sentences>>

SlurpToken ==
  /\ pc = "slurp"
  /\ next_outcome
  /\ IF outcome = NO_SPLIT /\ current' <= size THEN UNCHANGED <<pc, tokens, sentences>>
     ELSE Goto(outcome = END_OF_SENTENCE, Append(tokens, token(token_start, current')))
  /\ UNCHANGED <<model, inputs, chars, token_start>>

Next ==
  \/ SetText \/ NextSentence \/ SkipSpaces \/ EndText
  \/ TokenizeAddress \/ BeginToken \/ SlurpToken
Spec == Init /\ [][Next]_vars
-----------------------------------------------------------------------------
\* Whenever an outcome of the window is used next, it is that of the item at the cursor:
\* addresses, cut windows and another text keep the two together.
CursorInWindow ==
  pc # "idle" /\ network_index <= network_length => network_offsets[network_index] = current

Behind(t) == t.start + t.length
OnlySpaces(from, to) == from <= to /\ \A at \in from..to - 1 : is_space(at)
Found == IF pc = "idle" \/ tokens = <<>> THEN sentences ELSE Append(sentences, tokens)
Reached == IF pc = "slurp" THEN token_start ELSE current

\* The tokens follow each other, and between them, also across sentences, and from the last one
\* to the place reached there are only spaces. No sentence and no token is empty. Unless the
\* model allows it, no token contains a space.
Covers(found, reached) ==
  LET starts(s) == IF s > Len(found) THEN reached ELSE found[s][1].start
      ends(s) == IF s = 0 THEN 1 ELSE Behind(Last(found[s]))
  IN  /\ \A s \in DOMAIN found : found[s] # <<>>
      /\ \A s \in 0..Len(found) : OnlySpaces(ends(s), starts(s + 1))
      /\ \A s \in DOMAIN found : \A k \in 1..Len(found[s]) - 1 : OnlySpaces(Behind(found[s][k]), found[s][k + 1].start)
      /\ \A s \in DOMAIN found : \A t \in ToSet(found[s]) :
           t.length > 0 /\ (~allow_spaces => \A at \in t.start..Behind(t) - 1 : ~is_space(at))

\* Nothing of the text is lost or returned twice, wherever the windows are cut.
TokensCoverText == Covers(Found, Reached)

\* "Detect EOS on the following space or \n\n or \r\n\r\n": a sentence goes on behind an empty
\* line only if an address is in front of it, whose outcomes may belong to two windows.
IsAddress(t) == chars[t.start] = "address" /\ t.length >= address_length
EndsAtParagraph(sentence) ==
  \A k \in 1..Len(sentence) - 1 :
    Paragraph(Behind(sentence[k]), sentence[k + 1].start) => IsAddress(sentence[k])
ParagraphsEndSentences == \A s \in DOMAIN sentences : EndsAtParagraph(sentences[s])
=============================================================================
