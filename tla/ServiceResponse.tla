--------------------------- MODULE ServiceResponse ---------------------------
(***************************************************************************)
(* How the REST service produces a response while it is being sent: the    *)
(* generators of rest_server/morphodita_service.cpp, which extend a JSON   *)
(* document sentence by sentence, and generator_callback of                *)
(* rest_server.cpp, which libmicrohttpd calls for the next piece.          *)
(* Texts, lemmas and tags are short sequences of tokens; what tagger,      *)
(* morphology and tokenizer answer is part of the request.                 *)
(***************************************************************************)
EXTENDS JsonBuilder

CONSTANTS
  Requests,       \* [method, mode, acknowledged, sentences, rest]
  MinGenerated,   \* values of set_min_generated
  BufferSizes     \* how much libmicrohttpd asks for

\* With min_generated 0 nothing would ever be generated.
ASSUME GeneratedAssumption == MinGenerated \subseteq Nat \ {0} /\ BufferSizes \subseteq Nat \ {0}

\* What a text is made of: encoded pieces of strings, among which there is no quote.
Pieces == STRING \ {"\""}
\* Spaces come before forms; generate is asked for lemmas and gives no XML.
Token == [space : Seq(Pieces), form : Seq(Pieces), analyses : Nat]
ASSUME RequestsAssumption ==
  Requests \subseteq
    [method : {"tag", "analyze", "tokenize", "generate"}, mode : {"JSON", "XML", "VERTICAL"}, acknowledged : BOOLEAN,
     sentences : Seq(Seq(Token)), rest : Seq(Pieces)]

VARIABLES
  request, min_generated,
  json,                            \* the builder
  first, last, position,           \* the generator, and how many sentences it has taken
  generator_offset, generator_end, \* microhttpd_request
  pc, buffer,                      \* a call of generator_callback and its max
  sent,                            \* what libmicrohttpd was given
  whole,                           \* auxiliary: the builder if nothing were discarded
  reader                           \* auxiliary: a client that reads JSON as it arrives

arguments == <<request, min_generated>>
generator == <<json, first, last, position>>
vars == <<arguments, generator, generator_offset, generator_end, pc, buffer, sent, whole, reader>>
-----------------------------------------------------------------------------
(* The operations on the builder. *)

Object == [do |-> "object", text |-> <<>>]
Array == [do |-> "array", text |-> <<>>]
Indent == [do |-> "indent", text |-> <<>>]
Close == [do |-> "close", text |-> <<>>]
Finish == [do |-> "finish", text |-> <<>>]
Key(name) == [do |-> "key", text |-> <<name>>]
Value(text) == [do |-> "value", text |-> text]
More(text) == [do |-> "append", text |-> text]   \* value(text, true)
\* The set binds c to a value: TLC then evaluates each builder before it is used.
Done(b, script) ==
  LET done[k \in 0..Len(script)] ==
        IF k = 0 THEN b ELSE CHOOSE d \in {Do(c, script[k]) : c \in {done[k - 1]}} : TRUE
  IN  done[Len(script)]

Optional(condition, script) == IF condition THEN script ELSE <<>>

\* rest_response_generator
Header(r) ==
  <<Object, Indent, Key("model"), Indent, Value(<<"id">>), Indent, Key("acknowledgements"), Indent, Array,
    Indent, Value(<<"url">>)>>
  \o Optional(r.acknowledged, <<Indent, Value(<<"model-url">>)>>)
  \o <<Indent, Close, Indent, Key("result"), Indent>>
  \o Optional(r.mode = "JSON", <<Array>>)

\* A form of a sentence: [space, form, analyses], the space before it and how many analyses it has.
Analysis == <<Object, Key("lemma"), Value(<<"l">>), Key("tag"), Value(<<"t">>), Close>>

JsonAnalyses(r, token) ==
  CASE r.method = "tag" -> <<Key("lemma"), Value(<<"l">>), Key("tag"), Value(<<"t">>)>>
    [] r.method = "analyze" -> <<Key("analyses"), Array>> \o FlattenSeq([k \in 1..token.analyses |-> Analysis]) \o <<Close>>
    [] OTHER -> <<>>

\* Mutant: the object of the last token is closed, but not its sentence.
SentenceLeftOpen(r, token, i, is_first) ==
  Optional((i > 1 \/ ~is_first) /\ token.space # <<>>, <<Key("space"), Value(token.space)>>)
  \o Optional(i > 1 \/ ~is_first, <<Close>>)
  \o Optional(i = 1, <<Array>>)
  \o <<Object, Key("token"), Value(token.form)>> \o JsonAnalyses(r, token)
\* Mutant: the object of the token before is never closed.
ObjectLeftOpen(r, token, i, is_first) ==
  Optional((i > 1 \/ ~is_first) /\ token.space # <<>>, <<Key("space"), Value(token.space)>>)
  \o Optional(i = 1 /\ ~is_first, <<Close>>)
  \o Optional(i = 1, <<Array>>)
  \o <<Object, Key("token"), Value(token.form)>> \o JsonAnalyses(r, token)
\* Mutant: the space between two sentences is left out.
SpaceInside(r, token, i, is_first) ==
  Optional(i > 1 /\ token.space # <<>>, <<Key("space"), Value(token.space)>>)
  \o Optional(i > 1 \/ ~is_first, <<Close>>)
  \o Optional(i = 1 /\ ~is_first, <<Close>>)
  \o Optional(i = 1, <<Array>>)
  \o <<Object, Key("token"), Value(token.form)>> \o JsonAnalyses(r, token)

\* The space belongs to the object of the token before it, which is still open.
JsonToken(r, token, i, is_first) ==
  Optional((i > 1 \/ ~is_first) /\ token.space # <<>>, <<Key("space"), Value(token.space)>>)
  \o Optional(i > 1 \/ ~is_first, <<Close>>)
  \o Optional(i = 1 /\ ~is_first, <<Close>>)
  \o Optional(i = 1, <<Array>>)
  \o <<Object, Key("token"), Value(token.form)>> \o JsonAnalyses(r, token)

XmlAnalyses(r, token) ==
  CASE r.method = "tag" -> <<More(<<"<token lemma=", "l", "tag=", "t", ">">>)>>
    [] r.method = "analyze" -> <<More(<<"<token>">>)>>
         \o FlattenSeq([k \in 1..token.analyses |-> <<More(<<"<analysis lemma=", "l", "tag=", "t", "/>">>)>>])
    [] OTHER -> <<More(<<"<token>">>)>>

XmlToken(r, token, i) ==
  Optional(token.space # <<>>, <<More(token.space)>>)
  \o Optional(i = 1, <<More(<<"<sentence>">>)>>)
  \o XmlAnalyses(r, token) \o <<More(token.form), More(<<"</token>">>)>>

VerticalToken(r, token) ==
  <<More(token.form)>>
  \o FlattenSeq([k \in 1..(IF r.method = "tokenize" THEN 0 ELSE IF r.method = "tag" THEN 1 ELSE token.analyses) |->
                   <<More(<<"\\t", "l", "\\t", "t">>)>>])
  \o <<More(<<"\\n">>)>>

\* next, when there is a sentence
Sentence(r, sentence, is_first) ==
  CASE r.mode = "JSON" -> FlattenSeq([i \in DOMAIN sentence |-> JsonToken(r, sentence[i], i, is_first)])
    [] r.mode = "XML" -> FlattenSeq([i \in DOMAIN sentence |-> XmlToken(r, sentence[i], i)]) \o <<More(<<"</sentence>">>)>>
    [] r.mode = "VERTICAL" -> FlattenSeq([i \in DOMAIN sentence |-> VerticalToken(r, sentence[i])]) \o <<More(<<"\\n">>)>>

\* next of the method generate: a line and the forms generated for it
Form(r, token, i) ==
  IF r.mode = "JSON" THEN <<Object, Key("form"), Value(token.form)>> \o Tail(Analysis)
  ELSE Optional(i > 1, <<More(<<"\\t">>)>>) \o <<More(token.form), More(<<"\\t", "l", "\\t", "t">>)>>
Line(r, line) ==
  LET forms == FlattenSeq([i \in DOMAIN line |-> Form(r, line[i], i)]) IN
  IF r.mode = "JSON" THEN <<Array>> \o forms \o <<Close>> ELSE forms \o <<More(<<"\\n">>)>>

\* next, when the text is used up except for the spaces at its end
NoSentence(r, is_first) ==
  IF r.method = "generate" THEN <<>>
  ELSE Optional(r.mode = "XML" /\ r.rest # <<>>, <<More(r.rest)>>)
       \o Optional(r.mode = "JSON" /\ ~is_first /\ r.rest # <<>>, <<Key("space"), Value(r.rest)>>)
       \o Optional(r.mode = "JSON" /\ ~is_first, <<Close, Close>>)

\* What the n-th call of generate adds.
Script(r, n, is_first) ==
  IF n <= Len(r.sentences)
  THEN IF r.method = "generate" THEN Line(r, r.sentences[n]) ELSE Sentence(r, r.sentences[n], is_first)
  ELSE NoSentence(r, is_first) \o Optional(r.mode = "JSON", <<Close>>) \o <<Finish>>
-----------------------------------------------------------------------------
Init ==
  /\ request \in Requests /\ min_generated \in MinGenerated
  /\ json = Done(Clear, Header(request))
  /\ first = TRUE /\ last = FALSE /\ position = 0
  /\ generator_offset = 0 /\ generator_end = FALSE
  /\ pc = "idle" /\ buffer = 0
  /\ sent = <<>>
  /\ whole = json
  /\ reader = Reader

Least(m, n) == IF m < n THEN m ELSE n
minimum == Least(min_generated, buffer)
unsent == Len(json.json) - generator_offset

\* libmicrohttpd asks for at most max bytes.
Callback(max) ==
  /\ pc = "idle"
  /\ pc' = "filling" /\ buffer' = max
  /\ UNCHANGED <<arguments, generator, generator_offset, generator_end, sent, whole, reader>>

\* generator_end = !generate()
Generate ==
  /\ pc = "filling" /\ unsent < minimum /\ ~generator_end
  /\ IF last
     THEN generator_end' = TRUE /\ UNCHANGED <<generator, whole>>
     ELSE /\ json' = Done(json, Script(request, position + 1, first))
          /\ whole' = Done(whole, Script(request, position + 1, first))
          /\ last' = (position = Len(request.sentences))
          /\ position' = IF last' THEN position ELSE position + 1
          /\ first' = FALSE
          /\ UNCHANGED generator_end
  /\ UNCHANGED <<arguments, generator_offset, pc, buffer, sent, reader>>

Filled == pc = "filling" /\ (unsent >= minimum \/ generator_end)

\* Mutant: the offset stays when the generator discards what was sent.
OffsetKept ==
  /\ Filled /\ unsent > 0
  /\ LET data_len == Least(unsent, buffer)
         offset == generator_offset + data_len
         piece == SubSeq(json.json, generator_offset + 1, offset)
     IN  /\ sent' = sent \o piece
         /\ reader' = Read(reader, piece)
         /\ json' = IF unsent - data_len < minimum THEN discard_current_prefix(json, offset) ELSE json
         /\ generator_offset' = offset
  /\ pc' = "idle"
  /\ UNCHANGED <<arguments, first, last, position, generator_end, buffer, whole>>

\* A piece is copied; once little is left the generator discards what was sent.
Deliver ==
  /\ Filled /\ unsent > 0
  /\ LET data_len == Least(unsent, buffer)
         offset == generator_offset + data_len
         consumed == unsent - data_len < minimum
         piece == SubSeq(json.json, generator_offset + 1, offset)
     IN  /\ sent' = sent \o piece
         /\ reader' = Read(reader, piece)
         /\ json' = IF consumed THEN discard_current_prefix(json, offset) ELSE json
         /\ generator_offset' = IF consumed THEN 0 ELSE offset
  /\ pc' = "idle"
  /\ UNCHANGED <<arguments, first, last, position, generator_end, buffer, whole>>

\* Mutant: no data are answered by 0, which only means that there are none yet.
NoDataYet ==
  /\ Filled /\ unsent <= 0
  /\ pc' = "idle"
  /\ UNCHANGED <<arguments, generator, generator_offset, generator_end, buffer, sent, whole, reader>>

\* MHD_CONTENT_READER_END_OF_STREAM
EndOfStream ==
  /\ Filled /\ unsent <= 0
  /\ pc' = "ended"
  /\ UNCHANGED <<arguments, generator, generator_offset, generator_end, buffer, sent, whole, reader>>

Next == Generate \/ Deliver \/ EndOfStream \/ \E max \in BufferSizes : Callback(max)
Spec == Init /\ [][Next]_vars

\* libmicrohttpd asks for more until the end, while its client takes what is sent.
FairSpec == Spec /\ ([]<>(pc = "ended") \/ []<><<Next>>_vars)
-----------------------------------------------------------------------------
\* The tokens of a text that are, or are not, among the given ones.
Selected(text, tokens, among) ==
  LET selected[k \in 0..Len(text)] ==
        IF k = 0 THEN <<>>
        ELSE IF (text[k] \in tokens) = among THEN Append(selected[k - 1], text[k]) ELSE selected[k - 1]
  IN  selected[Len(text)]
Content(text) == Selected(text, Whitespace, FALSE)

\* The response is the document that the builder would make if nothing were discarded, up
\* to its layout, however it is cut into pieces and discarded behind them: the pieces
\* follow one another in it without a gap or a repetition, and it ends where it ends.
Stream == INSTANCE ResponseStream WITH
  document <- Content(whole.json),
  sent <- Content(sent),
  state <- IF pc = "ended" THEN "ended" ELSE IF last THEN "complete" ELSE "open"
ImplementsStream == Stream!Spec

\* A whole response is one JSON value, as its MIME type says.
WellFormedJson == pc = "ended" => reader.want = "end"

\* In JSON and XML the forms and the spaces of a response are the text, in order and complete,
\* except that JSON has no place for the space before the first form.
TextTokens == {"a", "b", "_"}
SentenceText(sentence) == FlattenSeq([k \in DOMAIN sentence |-> sentence[k].space \o sentence[k].form])
Text(r) == FlattenSeq([k \in DOMAIN r.sentences |-> SentenceText(r.sentences[k])]) \o r.rest
\* The spaces that a text begins with: n tokens.
Leading(text, n) == (\A k \in 1..n : text[k] = "_") /\ (n < Len(text) => text[n + 1] # "_")
Keeps(r, kept) ==
  IF r.mode = "XML" THEN kept = Text(r)
  ELSE \E n \in 0..Len(Text(r)) : Leading(Text(r), n) /\ kept = SubSeq(Text(r), n + 1, Len(Text(r)))
TextIsKept ==
  pc = "ended" /\ request.method # "generate" /\ request.mode # "VERTICAL"
    => Keeps(request, Selected(sent, TextTokens, TRUE))

\* Between two calls of generate the document, its result, the last sentence and its last
\* token are open, and nothing else: no sentence becomes a part of another one.
OpenBetween(r) ==
  IF r.mode # "JSON" THEN <<"}">> ELSE IF r.method = "generate" THEN <<"}", "]">> ELSE <<"}", "]", "]", "}">>
SentencesApart == position > 0 /\ ~last => whole.stack = OpenBetween(request)

\* Sentences are kept: their text, and their bounds.
SentencesKept == TextIsKept /\ SentencesApart

\* The end of every response is reached.
ResponseEnds == <>(pc = "ended")
=============================================================================
