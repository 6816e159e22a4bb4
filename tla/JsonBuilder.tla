---------------------------- MODULE JsonBuilder ----------------------------
(***************************************************************************)
(* rest_server/microrestd/rest_server/json_builder.h: a JSON document made *)
(* by a sequence of operations, while its beginning may be discarded.  A   *)
(* builder is a record; the text is a sequence of tokens, one for each     *)
(* character outside of strings and one for each encoded piece of a string.*)
(***************************************************************************)
EXTENDS Integers, Sequences, SequencesExt

Whitespace == {" ", "\n"}

Clear == [json |-> <<>>, stack |-> <<>>, mode |-> "NORMAL", need_indent |-> FALSE]

Push(b, text) == [b EXCEPT !.json = @ \o text]
-----------------------------------------------------------------------------
(* normalize_mode: the string that is open ends, a comma follows a value,  *)
(* and the indentation that was asked for comes.                           *)

QuoteClosed(b) == IF b.mode = "IN_VALUE" THEN [Push(b, <<"\"">>) EXCEPT !.mode = "AFTER_VALUE"] ELSE b

\* Mutant: the comma is decided from the end of the buffer.
SeparatedByText(b) ==
  IF b.json # <<>> /\ Last(b.json) \notin {"{", "[", ":", ","} THEN [Push(b, <<",">>) EXCEPT !.mode = "NORMAL"] ELSE b

Separated(b) == IF b.mode = "AFTER_VALUE" THEN [Push(b, <<",">>) EXCEPT !.mode = "NORMAL"] ELSE b

Indented(b) ==
  IF ~b.need_indent THEN b
  ELSE [Push(b, IF b.json # <<>> /\ Last(b.json) = ":" THEN <<" ">> ELSE <<"\n">> \o [k \in DOMAIN b.stack |-> " "])
        EXCEPT !.need_indent = FALSE]

normalize_mode(b, start_value) ==
  LET closed == QuoteClosed(b) IN Indented(IF start_value THEN Separated(closed) ELSE closed)
-----------------------------------------------------------------------------
(* The operations; texts are encoded. *)

Opened(b, open, close) == [Push(normalize_mode(b, TRUE), <<open>>) EXCEPT !.stack = Append(@, close)]
KeyAdded(b, str) == Push(normalize_mode(b, TRUE), <<"\"">> \o str \o <<"\"", ":">>)
ValueStarted(b) == [Push(normalize_mode(b, TRUE), <<"\"">>) EXCEPT !.mode = "IN_VALUE"]
ValueAdded(b, str) == Push(ValueStarted(b), str)
ValueAppended(b, str) == Push(IF b.mode = "IN_VALUE" THEN b ELSE ValueStarted(b), str)
IndentAsked(b) == IF b.need_indent THEN b ELSE [normalize_mode(b, FALSE) EXCEPT !.need_indent = TRUE]

\* close: the innermost object or array leaves the stack before its end is indented.
Closed(b) ==
  IF b.stack = <<>> THEN b
  ELSE [Push(normalize_mode([b EXCEPT !.stack = Front(@)], FALSE), <<Last(b.stack)>>) EXCEPT !.mode = "AFTER_VALUE"]

\* The set binds c to a value: TLC then evaluates each builder before it is used.
Finished(b) ==
  LET closing[k \in 0..Len(b.stack)] ==
        IF k = 0 THEN b ELSE CHOOSE d \in {Closed(IndentAsked(c)) : c \in {closing[k - 1]}} : TRUE
      closed == closing[Len(b.stack)]
  IN  IF closed.json # <<>> /\ Last(closed.json) # "\n" THEN Push(closed, <<"\n">>) ELSE closed

\* An operation is [do, text].
Do(b, op) ==
  CASE op.do = "object" -> Opened(b, "{", "}")
    [] op.do = "array" -> Opened(b, "[", "]")
    [] op.do = "key" -> KeyAdded(b, op.text)
    [] op.do = "value" -> ValueAdded(b, op.text)
    [] op.do = "append" -> ValueAppended(b, op.text)
    [] op.do = "indent" -> IndentAsked(b)
    [] op.do = "close" -> Closed(b)
    [] op.do = "finish" -> Finished(b)

discard_current_prefix(b, length) == [b EXCEPT !.json = SubSeq(@, length + 1, Len(@))]
-----------------------------------------------------------------------------
(* The grammar of JSON, to compare with: a reader that knows what it is in *)
(* and what it wants.  Tokens of strings are never quotes.                 *)

Reader == [stack |-> <<>>, want |-> "value", string |-> "none"]

WithValue(p) == [p EXCEPT !.want = IF p.stack = <<>> THEN "end" ELSE "next"]
Inside(p, bracket) == p.stack # <<>> /\ Last(p.stack) = bracket

ReadStructure(p, token) ==
  CASE token \in Whitespace -> p
    [] token = "\"" /\ p.want \in {"value", "first value"} -> [p EXCEPT !.string = "value"]
    [] token = "\"" /\ p.want \in {"key", "first key"} -> [p EXCEPT !.string = "key"]
    [] token = "{" /\ p.want \in {"value", "first value"} -> [p EXCEPT !.stack = Append(@, "{"), !.want = "first key"]
    [] token = "[" /\ p.want \in {"value", "first value"} -> [p EXCEPT !.stack = Append(@, "["), !.want = "first value"]
    [] token = "}" /\ p.want \in {"next", "first key"} /\ Inside(p, "{") -> WithValue([p EXCEPT !.stack = Front(@)])
    [] token = "]" /\ p.want \in {"next", "first value"} /\ Inside(p, "[") -> WithValue([p EXCEPT !.stack = Front(@)])
    [] token = "," /\ p.want = "next" -> [p EXCEPT !.want = IF Inside(p, "{") THEN "key" ELSE "value"]
    [] token = ":" /\ p.want = "colon" -> [p EXCEPT !.want = "value"]
    [] OTHER -> [p EXCEPT !.want = "error"]

ReadToken(p, token) ==
  IF p.string = "none" THEN ReadStructure(p, token)
  ELSE IF token # "\"" THEN p
  ELSE LET q == [p EXCEPT !.string = "none"] IN IF p.string = "key" THEN [q EXCEPT !.want = "colon"] ELSE WithValue(q)

Read(p, text) == LET read[k \in 0..Len(text)] == IF k = 0 THEN p ELSE ReadToken(read[k - 1], text[k]) IN read[Len(text)]
=============================================================================
