-------------------------- MODULE MCServiceResponse --------------------------
(* Small instances of ServiceResponse for TLC. *)
EXTENDS ServiceResponse

Word(space, form, analyses) == [space |-> space, form |-> form, analyses |-> analyses]
Methods == {"tag", "analyze", "tokenize"}
Modes == {"JSON", "XML", "VERTICAL"}

Request(method, mode, acknowledged, sentences, rest) ==
  [method |-> method, mode |-> mode, acknowledged |-> acknowledged, sentences |-> sentences, rest |-> rest]

Short == <<Word(<<>>, <<"a">>, 0)>>
Spaced == <<Word(<<"_">>, <<"b">>, 1), Word(<<"_">>, <<"a", "b">>, 2), Word(<<>>, <<"a">>, 1)>>
Texts == {<<Short>>, <<Spaced>>, <<Short, Spaced>>, <<Spaced, Short>>, <<Short, <<>>, Spaced>>}

\* Texts that begin with a sentence; only JSON is asked for without any.
Ordinary ==
  {Request(m, o, FALSE, s, r) : m \in Methods, o \in Modes, s \in Texts, r \in {<<>>, <<"_">>}}
  \cup {Request(m, "JSON", TRUE, <<>>, r) : m \in Methods, r \in {<<>>, <<"_">>}}
  \cup {Request("generate", o, FALSE, s, <<>>) : o \in {"JSON", "VERTICAL"}, s \in Texts \cup {<<<<>>, Short>>}}

\* A vertical input may begin with an empty line.
EmptyLine == {Request("tag", "JSON", FALSE, <<<<>>, <<Word(<<"_">>, <<"a">>, 1)>>>>, <<"_">>)}
=============================================================================
