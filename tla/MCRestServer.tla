---------------------------- MODULE MCRestServer ----------------------------
(* Small instances of RestServer for TLC. *)
EXTENDS RestServer

CONSTANTS c1, c2

Key(key, encoding) == [key |-> key, encoding |-> encoding, kind |-> "key", data |-> "="]
Data(byte) == [key |-> "none", encoding |-> "none", kind |-> "data", data |-> byte]
End == [key |-> "none", encoding |-> "none", kind |-> "end", data |-> "&"]
Bytes(text) == [k \in DOMAIN text |-> Data(text[k])]
Field(key, encoding, value) == <<Key(key, encoding)>> \o Bytes(value)

Request(method, form, get, upload) == [method |-> method, form |-> form, get |-> get, upload |-> upload]
Argument(value) == [key |-> "data", value |-> value]
Character == <<"first", "second">>
Half == <<"first">>

\* Arguments that repeat, are empty, continue over a cut, or are no UTF-8, in the key or in the
\* value; bodies at the limit and above; a part with an encoding that is not supported; a
\* wrong method.
Mixed ==
  {Request("GET", FALSE, <<Argument(<<"b">>), Argument(<<"a">>)>>, <<>>),
   Request("GET", FALSE, <<Argument(Half)>>, <<>>),
   Request("POST", TRUE, <<>>, Field("half", "none", <<"a">>)),
   Request("OPTIONS", FALSE, <<>>, <<>>),
   Request("POST", TRUE, <<Argument(<<"b">>)>>, Field("data", "none", Character)),
   Request("POST", TRUE, <<Argument(Half)>>, Field("data", "none", <<>>)),
   Request("POST", TRUE, <<>>, Field("data", "none", <<"a">>) \o <<End>> \o Field("data", "none", <<"b">>)),
   Request("POST", TRUE, <<>>, Field("data", "8bit", Character) \o <<End>> \o Field("model", "none", Half)),
   Request("POST", TRUE, <<>>, Field("data", "base64", <<"a">>) \o <<End>>)}
  \cup {Request("PUT", FALSE, <<>>, Bytes([k \in 1..n |-> "a"])) : n \in 4..5}
=============================================================================
