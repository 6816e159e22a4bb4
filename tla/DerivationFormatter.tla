-------------------------- MODULE DerivationFormatter ------------------------
(***************************************************************************)
(* derivator/derivation_formatter.cpp: the lemmas of some analyses are     *)
(* replaced by their roots, by the paths to their roots or by their whole  *)
(* trees, as far as the loaded derivator knows them, and converted on the  *)
(* way.  A formatted lemma is one text, with spaces in it.                 *)
(***************************************************************************)
EXTENDS DerivatorDictionary, TagsetConverter

CONSTANTS
  Requests,      \* [formatter, converter, analyses] that are formatted
  Space

VARIABLES
  request,
  results,       \* the analyses that are formatted
  current,       \* the lemma whose parent is asked for
  text,          \* what is written so far in place of the lemma
  stack          \* of format_tree: the lemmas still to come, and the ends of their children

formatting == <<request, results, current, text, stack>>
vars == <<encoder, dictionary, formatting>>

NoLemma == <<>>
Close == <<>>

FormatterInit ==
  /\ Init
  /\ request = [formatter |-> "none", converter |-> "identity", analyses |-> <<>>]
  /\ results = <<>> /\ current = NoLemma /\ text = <<>> /\ stack = <<>>

Given == request.analyses[Len(results) + 1]
Converted(lemma_text) == convert(request.converter, [lemma |-> lemma_text, tag |-> Given.tag])

Ask ==
  /\ phase = "loaded"
  /\ request' \in Requests
  /\ phase' = IF request'.formatter = "none" THEN "none" ELSE "format"
  /\ UNCHANGED <<lines, morpho, row, derinet, todo, mark, node, contains_cycle, dictionary, results, current, text, stack>>

Goto(to) == phase' = to /\ UNCHANGED <<lines, morpho, row, derinet, todo, mark, node, contains_cycle, dictionary, request>>

FormatNone ==
  /\ phase = "none"
  /\ results' = convert_analyzed(request.converter, request.analyses)
  /\ Goto("formatted") /\ UNCHANGED <<current, text, stack>>

Begin ==
  /\ phase = "format" /\ Len(results) < Len(request.analyses)
  /\ current' = Given.lemma
  /\ text' = IF request.formatter = "root" THEN <<>> ELSE Converted(Given.lemma).lemma
  /\ Goto("climb") /\ UNCHANGED <<results, stack>>

\* Mutant: what is looked up next is the converted parent.
ClimbConverted ==
  /\ phase = "climb"
  /\ \E p \in ParentOf(current) :
       /\ current' = Converted(p).lemma
       /\ text' = IF request.formatter = "path" THEN text \o <<Space>> \o Converted(p).lemma ELSE text
  /\ Goto("climb") /\ UNCHANGED <<results, stack>>

Climb ==
  /\ phase = "climb"
  /\ \E p \in ParentOf(current) :
       /\ current' = p
       /\ text' = IF request.formatter = "path" THEN text \o <<Space>> \o Converted(p).lemma ELSE text
  /\ Goto("climb") /\ UNCHANGED <<results, stack>>

Result(lemma_text) == results' = Append(results, [lemma |-> lemma_text, tag |-> Converted(Given.lemma).tag])

\* The Sem feature of a converted tag comes from the lemma that is converted with it.
AtRoot ==
  /\ phase = "climb" /\ ParentOf(current) = {}
  /\ CASE request.formatter = "root" -> results' = Append(results, Converted(current)) /\ Goto("format") /\ UNCHANGED stack
       [] request.formatter = "path" -> Result(text) /\ Goto("format") /\ UNCHANGED stack
       [] request.formatter = "tree" -> stack' = <<current>> /\ Goto("tree") /\ UNCHANGED results
  /\ UNCHANGED <<current, text>>

\* format_tree: a lemma with its children, or the space behind the last one.
FormatTree ==
  /\ phase = "tree" /\ stack # <<>>
  /\ LET top == Head(stack) IN
     IF top = Close THEN text' = Append(text, Space) /\ stack' = Tail(stack)
     ELSE /\ text' = text \o <<Space>> \o Converted(top).lemma
          /\ stack' = ChildrenOf(top) \o <<Close>> \o Tail(stack)
  /\ Goto("tree") /\ UNCHANGED <<results, current>>

EndTree ==
  /\ phase = "tree" /\ stack = <<>>
  /\ Result(text)
  /\ Goto("format") /\ UNCHANGED <<current, text, stack>>

\* format_tagged_lemmas: equal results are merged.
EndFormat ==
  /\ phase = "format" /\ Len(results) = Len(request.analyses)
  /\ results' = IF Len(results) > 1 THEN unique_analyzed(results) ELSE results
  /\ Goto("formatted") /\ UNCHANGED <<current, text, stack>>

FormatterNext ==
  \/ Next /\ UNCHANGED formatting
  \/ Ask \/ FormatNone \/ Begin \/ Climb \/ AtRoot \/ FormatTree \/ EndTree \/ EndFormat
Spec == FormatterInit /\ [][FormatterNext]_vars /\ WF_vars(FormatterNext)
-----------------------------------------------------------------------------
(* What the documentation says of the formats, over the chosen parents. *)

RECURSIVE PathOf(_)
PathOf(l) ==
  IF Id(l) \in Nodes /\ parent[Id(l)] # NoParent THEN <<l>> \o PathOf(Full(parent[Id(l)])) ELSE <<l>>

Below(l) == Sorted({c \in Nodes : parent[c] = Id(l)})

RECURSIVE TreeOf(_, _)
TreeOf(l, tag) ==
  LET below == Below(l) IN
  convert(request.converter, [lemma |-> l, tag |-> tag]).lemma
    \o FlattenSeq([k \in DOMAIN below |-> <<Space>> \o TreeOf(Full(below[k]), tag)]) \o <<Space>>

\* The root replaces the lemma; the path lists the lemma and those above it, up to the root;
\* the tree is the root, then the trees of its children, each after a space, then a space.
\* All of it is written as the converter says, whatever the converter does to the lemmas
\* that are looked up.
Formatted(analysis) ==
  LET written(l) == convert(request.converter, [lemma |-> l, tag |-> analysis.tag])
      path == PathOf(analysis.lemma)
  IN  CASE request.formatter = "none" -> written(analysis.lemma)
        [] request.formatter = "root" -> written(Last(path))
        [] request.formatter = "path" ->
             [written(analysis.lemma) EXCEPT
                !.lemma = @ \o FlattenSeq([k \in 1..Len(path) - 1 |-> <<Space>> \o written(path[k + 1]).lemma])]
        [] request.formatter = "tree" ->
             [written(analysis.lemma) EXCEPT !.lemma = @ \o <<Space>> \o TreeOf(Last(path), analysis.tag)]

\* The formats are those of the documentation over the chosen parents, and no result is
\* there twice.
FormatsAsDocumented ==
  phase = "formatted" =>
    /\ Range(results) = {Formatted(a) : a \in Range(request.analyses)}
    /\ request.formatter # "none" => IsInjective(results)

\* The climb to the root and the walk through the tree end.
FormattingEnds == <>(phase \in {"failed", "formatted"})
=============================================================================
