----------------------------- MODULE Dictionary -----------------------------
(***************************************************************************)
(* The morphological dictionary: morpho_dictionary_encoder.h, which splits *)
(* the forms of every lemma into roots and classes of suffixes and writes  *)
(* each lemma and root as a change of the one before, and                  *)
(* morpho_dictionary.h, which reads them back in two passes into three     *)
(* hash maps that point at each other, and looks words up in both          *)
(* directions.  A raw lemma is its text and its addinfo; characters are    *)
(* numbers, as in the bytes of the code.                                   *)
(***************************************************************************)
EXTENDS PersistentMap, Texts, TagFilter

CONSTANTS
  Dictionaries,       \* sequences of [lemma, info, forms], forms a set of <<form, tag>>
  SuffixLengths,      \* values of max_suffix_len
  Wildcards           \* sequences of items, as TagFilter writes them

NotGeneratable == 120 \* in the addinfo: the comment _,x
AnyId == 255

VARIABLES
  raw, max_suffix_len,   \* the input of the encoder
  pc,                    \* "classes", "encode", "load", "loaded"
  position,              \* the lemma that is worked on
  unprocessed,           \* its forms that have no class yet
  lemma_infos,           \* lemmas with their roots
  class_list,            \* classes of the encoder by number, sets of <<suffix, tag>>
  stream,                \* the encoded lemmas
  pass, lemma,           \* of load: 1 or 2, and the buffer
  lemmas, roots, suffixes, classes \* the dictionary

encoder == <<unprocessed, lemma_infos, class_list>>
maps == <<lemmas, roots, suffixes, classes>>
vars == <<raw, max_suffix_len, pc, position, encoder, stream, pass, lemma, maps>>
-----------------------------------------------------------------------------
(* dictionary::load *)

Strings(forms) == {form[1] : form \in forms}

\* The trie of some strings; a node is the prefix that leads to it.
Nodes(strings) == UNION {Prefixes(s) : s \in strings}
Depth(strings, node) == Max({Len(s) : s \in {s \in strings : IsPrefix(node, s)}}) - Len(node)
Children(strings, node) == {n \in Nodes(strings) : Len(n) = Len(node) + 1 /\ IsPrefix(node, n)}

\* How many characters lead to a node since the last one with several children.
Chain(strings, node) ==
  LET branching == {k \in 0..Len(node) - 1 : Cardinality(Children(strings, SubSeq(node, 1, k))) > 1} IN
  IF branching = {} THEN Len(node) ELSE Len(node) - Max(branching)

find_candidate_prefix(strings) ==
  LET candidates == {n \in Nodes(strings) : n # <<>> /\ Depth(strings, n) < max_suffix_len}
      best == {n \in candidates : \A m \in candidates : Chain(strings, m) <= Chain(strings, n)}
  IN  IF candidates = {} THEN <<>> ELSE Smallest(best)

\* The root of the next class: what is common to all forms that begin with the candidate.
NextRoot(forms) ==
  LET candidate == find_candidate_prefix(Strings(forms)) IN
  LongestCommonPrefix({s \in Strings(forms) : IsPrefix(candidate, s)})

ClassForms(forms, root) == {form \in forms : IsPrefix(root, form[1])}
Class(forms, root) == {<<Rest(form[1], Len(root)), form[2]>> : form \in ClassForms(forms, root)}

RootBefore(a, b) == Before(a.form, b.form) \/ (a.form = b.form /\ a.clas < b.clas)
LemmaBefore(a, b) == Before(a.lemma, b.lemma) \/ (a.lemma = b.lemma /\ Before(a.info, b.info))

Init ==
  /\ raw \in Dictionaries /\ max_suffix_len \in SuffixLengths
  /\ pc = "classes" /\ position = 1
  /\ unprocessed = raw[1].forms
  /\ lemma_infos = <<[lemma |-> raw[1].lemma, info |-> raw[1].info, forms |-> <<>>]>>
  /\ class_list = <<>> /\ stream = <<>>
  /\ pass = 1 /\ lemma = <<>>
  /\ lemmas = EmptyMap /\ roots = EmptyMap /\ suffixes = EmptyMap /\ classes = <<>>

\* Mutant: classes with the same suffixes are one, whatever their tags.
SuffixesOnly ==
  /\ pc = "classes" /\ unprocessed # {}
  /\ LET root == NextRoot(unprocessed)
         class == Class(unprocessed, root)
         same(c) == Strings(c) = Strings(class)
         known == SelectInSeq(class_list, same)
         clas == IF known = 0 THEN Len(class_list) + 1 ELSE known
     IN  /\ class_list' = IF known = 0 THEN Append(class_list, class) ELSE class_list
         /\ lemma_infos' = [lemma_infos EXCEPT ![position].forms = Append(@, [form |-> root, clas |-> clas])]
         /\ unprocessed' = unprocessed \ ClassForms(unprocessed, root)
  /\ UNCHANGED <<raw, max_suffix_len, pc, position, stream, pass, lemma, maps>>

CreateClass ==
  /\ pc = "classes" /\ unprocessed # {}
  /\ LET root == NextRoot(unprocessed)
         class == Class(unprocessed, root)
         same(c) == c = class
         known == SelectInSeq(class_list, same)
         clas == IF known = 0 THEN Len(class_list) + 1 ELSE known
     IN  /\ class_list' = IF known = 0 THEN Append(class_list, class) ELSE class_list
         /\ lemma_infos' = [lemma_infos EXCEPT ![position].forms = Append(@, [form |-> root, clas |-> clas])]
         /\ unprocessed' = unprocessed \ ClassForms(unprocessed, root)
  /\ UNCHANGED <<raw, max_suffix_len, pc, position, stream, pass, lemma, maps>>

\* The roots of a lemma are sorted; after the last lemma so are the lemmas.
NextLemma ==
  /\ pc = "classes" /\ unprocessed = {}
  /\ LET done == [lemma_infos EXCEPT ![position].forms = SortSeq(@, RootBefore)] IN
     IF position < Len(raw)
     THEN /\ position' = position + 1
          /\ unprocessed' = raw[position'].forms
          /\ lemma_infos' = Append(done, [lemma |-> raw[position'].lemma, info |-> raw[position'].info, forms |-> <<>>])
          /\ UNCHANGED pc
     ELSE /\ lemma_infos' = SortSeq(done, LemmaBefore)
          /\ pc' = "encode"
          /\ UNCHANGED <<position, unprocessed>>
  /\ UNCHANGED <<raw, max_suffix_len, class_list, stream, pass, lemma, maps>>
-----------------------------------------------------------------------------
(* dictionary::encode *)

EncodedLemma(prev, info) ==
  [text |-> Change(prev, info.lemma), info |-> info.info,
   roots |-> [k \in DOMAIN info.forms |->
                [edit |-> Edit(IF k = 1 THEN info.lemma ELSE info.forms[k - 1].form, info.forms[k].form),
                 clas |-> info.forms[k].clas]]]

\* The suffixes of all classes, and for each the classes it is in with its tags. Beginning
\* characters may be cut off a suffix, down to its last one.
Shortened(suffix) == {Rest(suffix, n) : n \in 0..IF suffix = <<>> THEN 0 ELSE Len(suffix) - 1}
\* Mutant: only the suffixes of the classes are stored.
SuffixesAsGiven ==
  [suffix \in UNION {Strings(class_list[c]) : c \in DOMAIN class_list} |->
     [c \in {c \in DOMAIN class_list : suffix \in Strings(class_list[c])} |->
        {form[2] : form \in {form \in class_list[c] : form[1] = suffix}}]]
SuffixEntries ==
  [suffix \in UNION {Shortened(s) : s \in UNION {Strings(class_list[c]) : c \in DOMAIN class_list}} |->
     [c \in {c \in DOMAIN class_list : suffix \in Strings(class_list[c])} |->
        {form[2] : form \in {form \in class_list[c] : form[1] = suffix}}]]
SuffixSize(entry) ==
  LET number(c) == Cardinality(entry[c]) IN 4 + 4 * Cardinality(DOMAIN entry) + 2 * MapThenSumSet(number, DOMAIN entry)

\* histogram::encode, read by load: a map for so many keys of each length.
Sized(strings) ==
  FoldLeft(LAMBDA map, l : Resized(map, Cardinality({s \in strings : Len(s) = l - 1})),
           EmptyMap, [l \in 1..Max({Len(s) : s \in strings}) + 1 |-> l])

\* encode, and the beginning of load
Encode ==
  /\ pc = "encode"
  /\ stream' = [k \in DOMAIN lemma_infos |->
                  EncodedLemma(IF k = 1 THEN <<>> ELSE lemma_infos[k - 1].lemma, lemma_infos[k])]
  /\ lemmas' = Sized({info.lemma : info \in Range(lemma_infos)})
  /\ roots' = Sized(UNION {{f.form : f \in Range(info.forms)} : info \in Range(lemma_infos)})
  /\ suffixes' = LET entries == SuffixEntries
                 IN  construct(entries, 5, [suffix \in DOMAIN entries |-> SuffixSize(entries[suffix])])
  /\ pc' = "load" /\ position' = 1
  /\ UNCHANGED <<raw, max_suffix_len, encoder, pass, lemma, classes>>
-----------------------------------------------------------------------------
(* morpho_dictionary::load *)

LemmaSize(item) == 2 + Len(item.info) + 7 * Len(item.roots)
RootSize == 7

\* The roots of an item, made one from another.
RootsOf(item, text) ==
  LET root[k \in 0..Len(item.roots)] == IF k = 0 THEN text ELSE Edited(root[k - 1], item.roots[k].edit) IN
  [k \in DOMAIN item.roots |-> root[k]]

Counted(map, root) == add(map, root, RootSize)

\* One root in the second pass: both maps get a pointer to the entry of the other.
Linked(item, text, lemma_offset, texts) ==
  LET Step(b, k) ==
        [roots |-> fill(b.roots, texts[k], RootSize,
                        [clas |-> item.roots[k].clas, lemma_offset |-> lemma_offset, lemma_len |-> Len(text)]),
         links |-> Append(b.links, [root_offset |-> FillOffset(b.roots, texts[k]), root_len |-> Len(texts[k]),
                                    clas |-> item.roots[k].clas])]
  IN  FoldLeft(Step, [roots |-> roots, links |-> <<>>], [k \in DOMAIN texts |-> k])

LoadLemma ==
  /\ pc = "load" /\ position <= Len(stream)
  /\ LET item == stream[position]
         text == Changed(lemma, item.text)
         texts == RootsOf(item, text)
         linked == Linked(item, text, FillOffset(lemmas, text), texts)
     IN  /\ lemma' = text
         /\ IF pass = 1
            THEN /\ lemmas' = add(lemmas, text, LemmaSize(item))
                 /\ roots' = FoldLeft(Counted, roots, texts)
            ELSE /\ lemmas' = fill(lemmas, text, LemmaSize(item), [info |-> item.info, roots |-> linked.links])
                 /\ roots' = linked.roots
  /\ position' = position + 1
  /\ UNCHANGED <<raw, max_suffix_len, pc, encoder, stream, pass, suffixes, classes>>

EndFirstPass ==
  /\ pc = "load" /\ position > Len(stream) /\ pass = 1
  /\ lemmas' = done_adding(lemmas) /\ roots' = done_adding(roots)
  /\ pass' = 2 /\ position' = 1 /\ lemma' = <<>>
  /\ UNCHANGED <<raw, max_suffix_len, pc, encoder, stream, suffixes, classes>>

\* The classes are what the suffixes say of them.
EndSecondPass ==
  /\ pc = "load" /\ position > Len(stream) /\ pass = 2
  /\ lemmas' = done_filling(lemmas) /\ roots' = done_filling(roots)
  /\ LET entries == iter_all(suffixes) IN
     classes' = [c \in UNION {DOMAIN entry.value : entry \in entries} |->
                   UNION {{<<entry.key, tag>> : tag \in entry.value[c]} :
                          entry \in {e \in entries : c \in DOMAIN e.value}}]
  /\ pc' = "loaded"
  /\ UNCHANGED <<raw, max_suffix_len, position, encoder, stream, pass, lemma, suffixes>>

Next == CreateClass \/ NextLemma \/ Encode \/ LoadLemma \/ EndFirstPass \/ EndSecondPass
Spec == Init /\ [][Next]_vars
-----------------------------------------------------------------------------
(* The lookups. *)

\* The lengths of suffixes that analyze tries: it stops at the first unknown one.
SuffixesTried(form) ==
  LET known(n) == n < max_length(suffixes) /\ at(suffixes, Rest(form, Len(form) - n)) # {} IN
  {n \in 0..Len(form) : \A m \in 0..n : known(m)}

analyze(form) ==
  UNION {LET root == SubSeq(form, 1, Len(form) - n)
             suffix == CHOOSE e \in at(suffixes, Rest(form, Len(form) - n)) : TRUE
             found == {e \in iter(roots, root) : e.key = root /\ e.value.clas \in DOMAIN suffix.value}
         IN  UNION {LET entry == TableOf(lemmas, e.value.lemma_len).data[e.value.lemma_offset] IN
                    {<<entry.key, entry.value.info, tag>> : tag \in suffix.value[e.value.clas]} : e \in found}
         : n \in {n \in SuffixesTried(form) : Len(form) - n < max_length(roots)}}

match_lemma_id(query, info) ==
  query = <<>> \/ query[1] = AnyId \/ (info # <<>> /\ info[1] = query[1])
generatable(info) == \A k \in 2..Len(info) : info[k] # NotGeneratable

Matched(text, info) ==
  {e \in iter(lemmas, text) : e.key = text /\ match_lemma_id(info, e.value.info) /\ generatable(e.value.info)}

FormsOf(entry, wildcard) ==
  UNION {LET root == TableOf(roots, link.root_len).data[link.root_offset].key IN
         {<<root \o form[1], form[2]>> : form \in {form \in classes[link.clas] : matches(wildcard, form[2])}}
         : link \in Range(entry.value.roots)}

\* Whether the lemma is known, and the forms of all lemmas that match.
generate(text, info, wildcard) ==
  [matched |-> Matched(text, info) # {},
   forms |-> {<<e.value.info, FormsOf(e, wildcard)>> : e \in {e \in Matched(text, info) : FormsOf(e, wildcard) # {}}}]
-----------------------------------------------------------------------------
RawAnalyses(word) ==
  UNION {{<<l.lemma, l.info, form[2]>> : form \in {form \in l.forms : form[1] = word}} : l \in Range(raw)}
Words == UNION {Strings(l.forms) : l \in Range(raw)}

\* A class with the empty suffix: some root is a form of its own.
HasBareRoot == \E c \in DOMAIN class_list : <<>> \in Strings(class_list[c])

\* What was encoded is what is found, for every word and every part of one; except that
\* nothing at all is found in a dictionary where no form is a root of its own, because the
\* lookup stops at the unknown empty suffix.
AnalysesAreRaw ==
  pc = "loaded" => \A word \in UNION {SubSeqs(w) : w \in Words} :
    analyze(word) = IF HasBareRoot THEN RawAnalyses(word) ELSE {}

\* Every lemma generates its forms: those that were encoded and whose tags
\* the wildcard means.
RawMatches(text, info) ==
  {l \in Range(raw) : l.lemma = text /\ match_lemma_id(info, l.info) /\ generatable(l.info)}
FormsAreRaw ==
  pc = "loaded" => \A l \in Range(raw), items \in Wildcards :
    LET passing(m) == {form \in m.forms : Meant(items, form[2])} IN
    \A info \in {<<>>, <<AnyId>>, l.info} :
      generate(l.lemma, info, WrittenAs(items)) =
        [matched |-> RawMatches(l.lemma, info) # {},
         forms |-> {<<m.info, passing(m)>> : m \in {m \in RawMatches(l.lemma, info) : passing(m) # {}}}]

\* The second pass of loading puts the entries exactly where the first pass made room for them.
PassesAgree == pc = "loaded" => \A map \in {lemmas, roots, suffixes} : \A table \in Range(map) : Tiled(table)
=============================================================================
