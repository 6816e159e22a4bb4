-------------------------- MODULE DerivatorDictionary ------------------------
(***************************************************************************)
(* The encoding of the derivator, derivator_dictionary_encoder.cpp, its    *)
(* loading in three passes over the same data, and the lookups of parents  *)
(* and children, derivator_dictionary.cpp.  An entry of the map holds the  *)
(* comment of a lemma, a pointer to its parent and pointers to its         *)
(* children; a pointer is an offset and a length in one number.            *)
(***************************************************************************)
EXTENDS DerivatorEncoder, PersistentMap

VARIABLES
  stream,          \* the encoded lemmas
  pass, position,  \* of load
  lemma,           \* its buffer
  map              \* derinet of derivator_dictionary

dictionary == <<stream, pass, position, lemma, map>>

\* The children that are not stored yet, and a parent that is none.
Null == 0
Pointer(offs, len) == offs * 256 + len

Init ==
  /\ EncoderInit
  /\ stream = <<>> /\ pass = 1 /\ position = 1 /\ lemma = <<>> /\ map = EmptyMap
-----------------------------------------------------------------------------
NoEdit == [remove_start |-> 0, remove_end |-> 0, add_start |-> <<>>, add_end |-> <<>>]

Encoded(prev, l) ==
  [text |-> Change(prev, l), comment |-> info[l].comment, children |-> children[l],
   edit |-> IF parent[l] = NoParent THEN NoEdit ELSE Edit(l, parent[l])]

\* The map is made for so many keys of each length when its header is read.
Sized(texts) ==
  FoldLeft(LAMBDA m, l : Resized(m, Cardinality({t \in texts : Len(t) = l - 1})),
           EmptyMap, [l \in 1..Max({Len(t) : t \in texts} \cup {0}) + 1 |-> l])

Encode ==
  /\ phase = "encode"
  /\ LET order == Sorted(Nodes) IN
     stream' = [k \in DOMAIN order |-> Encoded(IF k = 1 THEN <<>> ELSE order[k - 1], order[k])]
  /\ map' = Sized(Nodes)
  /\ phase' = "load"
  /\ UNCHANGED <<lines, morpho, row, derinet, todo, mark, node, contains_cycle, pass, position, lemma>>
-----------------------------------------------------------------------------
(* derivator_dictionary::load *)

Size(item) == 1 + Len(item.comment) + 4 + 2 + 4 * item.children

\* The second pass: no parent, and nothing stored in the last slot.
NewEntry(item) ==
  [comment |-> item.comment, parent |-> Null, children |-> [k \in 1..item.children |-> Null]]

\* Mutant: the count stops one child early.
StoredEarly(slots, child) ==
  LET last == Len(slots)
      child_index == slots[last]
      stored == [slots EXCEPT ![child_index + 1] = child]
  IN  IF child_index + 2 < last THEN [stored EXCEPT ![last] = @ + 1] ELSE stored

\* The last slot counts the children stored before, until it is its own turn.
Stored(slots, child) ==
  LET last == Len(slots)
      child_index == slots[last]
      stored == [slots EXCEPT ![child_index + 1] = child]
  IN  IF child_index + 1 < last THEN [stored EXCEPT ![last] = @ + 1] ELSE stored

\* The third pass: parent and child point at each other.
Related(m, l, p) ==
  LET l_offset == CHOOSE o \in offset(m, l) : TRUE
      p_offset == CHOOSE o \in offset(m, p) : TRUE
      child == [m EXCEPT ![Len(l) + 1].data[l_offset].value.parent = Pointer(p_offset, Len(p))]
  IN  [child EXCEPT ![Len(p) + 1].data[p_offset].value.children = Stored(@, Pointer(l_offset, Len(l)))]

LoadLemma ==
  /\ phase = "load" /\ position <= Len(stream)
  /\ LET item == stream[position]
         text == Changed(lemma, item.text)
         above == IF item.edit = NoEdit THEN NoParent ELSE Edited(text, item.edit)
     IN  /\ lemma' = text
         /\ map' = CASE pass = 1 -> add(map, text, Size(item))
                     [] pass = 2 -> fill(map, text, Size(item), NewEntry(item))
                     [] pass = 3 /\ above = NoParent -> map
                     [] OTHER -> Related(map, text, above)
  /\ position' = position + 1
  /\ UNCHANGED <<encoder, stream, pass>>

EndPass ==
  /\ phase = "load" /\ position > Len(stream)
  /\ IF pass < 3
     THEN /\ map' = IF pass = 1 THEN done_adding(map) ELSE done_filling(map)
          /\ pass' = pass + 1 /\ position' = 1 /\ lemma' = <<>>
          /\ UNCHANGED phase
     ELSE /\ phase' = "loaded"
          /\ UNCHANGED <<pass, position, lemma, map>>
  /\ UNCHANGED <<lines, morpho, row, derinet, todo, mark, node, contains_cycle, stream>>

Next ==
  \/ EncoderNext /\ UNCHANGED dictionary
  \/ Encode \/ LoadLemma \/ EndPass
-----------------------------------------------------------------------------
(* The lookups. *)

\* The lemma a pointer points at, with its comment, or garbage between the entries.
Garbage == <<>>
Pointed(pointer) ==
  LET table == TableOf(map, pointer % 256)
      offs == pointer \div 256
  IN  IF offs \notin DOMAIN table.data THEN Garbage
      ELSE table.data[offs].key \o table.data[offs].value.comment

\* The parent of a lemma as a set of at most one, and its children in order.
ParentOf(l) == {Pointed(e.value.parent) : e \in {e \in at(map, Id(l)) : e.value.parent # Null}}
ChildrenOf(l) ==
  IF at(map, Id(l)) = {} THEN <<>>
  ELSE LET slots == (CHOOSE e \in at(map, Id(l)) : TRUE).value.children IN
       [k \in DOMAIN slots |-> Pointed(slots[k])]
-----------------------------------------------------------------------------
Full(l) == l \o info[l].comment

\* What was chosen is what is looked up, in both directions: the parent of every lemma, and
\* its children, each once and in order, both with their comments.
LookupsAreChosen ==
  phase = "loaded" =>
    \A l \in Nodes :
      /\ ParentOf(l) = IF parent[l] = NoParent THEN {} ELSE {Full(parent[l])}
      /\ ChildrenOf(l) = LET order == Sorted({c \in Nodes : parent[c] = l}) IN
                         [k \in DOMAIN order |-> Full(order[k])]
=============================================================================
