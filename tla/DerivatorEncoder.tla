--------------------------- MODULE DerivatorEncoder --------------------------
(***************************************************************************)
(* derivator/derivator_dictionary_encoder.cpp up to the encoding: the      *)
(* lines of a file name lemmas and their parents, the morphology says what *)
(* these are, one parent is chosen for every lemma, and the file is        *)
(* refused if the chosen parents contain a cycle.  The map derinet of the  *)
(* code is a function from lemma ids for each member of lemma_info.        *)
(***************************************************************************)
EXTENDS LemmaText

CONSTANTS
  Files,       \* <<lines, morpho>>: lines a sequence of pairs [lemma, tag], the lemma and
               \* its parent; morpho a set of [lemma, tags]
  AnyTag       \* of a pair that gives a lemma id only

NoParent == <<>>
NoNode == <<>>

\* No lemma is empty: the text of one has at least its first character.
ASSUME FilesAssumption ==
  \A file \in Files : \A entry \in file[2] : Id(entry.lemma) # <<>>

VARIABLES
  lines, morpho,
  phase,              \* "read", "choose", "mark", "failed", "encode"; a loader goes on from there
  row,             \* the line that is read
  info,            \* id -> [sense, comment]
  parents, parent, children, marks,
  todo,            \* the lemmas the loop has still to visit
  mark, node,      \* of the walk up from one lemma, NoNode between two walks
  contains_cycle

derinet == <<info, parents, parent, children, marks>>
encoder == <<lines, morpho, phase, row, derinet, todo, mark, node, contains_cycle>>

Nodes == DOMAIN info
First(l, S) == \A k \in S \ {l} : Before(l, k)

EncoderInit ==
  /\ \E file \in Files : lines = file[1] /\ morpho = file[2]
  /\ phase = "read" /\ row = 1
  /\ info = <<>> /\ parents = <<>> /\ parent = <<>> /\ children = <<>> /\ marks = <<>>
  /\ todo = {} /\ mark = 0 /\ node = NoNode /\ contains_cycle = FALSE

\* The lemmas of the morphology that one column of a line stands for.
generate(column) ==
  {entry.lemma : entry \in
     {e \in morpho : /\ Raw(e.lemma) = Raw(column.lemma)
                     /\ Sense(column.lemma) \in {<<>>, Sense(e.lemma)}
                     /\ column.tag = AnyTag \/ column.tag \in e.tags}}
Identified(column) ==
  {l \in generate(column) : column.tag # AnyTag \/ Id(l) = Id(column.lemma)}

Shortest(ls) ==
  LET comments == {Comments(l) : l \in ls} IN
  Smallest({c \in comments : \A d \in comments : Len(c) <= Len(d)})

matched(column) ==
  [id \in {Id(l) : l \in Identified(column)} |->
     LET same == {l \in Identified(column) : Id(l) = id} IN
     [sense |-> Sense(id), comment |-> Shortest(same)]]

\* insert keeps what the map already has.
Inserted(old, new) ==
  [l \in DOMAIN old \cup DOMAIN new |-> IF l \in DOMAIN old THEN old[l] ELSE new[l]]

ReadLine ==
  /\ phase = "read" /\ row <= Len(lines)
  /\ LET child == matched(lines[row][1])
         above == matched(lines[row][2])
         skipped == DOMAIN child = {} \/ DOMAIN above = {} \/ DOMAIN child \cap DOMAIN above # {}
         new == Inserted(Inserted(info, child), above)
     IN  IF skipped THEN UNCHANGED <<info, parents>>
         ELSE /\ info' = new
              /\ parents' = [l \in DOMAIN new |-> (IF l \in DOMAIN info THEN parents[l] ELSE {})
                                                    \cup (IF l \in DOMAIN child THEN DOMAIN above ELSE {})]
  /\ row' = row + 1
  /\ UNCHANGED <<lines, morpho, phase, parent, children, marks, todo, mark, node, contains_cycle>>

EndReading ==
  /\ phase = "read" /\ row > Len(lines)
  /\ parent' = [l \in Nodes |-> NoParent]
  /\ children' = [l \in Nodes |-> 0]
  /\ marks' = [l \in Nodes |-> 0]
  /\ todo' = Nodes
  /\ phase' = "choose"
  /\ UNCHANGED <<lines, morpho, row, info, parents, mark, node, contains_cycle>>

\* The parents with the same sense, if there are any, or else all.
Candidates(l) ==
  LET alike == {p \in parents[l] : info[p].sense = info[l].sense} IN
  IF alike # {} THEN alike ELSE parents[l]

ChooseParent ==
  /\ phase = "choose"
  /\ \E l \in todo :
       /\ First(l, todo)
       /\ todo' = todo \ {l}
       /\ \/ parents[l] = {} /\ UNCHANGED <<parent, children>>
          \/ \E p \in Candidates(l) :
               /\ First(p, Candidates(l))
               /\ parent' = [parent EXCEPT ![l] = p]
               /\ children' = [children EXCEPT ![p] = @ + 1]
  /\ UNCHANGED <<lines, morpho, phase, row, info, parents, marks, mark, node, contains_cycle>>

EndChoosing ==
  /\ phase = "choose" /\ todo = {}
  /\ todo' = Nodes
  /\ phase' = "mark"
  /\ UNCHANGED <<lines, morpho, row, derinet, mark, node, contains_cycle>>

\* Every walk has a mark of its own, which also replaces the one that an earlier walk left.
BeginWalk ==
  /\ phase = "mark" /\ node = NoNode
  /\ \E l \in todo :
       /\ First(l, todo)
       /\ todo' = todo \ {l}
       /\ mark' = mark + 1
       /\ marks' = [marks EXCEPT ![l] = mark + 1]
       /\ node' = l
  /\ UNCHANGED <<lines, morpho, phase, row, info, parents, parent, children, contains_cycle>>

\* Mutant: every lemma that was visited before is taken for a cycle.
OnAnyWalk(l) == TRUE
OnThisWalk(l) == marks[l] = mark

\* Mutant: a walk does not stop at what was visited before.
WalkOn ==
  /\ phase = "mark" /\ node # NoNode
  /\ IF parent[node] = NoParent THEN node' = NoNode /\ UNCHANGED <<marks, contains_cycle>>
     ELSE /\ contains_cycle' = (contains_cycle \/ OnThisWalk(parent[node]))
          /\ marks' = [marks EXCEPT ![parent[node]] = mark]
          /\ node' = parent[node]
  /\ UNCHANGED <<lines, morpho, phase, row, info, parents, parent, children, todo, mark>>

WalkUp ==
  /\ phase = "mark" /\ node # NoNode
  /\ IF parent[node] = NoParent THEN node' = NoNode /\ UNCHANGED <<marks, contains_cycle>>
     ELSE IF marks[parent[node]] # 0
     THEN /\ contains_cycle' = (contains_cycle \/ OnThisWalk(parent[node]))
          /\ node' = NoNode
          /\ UNCHANGED marks
     ELSE /\ marks' = [marks EXCEPT ![parent[node]] = mark]
          /\ node' = parent[node]
          /\ UNCHANGED contains_cycle
  /\ UNCHANGED <<lines, morpho, phase, row, info, parents, parent, children, todo, mark>>

EndMarking ==
  /\ phase = "mark" /\ node = NoNode /\ todo = {}
  /\ phase' = IF contains_cycle THEN "failed" ELSE "encode"
  /\ UNCHANGED <<lines, morpho, row, derinet, todo, mark, node, contains_cycle>>

EncoderNext ==
  \/ ReadLine \/ EndReading \/ ChooseParent \/ EndChoosing
  \/ BeginWalk \/ WalkUp \/ EndMarking
EncoderSpec == EncoderInit /\ [][EncoderNext]_encoder
-----------------------------------------------------------------------------
\* There is a cycle exactly if from some lemmas the walk up never leaves them.
Trapped(S) == S # {} /\ \A l \in S : parent[l] \in S

\* The file is refused exactly if the chosen parents contain a cycle, although a walk stops
\* wherever an earlier one went and its first mark may replace an earlier one.
CyclesRefused ==
  /\ phase = "failed" => \E S \in SUBSET Nodes : Trapped(S)
  /\ phase \notin {"read", "choose", "mark", "failed"} => ~ \E S \in SUBSET Nodes : Trapped(S)
=============================================================================
