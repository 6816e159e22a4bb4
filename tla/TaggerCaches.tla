---------------------------- MODULE TaggerCaches ----------------------------
(***************************************************************************)
(* tagger/perceptron_tagger.h over utils/threadsafe_stack.h: one tagger is *)
(* used by many threads, and each call borrows a cache from a stack that a *)
(* spin lock protects.  A cache keeps what earlier calls left in it.  A    *)
(* form stands for its analyses, and Best for what the decoder chooses.    *)
(***************************************************************************)
EXTENDS Integers, FiniteSets, Sequences, SequencesExt

CONSTANTS Threads, Caches,
          Sentences,      \* the sequences of forms that clients tag
          Best(_),        \* analysed sentence -> the chosen index, per position
          NoCache

ASSUME CachesAssumption ==
  /\ IsFiniteSet(Threads) /\ IsFiniteSet(Caches)
  /\ Cardinality(Threads) <= Cardinality(Caches)   \* new does not fail
  /\ NoCache \notin Caches
ASSUME BestAssumption ==
  \A s \in Sentences : s \in Seq(STRING) /\ Best(s) \in Seq(Nat) /\ Len(Best(s)) = Len(s)

VARIABLES
  locked,     \* threadsafe_stack::lock
  stack,      \* threadsafe_stack::stack; NoCache is a released unique_ptr
  allocated,  \* the caches that exist
  forms, analyses, tags, nodes,  \* the contents of each cache; nodes is decoder_cache
  pc, op, sentence,              \* per thread: the call it is in
  i,                             \* per thread: how many positions are analysed
  c,                             \* per thread: the cache it borrows
  result                         \* per thread: the caller's output vector

stackvars == <<locked, stack>>
contents == <<forms, analyses, tags, nodes>>
call == <<op, sentence>>
vars == <<stackvars, allocated, contents, pc, call, i, c, result>>

Init ==
  /\ locked = FALSE
  /\ stack = <<>>
  /\ allocated = {}
  /\ forms = [k \in Caches |-> <<>>]
  /\ analyses = [k \in Caches |-> <<>>]
  /\ tags = [k \in Caches |-> <<>>]
  /\ nodes = [k \in Caches |-> <<>>]
  /\ pc = [t \in Threads |-> "idle"]
  /\ op \in [Threads -> {"tag"}]
  /\ sentence \in [Threads -> {<<>>}]
  /\ i = [t \in Threads |-> 0]
  /\ c = [t \in Threads |-> NoCache]
  /\ result = [t \in Threads |-> <<>>]

Goto(t, label) == pc' = [pc EXCEPT ![t] = label]
Put(content, t, value) == [content EXCEPT ![c[t]] = value]
\* vector::resize: the elements kept are those already there, the new ones are v.
Resize(s, n, v) == [k \in 1..n |-> IF k <= Len(s) THEN s[k] ELSE v]
-----------------------------------------------------------------------------
(* The stack: lock.test_and_set succeeds; the sections; lock.clear. *)

\* Mutant: the flag is tested and then set by two separate operations.
TestThenSet(t) ==
  \/ /\ pc[t] \in {"pop", "push"} /\ ~locked
     /\ Goto(t, IF pc[t] = "pop" THEN "set_pop" ELSE "set_push")
     /\ UNCHANGED <<stackvars, allocated, contents, call, i, c, result>>
  \/ /\ pc[t] \in {"set_pop", "set_push"}
     /\ locked' = TRUE
     /\ Goto(t, IF pc[t] = "set_pop" THEN "popping" ELSE "pushing")
     /\ UNCHANGED <<stack, allocated, contents, call, i, c, result>>

Acquire(t) ==
  /\ pc[t] \in {"pop", "push"} /\ ~locked
  /\ locked' = TRUE
  /\ Goto(t, IF pc[t] = "pop" THEN "popping" ELSE "pushing")
  /\ UNCHANGED <<stack, allocated, contents, call, i, c, result>>

\* test_and_set finds the flag set, and is tried again.
Spin(t) ==
  /\ pc[t] \in {"pop", "push"} /\ locked
  /\ UNCHANGED vars

\* res = stack.back().release(), when there is one
TakeBack(t) ==
  /\ pc[t] = "popping"
  /\ IF stack = <<>>
     THEN Goto(t, "popped") /\ UNCHANGED <<stack, c>>
     ELSE /\ c' = [c EXCEPT ![t] = stack[Len(stack)]]
          /\ stack' = [stack EXCEPT ![Len(stack)] = NoCache]
          /\ Goto(t, "pop_back")
  /\ UNCHANGED <<locked, allocated, contents, call, i, result>>

PopBack(t) ==
  /\ pc[t] = "pop_back"
  /\ stack' = SubSeq(stack, 1, Len(stack) - 1)
  /\ Goto(t, "popped")
  /\ UNCHANGED <<locked, allocated, contents, call, i, c, result>>

\* Mutants: the flag is cleared only when a cache was found; one of two caches is dropped.
UnlockIfFound(t) ==
  /\ pc[t] \in {"popped", "pushed"}
  /\ locked' = (c[t] = NoCache /\ pc[t] = "popped")
  /\ Goto(t, IF pc[t] = "pushed" THEN "idle" ELSE IF c[t] = NoCache THEN "new" ELSE "borrowed")
  /\ UNCHANGED <<stack, allocated, contents, call, i, c, result>>
EmplaceOnly(t) ==
  /\ pc[t] = "pushing"
  /\ stack' = <<c[t]>>
  /\ c' = [c EXCEPT ![t] = NoCache]
  /\ Goto(t, "pushed")
  /\ UNCHANGED <<locked, allocated, contents, call, i, result>>

\* stack.emplace_back(t)
EmplaceBack(t) ==
  /\ pc[t] = "pushing"
  /\ stack' = Append(stack, c[t])
  /\ c' = [c EXCEPT ![t] = NoCache]
  /\ Goto(t, "pushed")
  /\ UNCHANGED <<locked, allocated, contents, call, i, result>>

Unlock(t) ==
  /\ pc[t] \in {"popped", "pushed"}
  /\ locked' = FALSE
  /\ Goto(t, IF pc[t] = "pushed" THEN "idle" ELSE IF c[t] = NoCache THEN "new" ELSE "borrowed")
  /\ UNCHANGED <<stack, allocated, contents, call, i, c, result>>
-----------------------------------------------------------------------------
(* tag and tag_analyzed. *)

\* A client calls; the output vector is cleared.
Call(t, s) ==
  /\ pc[t] = "idle"
  /\ \E o \in {"tag", "tag_analyzed"} : op' = [op EXCEPT ![t] = o]
  /\ sentence' = [sentence EXCEPT ![t] = s]
  /\ result' = [result EXCEPT ![t] = <<>>]
  /\ Goto(t, "pop")
  /\ UNCHANGED <<stackvars, allocated, contents, i, c>>

\* if (!c) c = new cache(*this)
New(t) ==
  /\ pc[t] = "new"
  /\ \E k \in Caches \ allocated :
       /\ allocated' = allocated \cup {k}
       /\ c' = [c EXCEPT ![t] = k]
  /\ Goto(t, "borrowed")
  /\ UNCHANGED <<stackvars, contents, call, i, result>>

\* tag makes room for the sentence, and never shrinks analyses.
ResizeForms(t) ==
  /\ pc[t] = "borrowed" /\ op[t] = "tag"
  /\ LET n == Len(sentence[t]) IN
     /\ forms' = Put(forms, t, Resize(forms[c[t]], n, "none"))
     /\ analyses' = Put(analyses, t, Resize(analyses[c[t]],
                          IF n > Len(analyses[c[t]]) THEN n ELSE Len(analyses[c[t]]), "none"))
  /\ i' = [i EXCEPT ![t] = 0]
  /\ Goto(t, "analyze")
  /\ UNCHANGED <<stackvars, allocated, tags, nodes, call, c, result>>

\* dict->analyze of the next form
Analyze(t) ==
  /\ pc[t] = "analyze" /\ i[t] < Len(sentence[t])
  /\ LET form == sentence[t][i[t] + 1] IN
     /\ forms' = [forms EXCEPT ![c[t]][i[t] + 1] = form]
     /\ analyses' = [analyses EXCEPT ![c[t]][i[t] + 1] = form]
  /\ i' = [i EXCEPT ![t] = @ + 1]
  /\ UNCHANGED <<stackvars, allocated, tags, nodes, pc, call, c, result>>

\* Mutant: the decoder takes every analysis the cache holds, also those of an
\* earlier, longer sentence.
ScoreEverything(t) ==
  /\ pc[t] = "analyze" /\ i[t] = Len(sentence[t])
  /\ nodes' = Put(nodes, t, analyses[c[t]])
  /\ tags' = Put(tags, t, IF Len(tags[c[t]]) < Len(sentence[t])
                          THEN Resize(tags[c[t]], Len(sentence[t]) * 2, 0) ELSE tags[c[t]])
  /\ Goto(t, "decode")
  /\ UNCHANGED <<stackvars, allocated, forms, analyses, call, i, c, result>>

\* The decoder scores the positions of forms in its cache.
Score(t) ==
  /\ pc[t] = "analyze" /\ i[t] = Len(sentence[t])
  /\ nodes' = Put(nodes, t, SubSeq(analyses[c[t]], 1, Len(forms[c[t]])))
  /\ tags' = Put(tags, t, IF Len(tags[c[t]]) < Len(sentence[t])
                          THEN Resize(tags[c[t]], Len(sentence[t]) * 2, 0) ELSE tags[c[t]])
  /\ Goto(t, "decode")
  /\ UNCHANGED <<stackvars, allocated, forms, analyses, call, i, c, result>>

\* The decoder follows its nodes back and writes the chosen indices over the old ones.
Decode(t) ==
  /\ pc[t] = "decode" /\ op[t] = "tag"
  /\ tags' = Put(tags, t, [k \in DOMAIN tags[c[t]] |->
                             IF k \in DOMAIN nodes[c[t]] THEN Best(nodes[c[t]])[k] ELSE tags[c[t]][k]])
  /\ Goto(t, "emit")
  /\ UNCHANGED <<stackvars, allocated, forms, analyses, nodes, call, i, c, result>>

\* tags.emplace_back(c->analyses[i][c->tags[i]])
Emit(t) ==
  /\ pc[t] = "emit"
  /\ result' = [result EXCEPT ![t] =
       [k \in 1..Len(sentence[t]) |-> <<analyses[c[t]][k], tags[c[t]][k]>>]]
  /\ Goto(t, "push")
  /\ UNCHANGED <<stackvars, allocated, contents, call, i, c>>

\* tag_analyzed takes the caller's analyses and only borrows the decoder's cache.
ScoreAnalyzed(t) ==
  /\ pc[t] = "borrowed" /\ op[t] = "tag_analyzed"
  /\ nodes' = Put(nodes, t, sentence[t])
  /\ result' = [result EXCEPT ![t] = [k \in 1..Len(sentence[t]) |-> 0]]
  /\ Goto(t, "decode")
  /\ UNCHANGED <<stackvars, allocated, forms, analyses, tags, call, i, c>>

DecodeAnalyzed(t) ==
  /\ pc[t] = "decode" /\ op[t] = "tag_analyzed"
  /\ result' = [result EXCEPT ![t] = [k \in DOMAIN @ |-> Best(nodes[c[t]])[k]]]
  /\ Goto(t, "push")
  /\ UNCHANGED <<stackvars, allocated, contents, call, i, c>>

Step(t) ==
  \/ Acquire(t) \/ TakeBack(t) \/ PopBack(t) \/ EmplaceBack(t) \/ Unlock(t) \/ New(t)
  \/ ResizeForms(t) \/ Analyze(t) \/ Score(t) \/ Decode(t) \/ Emit(t)
  \/ ScoreAnalyzed(t) \/ DecodeAnalyzed(t)

Next == \E t \in Threads : Step(t) \/ Spin(t) \/ \E s \in Sentences : Call(t, s)

Spec == Init /\ [][Next]_vars
-----------------------------------------------------------------------------
Labels == {"idle", "pop", "popping", "pop_back", "popped", "new", "borrowed", "analyze",
           "decode", "emit", "push", "pushing", "pushed"}

TypeOK ==
  /\ locked \in BOOLEAN
  /\ stack \in Seq(Caches \cup {NoCache})
  /\ allocated \in SUBSET Caches
  /\ pc \in [Threads -> Labels]
  /\ op \in [Threads -> {"tag", "tag_analyzed"}]
  /\ i \in [Threads -> Nat]
  /\ c \in [Threads -> Caches \cup {NoCache}]

\* The spin lock admits one thread at a time to the stack, and is never left set behind it:
\* as long as the flag is set, a thread is on its way to clear it.
InSection(t) == pc[t] \in {"popping", "pop_back", "popped", "pushing", "pushed"}
OneInSection ==
  /\ locked <=> \E t \in Threads : InSection(t)
  /\ \A t, u \in Threads : InSection(t) /\ InSection(u) => t = u

\* A cache that exists has one place, in a call or on the stack: two calls never
\* write the same vectors, and no cache is lost to later calls.
Places(k) == Cardinality({t \in Threads : c[t] = k}) + Cardinality({n \in DOMAIN stack : stack[n] = k})
OnePlace == \A k \in Caches : Places(k) = IF k \in allocated THEN 1 ELSE 0

\* However the calls overlap, no more caches are made than there are threads: a thread
\* that finds the stack empty may make its cache after others have returned theirs.
CachesBounded == Cardinality(allocated) <= Cardinality(Threads)

\* What a call returns is what a new tagger would return for its sentence: nothing of
\* another thread's or an earlier sentence's remains in the vectors it was given.
Expected(t) == [k \in 1..Len(sentence[t]) |->
  IF op[t] = "tag" THEN <<sentence[t][k], Best(sentence[t])[k]>> ELSE Best(sentence[t])[k]]
ResultIsOwn == \A t \in Threads : pc[t] \in {"push", "pushing", "pushed"} => result[t] = Expected(t)
=============================================================================
