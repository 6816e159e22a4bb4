---------------------------- MODULE TaggerProofs ----------------------------
(* The caches that the threads of a tagger share, for any number of threads   *)
(* and any sentences, and the averages of the perceptron that a tagger is     *)
(* trained with, for any sizes of the training data.                          *)
EXTENDS TaggerCaches, AveragedPerceptron, TLAPS, FiniteSetTheorems, SequenceTheorems

USE DEF stackvars, contents, call, vars

\* Where a thread surely has a cache, and where it surely has none.
Borrowing == {"pop_back", "borrowed", "analyze", "decode", "emit", "push", "pushing"}
Without == {"idle", "pop", "popping", "new", "pushed"}

BorrowersOwn ==
  /\ \A t \in Threads : pc[t] \in Borrowing => c[t] # NoCache
  /\ \A t \in Threads : pc[t] \in Without => c[t] = NoCache
  /\ \A t \in Threads : c[t] # NoCache => c[t] \in allocated
  /\ \A t, u \in Threads : c[t] = c[u] /\ c[t] # NoCache => t = u

\* Only the top of the stack can be a released pointer, and only inside pop.
StackOfCaches ==
  /\ \A n \in 1..Len(stack) : stack[n] = NoCache =>
       n = Len(stack) /\ \E t \in Threads : pc[t] = "pop_back"
  /\ \A t \in Threads : pc[t] = "pop_back" => stack # <<>> /\ stack[Len(stack)] = NoCache
  /\ \A m, n \in 1..Len(stack) : stack[m] = stack[n] => m = n
  /\ \A n \in 1..Len(stack) : stack[n] # NoCache =>
       stack[n] \in allocated /\ \A t \in Threads : stack[n] # c[t]

NoneLost ==
  \A k \in allocated : (\E t \in Threads : c[t] = k) \/ (\E n \in 1..Len(stack) : stack[n] = k)

\* The threads that have a cache or are about to make one.
Busy == {t \in Threads : c[t] # NoCache \/ pc[t] \in {"popped", "new"}}
Stacked == {k \in Caches : \E n \in 1..Len(stack) : stack[n] = k}
SlotsBound == Cardinality(Stacked) + Cardinality(Busy) <= Cardinality(Threads)

PlaceInv ==
  /\ TypeOK /\ OneInSection /\ BorrowersOwn /\ StackOfCaches /\ NoneLost /\ SlotsBound

LEMMA FiniteParts == IsFiniteSet(Stacked) /\ IsFiniteSet(Busy)
  <1>1. Stacked \in SUBSET Caches /\ Busy \in SUBSET Threads
    BY DEF Stacked, Busy
  <1> QED BY <1>1, FS_Subset, CachesAssumption

LEMMA InitPlace == Init => PlaceInv
  <1> SUFFICES ASSUME Init PROVE PlaceInv
    OBVIOUS
  <1> USE DEF Init
  <1>1. TypeOK
    <2>1. stack \in Seq(Caches \cup {NoCache}) /\ locked \in BOOLEAN /\ allocated \in SUBSET Caches
      BY EmptySeq
    <2>2. pc \in [Threads -> Labels] /\ i \in [Threads -> Nat] /\ c \in [Threads -> Caches \cup {NoCache}]
      BY DEF Labels
    <2>3. op \in [Threads -> {"tag", "tag_analyzed"}]
      <3>1. op \in [Threads -> {"tag"}]
        OBVIOUS
      <3> QED BY <3>1
    <2> QED BY <2>1, <2>2, <2>3 DEF TypeOK
  <1>2. OneInSection
    BY DEF OneInSection, InSection
  <1>3. BorrowersOwn /\ NoneLost
    BY DEF BorrowersOwn, Borrowing, Without, NoneLost
  <1>4. Len(stack) = 0
    BY EmptySeq
  <1>5. StackOfCaches
    BY <1>4 DEF StackOfCaches
  <1>6. SlotsBound
    <2>1. Stacked = {} /\ Busy = {}
      BY <1>4 DEF Stacked, Busy
    <2> QED BY <2>1, FS_EmptySet, FS_CardinalityType, CachesAssumption DEF SlotsBound
  <1> QED BY <1>1, <1>2, <1>3, <1>5, <1>6 DEF PlaceInv

\* A step that leaves the stack and the owners alone and stays among labels of one kind.
Kinds == {<<"idle", "pop">>, <<"borrowed", "analyze">>, <<"analyze", "analyze">>, <<"analyze", "decode">>,
          <<"decode", "emit">>, <<"emit", "push">>, <<"borrowed", "decode">>, <<"decode", "push">>}

LEMMA QuietPlace ==
  ASSUME PlaceInv, NEW t \in Threads, NEW to \in Labels, <<pc[t], to>> \in Kinds,
         pc' = [pc EXCEPT ![t] = to], UNCHANGED <<locked, stack, allocated, c>>, TypeOK'
  PROVE  PlaceInv'
  <1>0. pc \in [Threads -> Labels]
    BY DEF PlaceInv, TypeOK
  <1>1. /\ pc[t] \notin {"popping", "pop_back", "popped", "pushing", "pushed", "new"}
        /\ to \notin {"popping", "pop_back", "popped", "pushing", "pushed", "new"}
        /\ pc[t] \in Borrowing <=> to \in Borrowing
        /\ pc[t] \in Without <=> to \in Without
    BY DEF Kinds, Borrowing, Without
  <1>2. OneInSection'
    BY <1>0, <1>1 DEF PlaceInv, OneInSection, InSection
  <1>3. BorrowersOwn'
    BY <1>0, <1>1 DEF PlaceInv, BorrowersOwn
  <1>4. \A u \in Threads : pc'[u] = "pop_back" <=> pc[u] = "pop_back"
    BY <1>0, <1>1
  <1>5. StackOfCaches' /\ NoneLost'
    BY <1>4 DEF PlaceInv, StackOfCaches, NoneLost
  <1>6. Busy' = Busy /\ Stacked' = Stacked
    BY <1>0, <1>1 DEF Busy, Stacked
  <1>7. SlotsBound'
    BY <1>6 DEF PlaceInv, SlotsBound
  <1> QED BY <1>2, <1>3, <1>5, <1>7 DEF PlaceInv

LEMMA AcquirePlace ==
  ASSUME PlaceInv, NEW t \in Threads, Acquire(t) PROVE PlaceInv'
  <1>0. /\ pc \in [Threads -> Labels] /\ pc[t] \in {"pop", "push"} /\ ~locked /\ locked' = TRUE
        /\ pc' = [pc EXCEPT ![t] = IF pc[t] = "pop" THEN "popping" ELSE "pushing"]
        /\ UNCHANGED <<stack, allocated, op, i, c>>
    BY DEF Acquire, Goto, PlaceInv, TypeOK
  <1>1. TypeOK'
    BY <1>0 DEF PlaceInv, TypeOK, Labels
  <1>2. OneInSection'
    BY <1>0 DEF PlaceInv, OneInSection, InSection
  <1>3. BorrowersOwn'
    BY <1>0 DEF PlaceInv, BorrowersOwn, Borrowing, Without
  <1>4. \A u \in Threads : pc'[u] = "pop_back" <=> pc[u] = "pop_back"
    BY <1>0
  <1>5. StackOfCaches' /\ NoneLost'
    BY <1>0, <1>4 DEF PlaceInv, StackOfCaches, NoneLost
  <1>6. Busy' = Busy /\ Stacked' = Stacked
    BY <1>0 DEF Busy, Stacked
  <1>7. SlotsBound'
    BY <1>6 DEF PlaceInv, SlotsBound
  <1> QED BY <1>1, <1>2, <1>3, <1>5, <1>7 DEF PlaceInv

\* A cache moves from the stack to the thread, or the thread finds none.
LEMMA TakeBackPlace ==
  ASSUME PlaceInv, NEW t \in Threads, TakeBack(t) PROVE PlaceInv'
  <1>0. /\ pc \in [Threads -> Labels] /\ pc[t] = "popping" /\ c[t] = NoCache
        /\ c \in [Threads -> Caches \cup {NoCache}] /\ stack \in Seq(Caches \cup {NoCache})
        /\ UNCHANGED <<locked, allocated, op, i>>
    BY DEF TakeBack, PlaceInv, TypeOK, BorrowersOwn, Without
  <1>1. \A u \in Threads : pc[u] # "pop_back"
    BY <1>0 DEF PlaceInv, OneInSection, InSection
  <1>2. \A n \in 1..Len(stack) : stack[n] # NoCache /\ stack[n] \in Caches
    BY <1>0, <1>1, ElementOfSeq DEF PlaceInv, StackOfCaches
  <1>3. CASE stack = <<>>
    <2>1. /\ pc' = [pc EXCEPT ![t] = "popped"] /\ UNCHANGED <<stack, c>>
      BY <1>3 DEF TakeBack, Goto
    <2>2. TypeOK' /\ OneInSection'
      BY <1>0, <2>1 DEF PlaceInv, TypeOK, Labels, OneInSection, InSection
    <2>3. BorrowersOwn'
      BY <1>0, <2>1 DEF PlaceInv, BorrowersOwn, Borrowing, Without
    <2>4. StackOfCaches' /\ NoneLost'
      BY <1>0, <1>1, <1>2, <2>1 DEF PlaceInv, StackOfCaches, NoneLost
    <2>5. SlotsBound'
      <3>1. Stacked' = {}
        BY <1>3, <2>1, EmptySeq DEF Stacked
      <3>2. Busy' \in SUBSET Threads
        BY DEF Busy
      <3>3. IsFiniteSet(Busy') /\ Cardinality(Busy') <= Cardinality(Threads)
        BY <3>2, FS_Subset, CachesAssumption
      <3>4. Cardinality(Busy') \in Nat /\ Cardinality(Stacked') = 0
        BY <3>1, <3>3, FS_CardinalityType, FS_EmptySet
      <3>5. Cardinality(Threads) \in Nat
        BY FS_CardinalityType, CachesAssumption
      <3> QED BY <3>3, <3>4, <3>5 DEF SlotsBound
    <2> QED BY <2>2, <2>3, <2>4, <2>5 DEF PlaceInv
  <1>4. CASE stack # <<>>
    <2> DEFINE top == stack[Len(stack)]
    <2>1. /\ pc' = [pc EXCEPT ![t] = "pop_back"] /\ c' = [c EXCEPT ![t] = top]
          /\ stack' = [stack EXCEPT ![Len(stack)] = NoCache]
      BY <1>4 DEF TakeBack, Goto
    <2>2. Len(stack) \in Nat \ {0} /\ Len(stack) \in 1..Len(stack)
      BY <1>0, <1>4, EmptySeq
    <2>3. top \in Caches /\ top # NoCache /\ top \in allocated /\ \A u \in Threads : c[u] # top
      BY <1>2, <2>2 DEF PlaceInv, StackOfCaches
    <2>4. /\ stack' \in Seq(Caches \cup {NoCache}) /\ Len(stack') = Len(stack)
          /\ \A n \in 1..Len(stack) : stack'[n] = IF n = Len(stack) THEN NoCache ELSE stack[n]
      BY <1>0, <2>1, <2>2, ExceptSeq
    <2>4a. \A n \in 1..Len(stack) : stack[n] = top => n = Len(stack)
      BY <2>2 DEF PlaceInv, StackOfCaches
    <2> HIDE DEF top
    <2>5. TypeOK'
      BY <1>0, <2>1, <2>3, <2>4 DEF PlaceInv, TypeOK, Labels
    <2>6. OneInSection'
      BY <1>0, <2>1 DEF PlaceInv, OneInSection, InSection
    <2>7. BorrowersOwn'
      <3>1. c'[t] = top /\ \A u \in Threads \ {t} : c'[u] = c[u] /\ pc'[u] = pc[u]
        BY <1>0, <2>1
      <3>2. pc'[t] = "pop_back"
        BY <1>0, <2>1
      <3> QED BY <1>0, <2>3, <3>1, <3>2 DEF PlaceInv, BorrowersOwn, Borrowing, Without
    <2>8. StackOfCaches'
      <3>1. pc'[t] = "pop_back" /\ \A u \in Threads \ {t} : pc'[u] # "pop_back"
        BY <1>0, <1>1, <2>1
      <3>2. \A n \in 1..Len(stack) : stack'[n] = NoCache => n = Len(stack)
        BY <1>2, <2>4
      <3>3. \A m, n \in 1..Len(stack) : stack'[m] = stack'[n] => m = n
        BY <1>2, <2>4 DEF PlaceInv, StackOfCaches
      <3>4. \A n \in 1..Len(stack) : stack'[n] # NoCache =>
               stack'[n] \in allocated' /\ \A u \in Threads : stack'[n] # c'[u]
        <4> SUFFICES ASSUME NEW n \in 1..Len(stack), stack'[n] # NoCache
                     PROVE  stack'[n] \in allocated' /\ \A u \in Threads : stack'[n] # c'[u]
          OBVIOUS
        <4>1. n # Len(stack) /\ stack'[n] = stack[n]
          BY <2>4
        <4>2. stack[n] # top /\ stack[n] \in allocated /\ \A u \in Threads : stack[n] # c[u]
          BY <1>2, <2>4a, <4>1 DEF PlaceInv, StackOfCaches
        <4> QED BY <1>0, <2>1, <4>1, <4>2
      <3>5. stack' # <<>> /\ stack'[Len(stack')] = NoCache
        BY <2>2, <2>4, EmptySeq
      <3> QED BY <2>4, <3>1, <3>2, <3>3, <3>4, <3>5 DEF StackOfCaches
    <2>9. NoneLost'
      <3> SUFFICES ASSUME NEW k \in allocated
                   PROVE (\E u \in Threads : c'[u] = k) \/ (\E n \in 1..Len(stack') : stack'[n] = k)
        BY <1>0 DEF NoneLost
      <3>1. CASE k = top
        BY <1>0, <2>1, <3>1
      <3>2. CASE \E u \in Threads : c[u] = k
        <4> PICK u \in Threads : c[u] = k
          BY <3>2
        <4>1. k # NoCache
          BY CachesAssumption DEF PlaceInv, TypeOK
        <4> QED BY <1>0, <2>1, <4>1
      <3>3. CASE k # top /\ \E n \in 1..Len(stack) : stack[n] = k
        <4> PICK n \in 1..Len(stack) : stack[n] = k
          BY <3>3
        <4>1. n # Len(stack)
          BY <3>3 DEF top
        <4> QED BY <2>4, <4>1
      <3> QED BY <3>1, <3>2, <3>3 DEF PlaceInv, NoneLost
    <2>10. SlotsBound'
      <3>1. Busy' = Busy \cup {t} /\ t \notin Busy
        BY <1>0, <2>1, <2>3 DEF Busy
      <3>2. Stacked' = Stacked \ {top} /\ top \in Stacked
        <4>1. top \in Stacked
          BY <2>2, <2>3 DEF Stacked, top
        <4>2. ASSUME NEW k \in Caches PROVE k \in Stacked' <=> k \in Stacked /\ k # top
          <5>1. k # NoCache
            BY CachesAssumption
          <5>2. (\E n \in 1..Len(stack) : stack'[n] = k) <=> (\E n \in 1..Len(stack) : n # Len(stack) /\ stack[n] = k)
            BY <2>4, <5>1
          <5>3. \A n \in 1..Len(stack) : n # Len(stack) => stack[n] # top
            BY <2>4a
          <5>4. stack[Len(stack)] = top
            BY DEF top
          <5> QED BY <2>4, <5>2, <5>3, <5>4 DEF Stacked
        <4>3. Stacked' \subseteq Caches /\ Stacked \subseteq Caches
          BY DEF Stacked
        <4> QED BY <4>1, <4>2, <4>3
      <3>3. Cardinality(Busy') = Cardinality(Busy) + 1 /\ Cardinality(Stacked') = Cardinality(Stacked) - 1
        BY <3>1, <3>2, FiniteParts, FS_AddElement, FS_RemoveElement
      <3>4. Cardinality(Busy) \in Nat /\ Cardinality(Stacked) \in Nat
        BY FiniteParts, FS_CardinalityType
      <3> QED BY <3>3, <3>4 DEF PlaceInv, SlotsBound
    <2> QED BY <2>5, <2>6, <2>7, <2>8, <2>9, <2>10 DEF PlaceInv
  <1> QED BY <1>3, <1>4
\* The released pointer leaves the stack.
LEMMA PopBackPlace ==
  ASSUME PlaceInv, NEW t \in Threads, PopBack(t) PROVE PlaceInv'
  <1>0. /\ pc \in [Threads -> Labels] /\ pc[t] = "pop_back" /\ pc' = [pc EXCEPT ![t] = "popped"]
        /\ stack \in Seq(Caches \cup {NoCache}) /\ stack' = SubSeq(stack, 1, Len(stack) - 1)
        /\ UNCHANGED <<locked, allocated, op, i, c>>
    BY DEF PopBack, Goto, PlaceInv, TypeOK
  <1>1. stack # <<>> /\ stack[Len(stack)] = NoCache /\ Len(stack) \in Nat \ {0}
    BY <1>0, EmptySeq DEF PlaceInv, StackOfCaches
  <1>2. /\ stack' \in Seq(Caches \cup {NoCache}) /\ Len(stack') = Len(stack) - 1
        /\ \A n \in 1..(Len(stack) - 1) : stack'[n] = stack[n]
    <2>1. \A n \in 1..(Len(stack) - 1) : stack[n] \in Caches \cup {NoCache}
      BY <1>0, <1>1, ElementOfSeq
    <2>2. /\ stack' \in Seq(Caches \cup {NoCache})
          /\ Len(stack') = IF 1 <= Len(stack) - 1 THEN (Len(stack) - 1) - 1 + 1 ELSE 0
          /\ \A n \in 1..((Len(stack) - 1) - 1 + 1) : stack'[n] = stack[1 + n - 1]
      BY <1>0, <1>1, <2>1, SubSeqProperties
    <2> PICK rest \in Nat : rest = Len(stack) - 1
      BY <1>1
    <2>3. Len(stack') = rest /\ rest - 1 + 1 = rest
      <3>1. 1 <= rest \/ rest = 0
        OBVIOUS
      <3> QED BY <2>2, <3>1
    <2>4. \A n \in 1..(Len(stack) - 1) : 1 + n - 1 = n
      BY <1>1
    <2> QED BY <2>2, <2>3, <2>4
  <1>3. \A n \in 1..(Len(stack) - 1) : n \in 1..Len(stack) /\ n # Len(stack)
    BY <1>1
  <1>4. \A n \in 1..Len(stack) : n # Len(stack) => n \in 1..(Len(stack) - 1) /\ stack[n] # NoCache
    BY <1>1 DEF PlaceInv, StackOfCaches
  <1>5. \A u \in Threads : pc'[u] # "pop_back"
    BY <1>0 DEF PlaceInv, OneInSection, InSection
  <1>6. TypeOK'
    BY <1>0, <1>2 DEF PlaceInv, TypeOK, Labels
  <1>7. OneInSection'
    BY <1>0 DEF PlaceInv, OneInSection, InSection
  <1>8. BorrowersOwn'
    BY <1>0 DEF PlaceInv, BorrowersOwn, Borrowing, Without
  <1>9. StackOfCaches'
    <2>1. \A n \in 1..Len(stack') : stack'[n] = stack[n] /\ stack[n] # NoCache /\ n \in 1..Len(stack)
      BY <1>2, <1>3, <1>4
    <2>2. \A n \in 1..Len(stack') : stack'[n] # NoCache
      BY <2>1
    <2>3. \A m, n \in 1..Len(stack') : stack'[m] = stack'[n] => m = n
      BY <2>1 DEF PlaceInv, StackOfCaches
    <2>4. \A n \in 1..Len(stack') : stack'[n] \in allocated' /\ \A u \in Threads : stack'[n] # c'[u]
      <3>1. \A n \in 1..Len(stack) : stack[n] # NoCache => stack[n] \in allocated /\ \A u \in Threads : stack[n] # c[u]
        BY DEF PlaceInv, StackOfCaches
      <3> QED BY <1>0, <2>1, <3>1
    <2> QED BY <1>5, <2>2, <2>3, <2>4 DEF StackOfCaches
  <1>10. Stacked' = Stacked
    <2> SUFFICES ASSUME NEW k \in Caches
                 PROVE (\E n \in 1..Len(stack') : stack'[n] = k) <=> (\E n \in 1..Len(stack) : stack[n] = k)
      BY DEF Stacked
    <2>1. k # NoCache
      BY CachesAssumption
    <2> QED BY <1>1, <1>2, <1>3, <1>4, <2>1
  <1>11. NoneLost'
    <2> SUFFICES ASSUME NEW k \in allocated
                 PROVE (\E u \in Threads : c'[u] = k) \/ (\E n \in 1..Len(stack') : stack'[n] = k)
      BY <1>0 DEF NoneLost
    <2>1. k \in Caches
      BY DEF PlaceInv, TypeOK
    <2>2. k \in Stacked <=> k \in Stacked'
      BY <1>10
    <2> QED BY <1>0, <2>1, <2>2 DEF PlaceInv, NoneLost, Stacked
  <1>12. SlotsBound'
    <2>1. c[t] # NoCache
      BY <1>0 DEF PlaceInv, BorrowersOwn, Borrowing
    <2>2. Busy' = Busy
      BY <1>0, <2>1 DEF Busy
    <2> QED BY <1>10, <2>2 DEF PlaceInv, SlotsBound
  <1> QED BY <1>6, <1>7, <1>8, <1>9, <1>11, <1>12 DEF PlaceInv

\* The cache moves from the thread to the stack.
LEMMA EmplaceBackPlace ==
  ASSUME PlaceInv, NEW t \in Threads, EmplaceBack(t) PROVE PlaceInv'
  <1> PICK k : k = c[t]
    OBVIOUS
  <1>0. /\ pc \in [Threads -> Labels] /\ pc[t] = "pushing" /\ pc' = [pc EXCEPT ![t] = "pushed"]
        /\ c \in [Threads -> Caches \cup {NoCache}] /\ c' = [c EXCEPT ![t] = NoCache]
        /\ stack \in Seq(Caches \cup {NoCache}) /\ stack' = Append(stack, k)
        /\ UNCHANGED <<locked, allocated, op, i>>
    BY DEF EmplaceBack, Goto, PlaceInv, TypeOK
  <1>1. k # NoCache /\ k \in allocated /\ k \in Caches
    BY <1>0 DEF PlaceInv, BorrowersOwn, Borrowing, TypeOK
  <1>2. /\ stack' \in Seq(Caches \cup {NoCache}) /\ Len(stack') = Len(stack) + 1 /\ Len(stack) \in Nat
        /\ stack'[Len(stack) + 1] = k /\ \A n \in 1..Len(stack) : stack'[n] = stack[n]
    BY <1>0, <1>1, AppendProperties, LenProperties
  <1>3. \A n \in 1..Len(stack') : n \in 1..Len(stack) \/ n = Len(stack) + 1
    BY <1>2
  <1>4. \A u \in Threads : pc[u] # "pop_back" /\ pc'[u] # "pop_back"
    BY <1>0 DEF PlaceInv, OneInSection, InSection
  <1>5. \A n \in 1..Len(stack) : stack[n] # NoCache /\ stack[n] # k /\ stack[n] \in allocated
    BY <1>4 DEF PlaceInv, StackOfCaches
  <1>6. TypeOK'
    BY <1>0, <1>2 DEF PlaceInv, TypeOK, Labels
  <1>7. OneInSection'
    BY <1>0 DEF PlaceInv, OneInSection, InSection
  <1>8. BorrowersOwn'
    BY <1>0 DEF PlaceInv, BorrowersOwn, Borrowing, Without
  <1>9. StackOfCaches'
    <2>1. \A n \in 1..Len(stack') : stack'[n] # NoCache /\ stack'[n] \in allocated'
      BY <1>0, <1>1, <1>2, <1>3, <1>5
    <2>2. \A m, n \in 1..Len(stack') : stack'[m] = stack'[n] => m = n
      <3>1. \A m, n \in 1..Len(stack) : stack[m] = stack[n] => m = n
        BY DEF PlaceInv, StackOfCaches
      <3> QED BY <1>2, <1>3, <1>5, <3>1
    <2>3. ASSUME NEW n \in 1..Len(stack'), NEW u \in Threads PROVE stack'[n] # c'[u]
      <3>1. CASE u = t
        BY <1>0, <2>1, <3>1
      <3>2. CASE u # t
        <4>1. c'[u] = c[u] /\ c[u] # k
          BY <1>0, <1>1, <3>2 DEF PlaceInv, BorrowersOwn
        <4>2. n \in 1..Len(stack) => stack[n] # c[u]
          BY <1>5 DEF PlaceInv, StackOfCaches
        <4> QED BY <1>2, <1>3, <4>1, <4>2
      <3> QED BY <3>1, <3>2
    <2> QED BY <1>4, <2>1, <2>2, <2>3 DEF StackOfCaches
  <1>10. Stacked' = Stacked \cup {k} /\ k \notin Stacked
    <2>1. \A x \in Caches : (\E n \in 1..Len(stack') : stack'[n] = x) <=> x = k \/ \E n \in 1..Len(stack) : stack[n] = x
      BY <1>2, <1>3
    <2> QED BY <1>1, <1>5, <2>1 DEF Stacked
  <1>11. NoneLost'
    <2> SUFFICES ASSUME NEW x \in allocated
                 PROVE (\E u \in Threads : c'[u] = x) \/ (\E n \in 1..Len(stack') : stack'[n] = x)
      BY <1>0 DEF NoneLost
    <2>1. CASE x = k
      BY <1>2, <2>1
    <2>2. CASE \E n \in 1..Len(stack) : stack[n] = x
      BY <1>2, <2>2
    <2>3. CASE x # k /\ \E u \in Threads : c[u] = x
      BY <1>0, <2>3
    <2> QED BY <2>1, <2>2, <2>3 DEF PlaceInv, NoneLost
  <1>12. SlotsBound'
    <2>1. Busy' = Busy \ {t} /\ t \in Busy
      BY <1>0, <1>1 DEF Busy
    <2>2. Cardinality(Busy') = Cardinality(Busy) - 1 /\ Cardinality(Stacked') = Cardinality(Stacked) + 1
      BY <1>10, <2>1, FiniteParts, FS_AddElement, FS_RemoveElement
    <2>3. Cardinality(Busy) \in Nat /\ Cardinality(Stacked) \in Nat
      BY FiniteParts, FS_CardinalityType
    <2> QED BY <2>2, <2>3 DEF PlaceInv, SlotsBound
  <1> QED BY <1>6, <1>7, <1>8, <1>9, <1>11, <1>12 DEF PlaceInv

LEMMA UnlockPlace ==
  ASSUME PlaceInv, NEW t \in Threads, Unlock(t) PROVE PlaceInv'
  <1>0. /\ pc \in [Threads -> Labels] /\ pc[t] \in {"popped", "pushed"} /\ locked' = FALSE
        /\ pc' = [pc EXCEPT ![t] = IF pc[t] = "pushed" THEN "idle" ELSE IF c[t] = NoCache THEN "new" ELSE "borrowed"]
        /\ UNCHANGED <<stack, allocated, op, i, c>>
    BY DEF Unlock, Goto, PlaceInv, TypeOK
  <1>1. /\ pc[t] = "pushed" => pc'[t] = "idle" /\ c[t] = NoCache
        /\ pc[t] = "popped" => IF c[t] = NoCache THEN pc'[t] = "new" ELSE pc'[t] = "borrowed"
        /\ \A u \in Threads \ {t} : pc'[u] = pc[u]
        /\ pc' \in [Threads -> Labels]
    <2>1. pc[t] = "pushed" => c[t] = NoCache
      BY DEF PlaceInv, BorrowersOwn, Without
    <2> QED BY <1>0, <2>1 DEF Labels
  <1>2. TypeOK'
    BY <1>0, <1>1 DEF PlaceInv, TypeOK
  <1>3. OneInSection'
    <2>1. \A u \in Threads \ {t} : ~InSection(u)
      BY <1>0 DEF PlaceInv, OneInSection, InSection
    <2> QED BY <1>0, <1>1, <2>1 DEF OneInSection, InSection
  <1>4. BorrowersOwn'
    BY <1>0, <1>1 DEF PlaceInv, BorrowersOwn, Borrowing, Without
  <1>5. \A u \in Threads : pc'[u] = "pop_back" <=> pc[u] = "pop_back"
    BY <1>0, <1>1
  <1>6. StackOfCaches' /\ NoneLost'
    BY <1>0, <1>5 DEF PlaceInv, StackOfCaches, NoneLost
  <1>7. Busy' = Busy /\ Stacked' = Stacked
    BY <1>0, <1>1 DEF Busy, Stacked
  <1>8. SlotsBound'
    BY <1>7 DEF PlaceInv, SlotsBound
  <1> QED BY <1>2, <1>3, <1>4, <1>6, <1>8 DEF PlaceInv

\* The new cache was nobody's.
LEMMA NewPlace ==
  ASSUME PlaceInv, NEW t \in Threads, New(t) PROVE PlaceInv'
  <1> PICK k \in Caches \ allocated : allocated' = allocated \cup {k} /\ c' = [c EXCEPT ![t] = k]
    BY DEF New
  <1>0. /\ pc \in [Threads -> Labels] /\ pc[t] = "new" /\ pc' = [pc EXCEPT ![t] = "borrowed"]
        /\ c \in [Threads -> Caches \cup {NoCache}] /\ k # NoCache
        /\ UNCHANGED <<locked, stack, op, i>>
    BY CachesAssumption DEF New, Goto, PlaceInv, TypeOK
  <1>1. \A u \in Threads : c[u] # k
    BY <1>0 DEF PlaceInv, BorrowersOwn
  <1>2. \A n \in 1..Len(stack) : stack[n] # k
    BY <1>0 DEF PlaceInv, StackOfCaches
  <1>3. TypeOK'
    BY <1>0 DEF PlaceInv, TypeOK, Labels
  <1>4. OneInSection'
    BY <1>0 DEF PlaceInv, OneInSection, InSection
  <1>5. BorrowersOwn'
    <2>1. c'[t] = k /\ pc'[t] = "borrowed" /\ \A u \in Threads \ {t} : c'[u] = c[u] /\ pc'[u] = pc[u]
      BY <1>0
    <2> QED BY <1>0, <1>1, <2>1 DEF PlaceInv, BorrowersOwn, Borrowing, Without
  <1>6. \A u \in Threads : pc'[u] = "pop_back" <=> pc[u] = "pop_back"
    BY <1>0
  <1>7. StackOfCaches'
    <2>1. \A n \in 1..Len(stack) : \A u \in Threads : stack[n] # NoCache => stack[n] # c'[u]
      BY <1>0, <1>2 DEF PlaceInv, StackOfCaches
    <2> QED BY <1>0, <1>6, <2>1 DEF PlaceInv, StackOfCaches
  <1>8. NoneLost'
    <2> SUFFICES ASSUME NEW x \in allocated \cup {k}
                 PROVE (\E u \in Threads : c'[u] = x) \/ (\E n \in 1..Len(stack) : stack[n] = x)
      BY <1>0 DEF NoneLost
    <2>1. CASE x = k
      BY <1>0, <2>1
    <2>2. CASE x # k
      <3>1. c[t] = NoCache /\ x # NoCache
        BY <1>0, <2>2, CachesAssumption DEF PlaceInv, BorrowersOwn, Without, TypeOK
      <3> QED BY <1>0, <2>2, <3>1 DEF PlaceInv, NoneLost
    <2> QED BY <2>1, <2>2
  <1>9. SlotsBound'
    <2>1. Busy' = Busy /\ Stacked' = Stacked
      BY <1>0 DEF Busy, Stacked
    <2> QED BY <2>1 DEF PlaceInv, SlotsBound
  <1> QED BY <1>3, <1>4, <1>5, <1>7, <1>8, <1>9 DEF PlaceInv

LEMMA StepPlace == PlaceInv /\ [Next]_vars => PlaceInv'
  <1> SUFFICES ASSUME PlaceInv, [Next]_vars PROVE PlaceInv'
    OBVIOUS
  <1>0. /\ pc \in [Threads -> Labels] /\ i \in [Threads -> Nat] /\ c \in [Threads -> Caches \cup {NoCache}]
        /\ op \in [Threads -> {"tag", "tag_analyzed"}]
    BY DEF PlaceInv, TypeOK
  <1>1. ASSUME NEW t \in Threads, NEW s \in Sentences, Call(t, s) PROVE PlaceInv'
    <2>1. /\ pc[t] = "idle" /\ pc' = [pc EXCEPT ![t] = "pop"] /\ UNCHANGED <<locked, stack, allocated, c, i>>
          /\ op' \in [Threads -> {"tag", "tag_analyzed"}]
      BY <1>0, <1>1 DEF Call, Goto
    <2>2. "pop" \in Labels /\ <<pc[t], "pop">> \in Kinds
      BY <2>1 DEF Labels, Kinds
    <2>3. TypeOK'
      BY <1>0, <2>1, <2>2 DEF PlaceInv, TypeOK
    <2> QED BY <2>1, <2>2, <2>3, QuietPlace
  <1>2. ASSUME NEW t \in Threads, NEW to \in Labels, <<pc[t], to>> \in Kinds, pc' = [pc EXCEPT ![t] = to],
               UNCHANGED <<locked, stack, allocated, c, op>>, i' \in [Threads -> Nat]
        PROVE  PlaceInv'
    <2>1. TypeOK'
      BY <1>0, <1>2 DEF PlaceInv, TypeOK
    <2> QED BY <1>2, <2>1, QuietPlace
  <1>3. ASSUME NEW t \in Threads, ResizeForms(t) PROVE PlaceInv'
    BY <1>0, <1>2, <1>3 DEF ResizeForms, Goto, Kinds, Labels
  <1>4. ASSUME NEW t \in Threads, Analyze(t) PROVE PlaceInv'
    <2>1. pc[t] = "analyze" /\ pc' = [pc EXCEPT ![t] = "analyze"]
      BY <1>0, <1>4 DEF Analyze
    <2>2. i' \in [Threads -> Nat]
      BY <1>0, <1>4 DEF Analyze
    <2> QED BY <1>2, <1>4, <2>1, <2>2 DEF Analyze, Kinds, Labels
  <1>5. ASSUME NEW t \in Threads, Score(t) PROVE PlaceInv'
    BY <1>0, <1>2, <1>5 DEF Score, Goto, Kinds, Labels
  <1>6. ASSUME NEW t \in Threads, Decode(t) PROVE PlaceInv'
    BY <1>0, <1>2, <1>6 DEF Decode, Goto, Kinds, Labels
  <1>7. ASSUME NEW t \in Threads, Emit(t) PROVE PlaceInv'
    BY <1>0, <1>2, <1>7 DEF Emit, Goto, Kinds, Labels
  <1>8. ASSUME NEW t \in Threads, ScoreAnalyzed(t) PROVE PlaceInv'
    BY <1>0, <1>2, <1>8 DEF ScoreAnalyzed, Goto, Kinds, Labels
  <1>9. ASSUME NEW t \in Threads, DecodeAnalyzed(t) PROVE PlaceInv'
    BY <1>0, <1>2, <1>9 DEF DecodeAnalyzed, Goto, Kinds, Labels
  <1>10. ASSUME UNCHANGED vars PROVE PlaceInv'
    <2>1. UNCHANGED <<locked, stack, allocated, pc, op, i, c>>
      BY <1>10
    <2>2. TypeOK' /\ OneInSection' /\ BorrowersOwn'
      BY <2>1 DEF PlaceInv, TypeOK, OneInSection, InSection, BorrowersOwn
    <2>3. StackOfCaches' /\ NoneLost'
      BY <2>1 DEF PlaceInv, StackOfCaches, NoneLost
    <2>4. SlotsBound'
      BY <2>1 DEF PlaceInv, SlotsBound, Busy, Stacked
    <2> QED BY <2>2, <2>3, <2>4 DEF PlaceInv
  <1> HIDE DEF vars
  <1>11. ASSUME NEW t \in Threads, Step(t) PROVE PlaceInv'
    BY <1>3, <1>4, <1>5, <1>6, <1>7, <1>8, <1>9, <1>11, AcquirePlace, TakeBackPlace, PopBackPlace,
       EmplaceBackPlace, UnlockPlace, NewPlace DEF Step
  <1>12. ASSUME NEW t \in Threads, Spin(t) PROVE PlaceInv'
    BY <1>10, <1>12 DEF Spin
  <1> QED BY <1>1, <1>10, <1>11, <1>12 DEF Next

THEOREM PlacesAlways == Spec => []PlaceInv
  <1> HIDE DEF vars
  <1> QED BY InitPlace, StepPlace, PTL DEF Spec

\* The state has the shape the code gives it, for any numbers of threads and caches.
THEOREM TypeCorrect == Spec => []TypeOK
  <1>1. PlaceInv => TypeOK
    BY DEF PlaceInv
  <1> QED BY <1>1, PlacesAlways, PTL

\* The spin lock of threadsafe_stack admits one thread at a time.
THEOREM SectionIsExclusive == Spec => []OneInSection
  <1>1. PlaceInv => OneInSection
    BY DEF PlaceInv
  <1> QED BY <1>1, PlacesAlways, PTL

LEMMA PlaceIsOne == PlaceInv => OnePlace
  <1> SUFFICES ASSUME PlaceInv, NEW k \in Caches
               PROVE  Places(k) = IF k \in allocated THEN 1 ELSE 0
    BY DEF OnePlace
  <1> DEFINE owners == {t \in Threads : c[t] = k}
             slots == {n \in DOMAIN stack : stack[n] = k}
  <1>0. k # NoCache /\ stack \in Seq(Caches \cup {NoCache}) /\ DOMAIN stack = 1..Len(stack)
    BY CachesAssumption, LenProperties DEF PlaceInv, TypeOK
  <1>0a. Places(k) = Cardinality(owners) + Cardinality(slots)
    BY DEF Places
  <1>1. CASE \E t \in Threads : c[t] = k
    <2> PICK t \in Threads : c[t] = k
      BY <1>1
    <2>1. owners = {t}
      BY <1>0 DEF PlaceInv, BorrowersOwn
    <2>2. slots = {}
      BY <1>0 DEF PlaceInv, StackOfCaches
    <2>2a. k \in allocated
      BY <1>0 DEF PlaceInv, BorrowersOwn
    <2>3. Cardinality({t}) = 1 /\ Cardinality({}) = 0
      BY FS_Singleton, FS_EmptySet
    <2> HIDE DEF owners, slots
    <2> QED BY <1>0a, <2>1, <2>2, <2>2a, <2>3
  <1>2. CASE \E n \in 1..Len(stack) : stack[n] = k
    <2> PICK n \in 1..Len(stack) : stack[n] = k
      BY <1>2
    <2>1. slots = {n}
      BY <1>0 DEF PlaceInv, StackOfCaches
    <2>2. owners = {} /\ k \in allocated
      BY <1>0 DEF PlaceInv, StackOfCaches
    <2>3. Cardinality({n}) = 1 /\ Cardinality({}) = 0
      BY FS_Singleton, FS_EmptySet
    <2> HIDE DEF owners, slots
    <2> QED BY <1>0a, <2>1, <2>2, <2>3
  <1>3. CASE ~ (\E t \in Threads : c[t] = k) /\ ~ (\E n \in 1..Len(stack) : stack[n] = k)
    <2>1. slots = {} /\ owners = {} /\ k \notin allocated
      BY <1>0, <1>3 DEF PlaceInv, NoneLost
    <2>2. Cardinality({}) = 0
      BY FS_EmptySet
    <2> HIDE DEF owners, slots
    <2> QED BY <1>0a, <2>1, <2>2
  <1> QED BY <1>1, <1>2, <1>3

\* Two calls never write the same vectors, and no cache is lost.
THEOREM CachesHaveOnePlace == Spec => []OnePlace
  <1> QED BY PlaceIsOne, PlacesAlways, PTL

\* Every cache is on the stack or belongs to a busy thread.
LEMMA PlaceIsBounded == PlaceInv => CachesBounded
  <1> SUFFICES ASSUME PlaceInv PROVE CachesBounded
    OBVIOUS
  <1> DEFINE owners == {t \in Threads : c[t] # NoCache}
             owned == {c[t] : t \in owners}
             f == [t \in owners |-> c[t]]
  <1>1. owners \subseteq Busy /\ IsFiniteSet(Busy) /\ IsFiniteSet(Stacked)
    BY FiniteParts DEF Busy
  <1>2. IsFiniteSet(owners) /\ Cardinality(owners) <= Cardinality(Busy)
    BY <1>1, FS_Subset
  <1>3. f \in Surjection(owners, owned)
    BY DEF Surjection
  <1>4. IsFiniteSet(owned) /\ Cardinality(owned) <= Cardinality(owners)
    <2> HIDE DEF owners, owned, f
    <2> QED BY <1>2, <1>3, FS_Surjection
  <1>5. allocated \subseteq Stacked \cup owned
    <2> SUFFICES ASSUME NEW k \in allocated PROVE k \in Stacked \cup owned
      OBVIOUS
    <2>1. k \in Caches /\ k # NoCache
      BY CachesAssumption DEF PlaceInv, TypeOK
    <2>2. CASE \E t \in Threads : c[t] = k
      BY <2>1, <2>2
    <2>3. CASE \E n \in 1..Len(stack) : stack[n] = k
      BY <2>1, <2>3 DEF Stacked
    <2> QED BY <2>2, <2>3 DEF PlaceInv, NoneLost
  <1> HIDE DEF owners, owned, f
  <1>6. /\ IsFiniteSet(Stacked \cup owned)
        /\ Cardinality(Stacked \cup owned) =
             Cardinality(Stacked) + Cardinality(owned) - Cardinality(Stacked \cap owned)
    BY <1>1, <1>4, FS_Union
  <1>7. Cardinality(allocated) <= Cardinality(Stacked \cup owned)
    BY <1>5, <1>6, FS_Subset
  <1>8. IsFiniteSet(Stacked \cap owned) /\ IsFiniteSet(allocated)
    BY <1>1, <1>5, <1>6, FS_Subset
  <1>9. /\ Cardinality(Stacked \cap owned) \in Nat /\ Cardinality(Stacked) \in Nat
        /\ Cardinality(owned) \in Nat /\ Cardinality(owners) \in Nat /\ Cardinality(Busy) \in Nat
        /\ Cardinality(allocated) \in Nat /\ Cardinality(Threads) \in Nat
    BY <1>1, <1>2, <1>4, <1>8, FS_CardinalityType, CachesAssumption
  <1>10. Cardinality(Stacked) + Cardinality(Busy) <= Cardinality(Threads)
    BY DEF PlaceInv, SlotsBound
  <1> QED BY <1>2, <1>4, <1>6, <1>7, <1>9, <1>10 DEF CachesBounded

\* No more caches than threads, however many calls.
THEOREM CachesAreBounded == Spec => []CachesBounded
  <1> QED BY PlaceIsBounded, PlacesAlways, PTL
-----------------------------------------------------------------------------
(* The contents of the caches: what each thread may rely on in the vectors of the cache it borrows. *)

\* The forms, and the filler of an element that was never written.
Cells == STRING \cup {"none"}

ContentsOK ==
  /\ forms \in [Caches -> Seq(Cells)] /\ analyses \in [Caches -> Seq(Cells)]
  /\ tags \in [Caches -> Seq(Nat)] /\ nodes \in [Caches -> Seq(Cells)]

\* The first n analyses of t's cache are those of its own sentence.
Analyzed(t, n) ==
  /\ n <= Len(sentence[t]) /\ Len(sentence[t]) <= Len(analyses[c[t]])
  /\ \A m \in 1..n : analyses[c[t]][m] = sentence[t][m]

CallInv(t) ==
  /\ pc[t] # "idle" => sentence[t] \in Sentences
  /\ pc[t] \in {"analyze", "emit"} => op[t] = "tag"
  /\ pc[t] = "analyze" => Len(forms[c[t]]) = Len(sentence[t]) /\ Analyzed(t, i[t])
  /\ pc[t] = "decode" => nodes[c[t]] = sentence[t]
  /\ pc[t] = "decode" /\ op[t] = "tag" =>
       Analyzed(t, Len(sentence[t])) /\ Len(sentence[t]) <= Len(tags[c[t]])
  /\ pc[t] = "decode" /\ op[t] = "tag_analyzed" => DOMAIN result[t] = 1..Len(sentence[t])
  /\ pc[t] = "emit" =>
       /\ Analyzed(t, Len(sentence[t]))
       /\ \A m \in 1..Len(sentence[t]) : tags[c[t]][m] = Best(sentence[t])[m]
  /\ pc[t] \in {"push", "pushing", "pushed"} => result[t] = Expected(t)

ContentInv ==
  /\ ContentsOK /\ DOMAIN result = Threads /\ DOMAIN sentence = Threads
  /\ \A t \in Threads : CallInv(t)

LEMMA SequenceOf ==
  ASSUME NEW n \in Nat, NEW S, NEW f \in [1..n -> S]
  PROVE  f \in Seq(S) /\ Len(f) = n
  <1>1. f \in Seq(S)
    BY SeqDef
  <1>2. DOMAIN f = 1..n /\ DOMAIN f = 1..Len(f) /\ Len(f) \in Nat
    BY <1>1, LenProperties
  <1> QED BY <1>1, <1>2

LEMMA ResizedIsSeq ==
  ASSUME NEW S, NEW s \in Seq(S), NEW n \in Nat, NEW v \in S
  PROVE  /\ Resize(s, n, v) \in Seq(S) /\ Len(Resize(s, n, v)) = n
  <1>1. Len(s) \in Nat /\ \A m \in 1..Len(s) : s[m] \in S
    BY LenProperties, ElementOfSeq
  <1>2. \A m \in 1..n : m <= Len(s) => m \in 1..Len(s)
    BY <1>1
  <1>3. Resize(s, n, v) \in [1..n -> S]
    BY <1>1, <1>2 DEF Resize
  <1> HIDE DEF Resize
  <1> QED BY <1>3, SequenceOf

\* What is written into the cache of one thread is not seen by another.
Kept(u) ==
  /\ pc'[u] = pc[u] /\ op'[u] = op[u] /\ sentence'[u] = sentence[u]
  /\ i'[u] = i[u] /\ c'[u] = c[u] /\ result'[u] = result[u]
  /\ c[u] # NoCache => /\ forms'[c[u]] = forms[c[u]] /\ analyses'[c[u]] = analyses[c[u]]
                       /\ tags'[c[u]] = tags[c[u]] /\ nodes'[c[u]] = nodes[c[u]]

LEMMA KeptCall ==
  ASSUME PlaceInv, NEW u \in Threads, CallInv(u), Kept(u)
  PROVE  CallInv(u)'
  <1>1. pc[u] \in {"analyze", "decode", "emit"} => c[u] # NoCache
    BY DEF PlaceInv, BorrowersOwn, Borrowing
  <1>2. Expected(u)' = Expected(u)
    BY DEF Kept, Expected
  <1>3. ASSUME NEW n PROVE c[u] # NoCache /\ Analyzed(u, n) => Analyzed(u, n)'
    BY DEF Kept, Analyzed
  <1> QED BY <1>1, <1>2, <1>3 DEF Kept, CallInv

\* The owner of a cache is the only thread that reads it.
LEMMA OthersKept ==
  ASSUME PlaceInv, ContentInv, NEW t \in Threads, NEW k, k = c[t], k # NoCache,
         \A x \in Caches \ {k} : /\ forms'[x] = forms[x] /\ analyses'[x] = analyses[x]
                                 /\ tags'[x] = tags[x] /\ nodes'[x] = nodes[x],
         \A u \in Threads \ {t} : /\ pc'[u] = pc[u] /\ op'[u] = op[u] /\ sentence'[u] = sentence[u]
                                  /\ i'[u] = i[u] /\ c'[u] = c[u] /\ result'[u] = result[u]
  PROVE  \A u \in Threads \ {t} : CallInv(u)'
  <1> SUFFICES ASSUME NEW u \in Threads \ {t} PROVE CallInv(u)'
    OBVIOUS
  <1>1. c[u] # NoCache => c[u] \in Caches \ {k}
    BY DEF PlaceInv, TypeOK, BorrowersOwn
  <1>2. Kept(u)
    BY <1>1 DEF Kept
  <1> QED BY <1>2, KeptCall DEF ContentInv

LEMMA InitContent == Init => ContentInv
  <1> SUFFICES ASSUME Init PROVE ContentInv
    OBVIOUS
  <1>1. <<>> \in Seq(Cells) /\ <<>> \in Seq(Nat)
    BY EmptySeq
  <1>2. ContentsOK
    BY <1>1 DEF Init, ContentsOK
  <1>3. \A t \in Threads : pc[t] = "idle"
    BY DEF Init
  <1>4. \A t \in Threads : CallInv(t)
    BY <1>3 DEF CallInv
  <1> QED BY <1>2, <1>4 DEF Init, ContentInv

\* The steps of the stack and of new touch no contents.
StackLabels == {"pop", "popping", "pop_back", "popped", "new", "borrowed"}

LEMMA StackStepContent ==
  ASSUME PlaceInv, ContentInv, NEW t \in Threads,
         Acquire(t) \/ TakeBack(t) \/ PopBack(t) \/ EmplaceBack(t) \/ Unlock(t) \/ New(t)
  PROVE  ContentInv'
  <1>0. pc \in [Threads -> Labels] /\ c \in [Threads -> Caches \cup {NoCache}]
    BY DEF PlaceInv, TypeOK
  <1>1. UNCHANGED <<forms, analyses, tags, nodes, op, sentence, i, result>>
    BY DEF Acquire, TakeBack, PopBack, EmplaceBack, Unlock, New
  <1>2. \A u \in Threads \ {t} : pc'[u] = pc[u] /\ c'[u] = c[u]
    BY <1>0 DEF Acquire, TakeBack, PopBack, EmplaceBack, Unlock, New, Goto
  <1>3. \/ pc[t] \in StackLabels /\ pc'[t] \in StackLabels
        \/ pc[t] \in {"push", "pushing", "pushed"} /\ pc'[t] \in {"pushing", "pushed", "idle"}
    BY <1>0 DEF Acquire, TakeBack, PopBack, EmplaceBack, Unlock, New, Goto, StackLabels
  <1>4. ContentsOK'
    BY <1>1 DEF ContentInv, ContentsOK
  <1>5. \A u \in Threads \ {t} : CallInv(u)'
    <2> SUFFICES ASSUME NEW u \in Threads \ {t} PROVE CallInv(u)'
      OBVIOUS
    <2> QED BY <1>1, <1>2, KeptCall DEF ContentInv, Kept
  <1>6. CallInv(t)'
    <2>1. Expected(t)' = Expected(t)
      BY <1>1 DEF Expected
    <2>2. sentence[t] \in Sentences
      BY <1>3 DEF ContentInv, CallInv, StackLabels
    <2>3. pc'[t] \in {"pushing", "pushed"} => result[t] = Expected(t)
      BY <1>3 DEF ContentInv, CallInv, StackLabels
    <2>4. pc'[t] \notin {"analyze", "emit", "decode", "push"}
      BY <1>3 DEF StackLabels
    <2> QED BY <1>1, <2>1, <2>2, <2>3, <2>4 DEF CallInv
  <1> QED BY <1>1, <1>4, <1>5, <1>6 DEF ContentInv

\* What holds of a thread that works on its cache k for the sentence s.
LEMMA AtWork ==
  ASSUME PlaceInv, ContentInv, NEW t \in Threads, pc[t] \in {"borrowed", "analyze", "decode", "emit"}
  PROVE  /\ c[t] \in Caches /\ c[t] # NoCache /\ pc \in [Threads -> Labels] /\ i \in [Threads -> Nat]
         /\ sentence[t] \in Sentences /\ sentence[t] \in Seq(Cells) /\ Len(sentence[t]) \in Nat
         /\ forms[c[t]] \in Seq(Cells) /\ analyses[c[t]] \in Seq(Cells)
         /\ tags[c[t]] \in Seq(Nat) /\ nodes[c[t]] \in Seq(Cells)
         /\ Len(forms[c[t]]) \in Nat /\ Len(analyses[c[t]]) \in Nat /\ Len(tags[c[t]]) \in Nat
         /\ DOMAIN tags[c[t]] = 1..Len(tags[c[t]]) /\ DOMAIN sentence[t] = 1..Len(sentence[t])
  <1>1. c[t] \in Caches /\ c[t] # NoCache /\ pc \in [Threads -> Labels] /\ i \in [Threads -> Nat]
    BY DEF PlaceInv, TypeOK, BorrowersOwn, Borrowing
  <1>2. sentence[t] \in Sentences /\ sentence[t] \in Seq(Cells)
    <2>1. sentence[t] \in Sentences /\ sentence[t] \in Seq(STRING) /\ STRING \subseteq Cells
      BY BestAssumption DEF ContentInv, CallInv, Cells
    <2> QED BY <2>1, SeqMonotonic
  <1>3. /\ forms[c[t]] \in Seq(Cells) /\ analyses[c[t]] \in Seq(Cells)
        /\ tags[c[t]] \in Seq(Nat) /\ nodes[c[t]] \in Seq(Cells)
    BY <1>1 DEF ContentInv, ContentsOK
  <1> QED BY <1>1, <1>2, <1>3, LenProperties

LEMMA CallContent ==
  ASSUME PlaceInv, ContentInv, NEW t \in Threads, NEW s \in Sentences, Call(t, s)
  PROVE  ContentInv'
  <1>0. pc \in [Threads -> Labels] /\ op \in [Threads -> {"tag", "tag_analyzed"}]
    BY DEF PlaceInv, TypeOK
  <1>1. /\ UNCHANGED <<forms, analyses, tags, nodes, i, c>> /\ pc' = [pc EXCEPT ![t] = "pop"]
        /\ sentence' = [sentence EXCEPT ![t] = s] /\ result' = [result EXCEPT ![t] = <<>>]
    BY DEF Call, Goto
  <1>2. /\ DOMAIN result' = Threads /\ DOMAIN sentence' = Threads /\ sentence'[t] = s /\ pc'[t] = "pop"
        /\ \A u \in Threads \ {t} : /\ pc'[u] = pc[u] /\ op'[u] = op[u] /\ sentence'[u] = sentence[u]
                                    /\ result'[u] = result[u]
    BY <1>0, <1>1 DEF ContentInv, Call
  <1>3. ContentsOK'
    BY <1>1 DEF ContentInv, ContentsOK
  <1>4. CallInv(t)'
    BY <1>2 DEF CallInv
  <1>5. \A u \in Threads \ {t} : CallInv(u)'
    <2> SUFFICES ASSUME NEW u \in Threads \ {t} PROVE CallInv(u)'
      OBVIOUS
    <2> QED BY <1>1, <1>2, KeptCall DEF ContentInv, Kept
  <1> QED BY <1>2, <1>3, <1>4, <1>5 DEF ContentInv

LEMMA ResizeContent ==
  ASSUME PlaceInv, ContentInv, NEW t \in Threads, ResizeForms(t)
  PROVE  ContentInv'
  <1> PICK k, n, m : /\ k = c[t] /\ n = Len(sentence[t])
                     /\ m = IF n > Len(analyses[k]) THEN n ELSE Len(analyses[k])
    OBVIOUS
  <1>0. /\ pc[t] = "borrowed" /\ op[t] = "tag" /\ pc' = [pc EXCEPT ![t] = "analyze"]
        /\ i' = [i EXCEPT ![t] = 0] /\ UNCHANGED <<tags, nodes, op, sentence, c, result>>
        /\ forms' = [forms EXCEPT ![k] = Resize(forms[k], n, "none")]
        /\ analyses' = [analyses EXCEPT ![k] = Resize(analyses[k], m, "none")]
    BY DEF ResizeForms, Goto, Put
  <1>1. /\ k \in Caches /\ k # NoCache /\ pc \in [Threads -> Labels] /\ i \in [Threads -> Nat]
        /\ sentence[t] \in Sentences /\ n \in Nat /\ m \in Nat /\ n <= m
        /\ forms[k] \in Seq(Cells) /\ analyses[k] \in Seq(Cells)
    BY <1>0, AtWork
  <1>2. /\ Resize(forms[k], n, "none") \in Seq(Cells) /\ Len(Resize(forms[k], n, "none")) = n
        /\ Resize(analyses[k], m, "none") \in Seq(Cells) /\ Len(Resize(analyses[k], m, "none")) = m
    <2>1. ASSUME NEW x \in Seq(Cells), NEW j \in Nat
          PROVE  Resize(x, j, "none") \in Seq(Cells) /\ Len(Resize(x, j, "none")) = j
      <3> PICK f : f = Resize(x, j, "none")
        OBVIOUS
      <3>1. \A l \in 1..Len(x) : x[l] \in Cells
        BY ElementOfSeq
      <3>2. Len(x) \in Nat /\ \A l \in 1..j : l <= Len(x) => l \in 1..Len(x)
        BY LenProperties
      <3>3. f \in [1..j -> Cells]
        BY <3>1, <3>2 DEF Resize, Cells
      <3> QED BY <3>3, SequenceOf
    <2> QED BY <1>1, <2>1
  <1>3. ContentsOK'
    BY <1>0, <1>1, <1>2 DEF ContentInv, ContentsOK
  <1>4. CallInv(t)'
    <2>1. /\ forms'[k] = Resize(forms[k], n, "none") /\ analyses'[k] = Resize(analyses[k], m, "none")
          /\ pc'[t] = "analyze" /\ i'[t] = 0
      BY <1>0, <1>1 DEF ContentInv, ContentsOK
    <2>2. Analyzed(t, i[t])'
      BY <1>0, <1>1, <1>2, <2>1 DEF Analyzed
    <2> QED BY <1>0, <1>1, <1>2, <2>1, <2>2 DEF CallInv
  <1>5. \A u \in Threads \ {t} : CallInv(u)'
    <2>1. \A x \in Caches \ {k} : /\ forms'[x] = forms[x] /\ analyses'[x] = analyses[x]
                                  /\ tags'[x] = tags[x] /\ nodes'[x] = nodes[x]
      BY <1>0 DEF ContentInv, ContentsOK
    <2>2. \A u \in Threads \ {t} : /\ pc'[u] = pc[u] /\ op'[u] = op[u] /\ sentence'[u] = sentence[u]
                                   /\ i'[u] = i[u] /\ c'[u] = c[u] /\ result'[u] = result[u]
      BY <1>0, <1>1
    <2> QED BY <1>1, <2>1, <2>2, OthersKept
  <1> QED BY <1>0, <1>3, <1>4, <1>5 DEF ContentInv

LEMMA AnalyzeContent ==
  ASSUME PlaceInv, ContentInv, NEW t \in Threads, Analyze(t)
  PROVE  ContentInv'
  <1> PICK k, n, form : k = c[t] /\ n = i[t] /\ form = sentence[t][n + 1]
    OBVIOUS
  <1>0. /\ pc[t] = "analyze" /\ n < Len(sentence[t]) /\ i' = [i EXCEPT ![t] = n + 1]
        /\ UNCHANGED <<tags, nodes, pc, op, sentence, c, result>>
        /\ forms' = [forms EXCEPT ![k] = [forms[k] EXCEPT ![n + 1] = form]]
        /\ analyses' = [analyses EXCEPT ![k] = [analyses[k] EXCEPT ![n + 1] = form]]
    BY DEF Analyze
  <1>1. /\ k \in Caches /\ k # NoCache /\ i \in [Threads -> Nat] /\ n \in Nat
        /\ sentence[t] \in Sentences /\ sentence[t] \in Seq(Cells) /\ Len(sentence[t]) \in Nat
        /\ forms[k] \in Seq(Cells) /\ analyses[k] \in Seq(Cells) /\ Len(analyses[k]) \in Nat
    BY <1>0, AtWork
  <1>2. op[t] = "tag" /\ Len(forms[k]) = Len(sentence[t]) /\ Analyzed(t, n)
    BY <1>0 DEF ContentInv, CallInv
  <1>3. n + 1 \in 1..Len(sentence[t]) /\ n + 1 \in 1..Len(forms[k]) /\ n + 1 \in 1..Len(analyses[k])
    BY <1>0, <1>1, <1>2 DEF Analyzed
  <1>4. form \in Cells
    BY <1>1, <1>3, ElementOfSeq
  <1>5. /\ forms'[k] = [forms[k] EXCEPT ![n + 1] = form] /\ analyses'[k] = [analyses[k] EXCEPT ![n + 1] = form]
    BY <1>0, <1>1 DEF ContentInv, ContentsOK
  <1>6. /\ forms'[k] \in Seq(Cells) /\ Len(forms'[k]) = Len(forms[k])
        /\ analyses'[k] \in Seq(Cells) /\ Len(analyses'[k]) = Len(analyses[k])
        /\ \A j \in 1..Len(analyses[k]) : analyses'[k][j] = IF j = n + 1 THEN form ELSE analyses[k][j]
    BY <1>1, <1>3, <1>4, <1>5, ExceptSeq
  <1>7. ContentsOK'
    BY <1>0, <1>1, <1>5, <1>6 DEF ContentInv, ContentsOK
  <1>8. CallInv(t)'
    <2>1. i'[t] = n + 1
      BY <1>0, <1>1
    <2>2. \A j \in 1..(n + 1) : j \in 1..Len(analyses[k]) /\ (j # n + 1 => j \in 1..n)
      BY <1>1, <1>3
    <2>3. \A j \in 1..(n + 1) : analyses'[k][j] = sentence[t][j]
      BY <1>2, <1>6, <2>2 DEF Analyzed
    <2>4. Analyzed(t, i[t])'
      BY <1>0, <1>1, <1>2, <1>3, <1>6, <2>1, <2>3 DEF Analyzed
    <2> QED BY <1>0, <1>1, <1>2, <1>6, <2>4 DEF CallInv
  <1>9. \A u \in Threads \ {t} : CallInv(u)'
    <2>1. \A x \in Caches \ {k} : /\ forms'[x] = forms[x] /\ analyses'[x] = analyses[x]
                                  /\ tags'[x] = tags[x] /\ nodes'[x] = nodes[x]
      BY <1>0 DEF ContentInv, ContentsOK
    <2>2. \A u \in Threads \ {t} : /\ pc'[u] = pc[u] /\ op'[u] = op[u] /\ sentence'[u] = sentence[u]
                                   /\ i'[u] = i[u] /\ c'[u] = c[u] /\ result'[u] = result[u]
      BY <1>0, <1>1
    <2> QED BY <1>1, <2>1, <2>2, OthersKept
  <1> QED BY <1>0, <1>7, <1>8, <1>9 DEF ContentInv

LEMMA ScoreContent ==
  ASSUME PlaceInv, ContentInv, NEW t \in Threads, Score(t)
  PROVE  ContentInv'
  <1> PICK k, n, room : /\ k = c[t] /\ n = Len(sentence[t])
                        /\ room = IF Len(tags[k]) < n THEN Resize(tags[k], n * 2, 0) ELSE tags[k]
    OBVIOUS
  <1>0. /\ pc[t] = "analyze" /\ i[t] = n /\ pc' = [pc EXCEPT ![t] = "decode"]
        /\ UNCHANGED <<forms, analyses, op, sentence, i, c, result>>
        /\ nodes' = [nodes EXCEPT ![k] = SubSeq(analyses[k], 1, Len(forms[k]))]
        /\ tags' = [tags EXCEPT ![k] = room]
    BY DEF Score, Goto, Put
  <1>1. /\ k \in Caches /\ k # NoCache /\ pc \in [Threads -> Labels] /\ n \in Nat
        /\ sentence[t] \in Sentences /\ sentence[t] \in Seq(Cells)
        /\ analyses[k] \in Seq(Cells) /\ Len(analyses[k]) \in Nat
        /\ tags[k] \in Seq(Nat) /\ Len(tags[k]) \in Nat
    BY <1>0, AtWork
  <1>2. op[t] = "tag" /\ Len(forms[k]) = n /\ Analyzed(t, n)
    BY <1>0 DEF ContentInv, CallInv
  <1>3. SubSeq(analyses[k], 1, n) = sentence[t]
    <2>1. n <= Len(analyses[k]) /\ \A j \in 1..n : analyses[k][j] = sentence[t][j]
      BY <1>2 DEF Analyzed
    <2>2. \A j \in 1..n : j \in 1..Len(analyses[k]) /\ 1 + j - 1 = j
      BY <1>1, <2>1
    <2>3. \A j \in 1..n : analyses[k][j] \in Cells
      BY <1>1, <2>2, ElementOfSeq
    <2>4. /\ SubSeq(analyses[k], 1, n) \in Seq(Cells)
          /\ Len(SubSeq(analyses[k], 1, n)) = IF 1 <= n THEN n - 1 + 1 ELSE 0
          /\ \A j \in 1..(n - 1 + 1) : SubSeq(analyses[k], 1, n)[j] = analyses[k][1 + j - 1]
      BY <1>1, <2>3, SubSeqProperties
    <2>5. Len(SubSeq(analyses[k], 1, n)) = n
      BY <1>1, <2>4
    <2>6. \A j \in 1..n : SubSeq(analyses[k], 1, n)[j] = sentence[t][j]
      BY <1>1, <2>1, <2>2, <2>4
    <2> QED BY <1>0, <1>1, <2>4, <2>5, <2>6, SeqEqual
  <1>4. room \in Seq(Nat) /\ n <= Len(room)
    <2>1. n * 2 \in Nat /\ n <= n * 2
      BY <1>1
    <2>2. Resize(tags[k], n * 2, 0) \in Seq(Nat) /\ Len(Resize(tags[k], n * 2, 0)) = n * 2
      <3>1. tags[k] \in Seq(Nat) /\ n * 2 \in Nat /\ 0 \in Nat
        BY <1>1, <2>1
      <3> QED BY <3>1, ResizedIsSeq
    <2> QED BY <1>1, <2>1, <2>2
  <1>5. nodes'[k] = sentence[t] /\ tags'[k] = room /\ pc'[t] = "decode"
    BY <1>0, <1>1, <1>2, <1>3 DEF ContentInv, ContentsOK
  <1>6. ContentsOK'
    BY <1>0, <1>1, <1>2, <1>3, <1>4 DEF ContentInv, ContentsOK
  <1>7. CallInv(t)'
    <2>1. Analyzed(t, Len(sentence[t]))'
      BY <1>0, <1>2 DEF Analyzed
    <2> QED BY <1>0, <1>1, <1>2, <1>4, <1>5, <2>1 DEF CallInv
  <1>8. \A u \in Threads \ {t} : CallInv(u)'
    <2>1. \A x \in Caches \ {k} : /\ forms'[x] = forms[x] /\ analyses'[x] = analyses[x]
                                  /\ tags'[x] = tags[x] /\ nodes'[x] = nodes[x]
      BY <1>0 DEF ContentInv, ContentsOK
    <2>2. \A u \in Threads \ {t} : /\ pc'[u] = pc[u] /\ op'[u] = op[u] /\ sentence'[u] = sentence[u]
                                   /\ i'[u] = i[u] /\ c'[u] = c[u] /\ result'[u] = result[u]
      BY <1>0, <1>1
    <2> QED BY <1>1, <2>1, <2>2, OthersKept
  <1> QED BY <1>0, <1>6, <1>7, <1>8 DEF ContentInv

LEMMA DecodeContent ==
  ASSUME PlaceInv, ContentInv, NEW t \in Threads, Decode(t)
  PROVE  ContentInv'
  <1> PICK k, n, s, new : /\ k = c[t] /\ n = Len(sentence[t]) /\ s = sentence[t]
                          /\ new = [j \in DOMAIN tags[k] |-> IF j \in DOMAIN nodes[k] THEN Best(nodes[k])[j] ELSE tags[k][j]]
    OBVIOUS
  <1>0. /\ pc[t] = "decode" /\ op[t] = "tag" /\ pc' = [pc EXCEPT ![t] = "emit"]
        /\ UNCHANGED <<forms, analyses, nodes, op, sentence, i, c, result>>
        /\ tags' = [tags EXCEPT ![k] = new]
    BY DEF Decode, Goto, Put
  <1>1. /\ k \in Caches /\ k # NoCache /\ pc \in [Threads -> Labels] /\ n \in Nat
        /\ s \in Sentences /\ DOMAIN s = 1..n
        /\ tags[k] \in Seq(Nat) /\ Len(tags[k]) \in Nat /\ DOMAIN tags[k] = 1..Len(tags[k])
    BY <1>0, AtWork
  <1>2. nodes[k] = s /\ Analyzed(t, n) /\ n <= Len(tags[k])
    BY <1>0 DEF ContentInv, CallInv
  <1>3. Best(s) \in Seq(Nat) /\ Len(Best(s)) = n
    BY <1>1, BestAssumption
  <1>4. \A j \in 1..n : Best(s)[j] \in Nat
    BY <1>3, ElementOfSeq
  <1>5. \A j \in 1..Len(tags[k]) : tags[k][j] \in Nat
    BY <1>1, ElementOfSeq
  <1>6. new = [j \in 1..Len(tags[k]) |-> IF j \in 1..n THEN Best(s)[j] ELSE tags[k][j]]
    BY <1>1, <1>2
  <1>7. new \in [1..Len(tags[k]) -> Nat] /\ \A j \in 1..n : new[j] = Best(s)[j]
    BY <1>1, <1>2, <1>4, <1>5, <1>6
  <1>8. new \in Seq(Nat)
    BY <1>1, <1>7, SequenceOf
  <1>9. tags'[k] = new /\ pc'[t] = "emit"
    BY <1>0, <1>1 DEF ContentInv, ContentsOK
  <1>10. ContentsOK'
    BY <1>0, <1>1, <1>8 DEF ContentInv, ContentsOK
  <1>11. CallInv(t)'
    <2>1. Analyzed(t, Len(sentence[t]))'
      BY <1>0, <1>2 DEF Analyzed
    <2>2. c'[t] = k /\ sentence'[t] = s /\ n = Len(s) /\ op'[t] = "tag"
      BY <1>0
    <2>3. \A j \in 1..n : tags'[k][j] = Best(s)[j]
      BY <1>7, <1>9
    <2>4. \A j \in 1..Len(sentence'[t]) : tags'[c'[t]][j] = Best(sentence'[t])[j]
      BY <2>2, <2>3
    <2> QED BY <1>1, <1>9, <2>1, <2>2, <2>4 DEF CallInv
  <1>12. \A u \in Threads \ {t} : CallInv(u)'
    <2>1. \A x \in Caches \ {k} : /\ forms'[x] = forms[x] /\ analyses'[x] = analyses[x]
                                  /\ tags'[x] = tags[x] /\ nodes'[x] = nodes[x]
      BY <1>0 DEF ContentInv, ContentsOK
    <2>2. \A u \in Threads \ {t} : /\ pc'[u] = pc[u] /\ op'[u] = op[u] /\ sentence'[u] = sentence[u]
                                   /\ i'[u] = i[u] /\ c'[u] = c[u] /\ result'[u] = result[u]
      BY <1>0, <1>1
    <2> QED BY <1>1, <2>1, <2>2, OthersKept
  <1> QED BY <1>0, <1>10, <1>11, <1>12 DEF ContentInv

LEMMA EmitContent ==
  ASSUME PlaceInv, ContentInv, NEW t \in Threads, Emit(t)
  PROVE  ContentInv'
  <1> PICK k, n, s, new : /\ k = c[t] /\ n = Len(sentence[t]) /\ s = sentence[t]
                          /\ new = [j \in 1..n |-> <<analyses[k][j], tags[k][j]>>]
    OBVIOUS
  <1>0. /\ pc[t] = "emit" /\ pc' = [pc EXCEPT ![t] = "push"]
        /\ UNCHANGED <<forms, analyses, tags, nodes, op, sentence, i, c>>
        /\ result' = [result EXCEPT ![t] = new]
    BY DEF Emit, Goto
  <1>1. k \in Caches /\ k # NoCache /\ pc \in [Threads -> Labels] /\ n \in Nat /\ s \in Sentences
    BY <1>0, AtWork
  <1>2. op[t] = "tag" /\ Analyzed(t, n) /\ \A j \in 1..n : tags[k][j] = Best(s)[j]
    BY <1>0 DEF ContentInv, CallInv
  <1>3. \A j \in 1..n : analyses[k][j] = s[j]
    BY <1>2 DEF Analyzed
  <1>4. new = Expected(t)
    <2>1. new = [j \in 1..n |-> <<s[j], Best(s)[j]>>]
      BY <1>2, <1>3
    <2>2. Expected(t) = [j \in 1..n |-> <<s[j], Best(s)[j]>>]
      BY <1>2 DEF Expected
    <2> QED BY <2>1, <2>2
  <1>5. result'[t] = new /\ pc'[t] = "push" /\ DOMAIN result' = Threads
    BY <1>0, <1>1 DEF ContentInv
  <1>6. Expected(t)' = Expected(t)
    BY <1>0 DEF Expected
  <1>7. ContentsOK'
    BY <1>0 DEF ContentInv, ContentsOK
  <1>8. CallInv(t)'
    BY <1>0, <1>1, <1>4, <1>5, <1>6 DEF CallInv
  <1>9. \A u \in Threads \ {t} : CallInv(u)'
    <2>1. \A x \in Caches \ {k} : /\ forms'[x] = forms[x] /\ analyses'[x] = analyses[x]
                                  /\ tags'[x] = tags[x] /\ nodes'[x] = nodes[x]
      BY <1>0
    <2>2. \A u \in Threads \ {t} : /\ pc'[u] = pc[u] /\ op'[u] = op[u] /\ sentence'[u] = sentence[u]
                                   /\ i'[u] = i[u] /\ c'[u] = c[u] /\ result'[u] = result[u]
      BY <1>0, <1>1 DEF ContentInv
    <2> QED BY <1>1, <2>1, <2>2, OthersKept
  <1> QED BY <1>0, <1>5, <1>7, <1>8, <1>9 DEF ContentInv

LEMMA ScoreAnalyzedContent ==
  ASSUME PlaceInv, ContentInv, NEW t \in Threads, ScoreAnalyzed(t)
  PROVE  ContentInv'
  <1> PICK k, n, s, new : /\ k = c[t] /\ n = Len(sentence[t]) /\ s = sentence[t]
                          /\ new = [j \in 1..n |-> 0]
    OBVIOUS
  <1>0. /\ pc[t] = "borrowed" /\ op[t] = "tag_analyzed" /\ pc' = [pc EXCEPT ![t] = "decode"]
        /\ UNCHANGED <<forms, analyses, tags, op, sentence, i, c>>
        /\ nodes' = [nodes EXCEPT ![k] = s] /\ result' = [result EXCEPT ![t] = new]
    BY DEF ScoreAnalyzed, Goto, Put
  <1>1. k \in Caches /\ k # NoCache /\ pc \in [Threads -> Labels] /\ s \in Sentences /\ s \in Seq(Cells)
    <2>1. s \in Seq(STRING) /\ STRING \subseteq Cells
      BY <1>0, AtWork, BestAssumption DEF Cells
    <2> QED BY <1>0, <2>1, AtWork, SeqMonotonic
  <1>2. nodes'[k] = s /\ result'[t] = new /\ pc'[t] = "decode" /\ DOMAIN result' = Threads /\ DOMAIN new = 1..n
    BY <1>0, <1>1 DEF ContentInv, ContentsOK
  <1>3. ContentsOK'
    BY <1>0, <1>1 DEF ContentInv, ContentsOK
  <1>4. CallInv(t)'
    BY <1>0, <1>1, <1>2 DEF CallInv
  <1>5. \A u \in Threads \ {t} : CallInv(u)'
    <2>1. \A x \in Caches \ {k} : /\ forms'[x] = forms[x] /\ analyses'[x] = analyses[x]
                                  /\ tags'[x] = tags[x] /\ nodes'[x] = nodes[x]
      BY <1>0 DEF ContentInv, ContentsOK
    <2>2. \A u \in Threads \ {t} : /\ pc'[u] = pc[u] /\ op'[u] = op[u] /\ sentence'[u] = sentence[u]
                                   /\ i'[u] = i[u] /\ c'[u] = c[u] /\ result'[u] = result[u]
      BY <1>0, <1>1 DEF ContentInv
    <2> QED BY <1>1, <2>1, <2>2, OthersKept
  <1> QED BY <1>0, <1>2, <1>3, <1>4, <1>5 DEF ContentInv

LEMMA DecodeAnalyzedContent ==
  ASSUME PlaceInv, ContentInv, NEW t \in Threads, DecodeAnalyzed(t)
  PROVE  ContentInv'
  <1> PICK k, n, s, new : /\ k = c[t] /\ n = Len(sentence[t]) /\ s = sentence[t]
                          /\ new = [j \in DOMAIN result[t] |-> Best(nodes[k])[j]]
    OBVIOUS
  <1>0. /\ pc[t] = "decode" /\ op[t] = "tag_analyzed" /\ pc' = [pc EXCEPT ![t] = "push"]
        /\ UNCHANGED <<forms, analyses, tags, nodes, op, sentence, i, c>>
        /\ result' = [result EXCEPT ![t] = new]
    BY DEF DecodeAnalyzed, Goto
  <1>1. k \in Caches /\ k # NoCache /\ pc \in [Threads -> Labels] /\ n \in Nat /\ s \in Sentences
    BY <1>0, AtWork
  <1>2. nodes[k] = s /\ DOMAIN result[t] = 1..n
    BY <1>0 DEF ContentInv, CallInv
  <1>3. new = Expected(t)
    <2>1. new = [j \in 1..n |-> Best(s)[j]]
      BY <1>2
    <2>2. Expected(t) = [j \in 1..n |-> Best(s)[j]]
      BY <1>0 DEF Expected
    <2> QED BY <2>1, <2>2
  <1>4. result'[t] = new /\ pc'[t] = "push" /\ DOMAIN result' = Threads
    BY <1>0, <1>1 DEF ContentInv
  <1>5. Expected(t)' = Expected(t)
    BY <1>0 DEF Expected
  <1>6. ContentsOK'
    BY <1>0 DEF ContentInv, ContentsOK
  <1>7. CallInv(t)'
    BY <1>0, <1>1, <1>3, <1>4, <1>5 DEF CallInv
  <1>8. \A u \in Threads \ {t} : CallInv(u)'
    <2>1. \A x \in Caches \ {k} : /\ forms'[x] = forms[x] /\ analyses'[x] = analyses[x]
                                  /\ tags'[x] = tags[x] /\ nodes'[x] = nodes[x]
      BY <1>0
    <2>2. \A u \in Threads \ {t} : /\ pc'[u] = pc[u] /\ op'[u] = op[u] /\ sentence'[u] = sentence[u]
                                   /\ i'[u] = i[u] /\ c'[u] = c[u] /\ result'[u] = result[u]
      BY <1>0, <1>1 DEF ContentInv
    <2> QED BY <1>1, <2>1, <2>2, OthersKept
  <1> QED BY <1>0, <1>4, <1>6, <1>7, <1>8 DEF ContentInv

LEMMA StutterContent == PlaceInv /\ ContentInv /\ UNCHANGED vars => ContentInv'
  <1> SUFFICES ASSUME PlaceInv, ContentInv, UNCHANGED vars PROVE ContentInv'
    OBVIOUS
  <1>1. ContentsOK' /\ (DOMAIN result = Threads)' /\ (DOMAIN sentence = Threads)'
    BY DEF ContentInv, ContentsOK
  <1>2. ASSUME NEW u \in Threads PROVE CallInv(u)'
    BY KeptCall DEF ContentInv, Kept
  <1> QED BY <1>1, <1>2 DEF ContentInv

LEMMA StepContent == PlaceInv /\ ContentInv /\ [Next]_vars => ContentInv'
  <1> SUFFICES ASSUME PlaceInv, ContentInv, [Next]_vars PROVE ContentInv'
    OBVIOUS
  <1> HIDE DEF vars
  <1>1. ASSUME NEW t \in Threads, Step(t) PROVE ContentInv'
    BY <1>1, StackStepContent, ResizeContent, AnalyzeContent, ScoreContent, DecodeContent, EmitContent,
       ScoreAnalyzedContent, DecodeAnalyzedContent DEF Step
  <1>2. ASSUME NEW t \in Threads, Spin(t) PROVE ContentInv'
    BY <1>2, StutterContent DEF Spin
  <1> QED BY <1>1, <1>2, CallContent, StutterContent DEF Next

\* A call returns what a new tagger would return: nothing of other threads or
\* earlier sentences remains in the vectors of perceptron_tagger::cache it reads.
THEOREM ResultsAreOwn == Spec => []ResultIsOwn
  <1>1. ContentInv => ResultIsOwn
    BY DEF ContentInv, CallInv, ResultIsOwn
  <1> HIDE DEF vars
  <1> QED BY <1>1, InitContent, StepContent, PlacesAlways, PTL DEF Spec

-----------------------------------------------------------------------------
(* AveragedPerceptron. *)

\* Where the lazy averages stand: keys outside the maps are untouched, and after an
\* iteration is finalized no update is pending.
UnknownUntouched ==
  \A k \in Keys \ known : alpha[k] = 0 /\ gamma[k] = 0 /\ last_gamma_update[k] = 0
KnownIsGold == prune_features => known \subseteq GoldKeys
NothingPending == phase # "train" => last_gamma_update = Zero
IterationBound == phase \in {"train", "evaluate"} => iteration < iterations

LazyInv ==
  /\ TrainerTypeOK /\ UnknownUntouched /\ KnownIsGold /\ NothingPending /\ IterationBound
  /\ OwedIsExact /\ FinalizedIsTotal

USE DEF infos, best, Zero

\* The initial maps satisfy the invariant.
LEMMA InitLazy == TrainerInit => LazyInv
  <1> SUFFICES ASSUME TrainerInit PROVE LazyInv
    OBVIOUS
  <1> USE TrainingAssumption DEF TrainerInit
  <1>1. TrainerTypeOK
    BY DEF TrainerTypeOK
  <1>2. UnknownUntouched /\ KnownIsGold /\ NothingPending /\ IterationBound
    BY DEF UnknownUntouched, KnownIsGold, NothingPending, IterationBound
  <1>3. OwedIsExact /\ FinalizedIsTotal
    BY DEF OwedIsExact, FinalizedIsTotal, Caught
  <1> QED BY <1>1, <1>2, <1>3 DEF LazyInv

\* What an update and the end of an iteration bring gamma to is an integer.
LEMMA CaughtInt ==
  ASSUME TrainerTypeOK, NEW k \in Keys, NEW n \in Nat
  PROVE  Caught(k, n) \in Int
  <1>1. gamma[k] \in Int /\ alpha[k] \in Int /\ last_gamma_update[k] \in Int
    BY DEF TrainerTypeOK
  <1>2. alpha[k] * (n - last_gamma_update[k]) \in Int
    BY <1>1
  <1> QED BY <1>1, <1>2 DEF Caught

\* One more sentence adds the value of alpha once more.
LEMMA CaughtNext ==
  ASSUME TrainerTypeOK, NEW k \in Keys, NEW n \in Nat
  PROVE  Caught(k, n + 1) = Caught(k, n) + alpha[k]
  <1>1. gamma[k] \in Int /\ alpha[k] \in Int /\ last_gamma_update[k] \in Int
    BY DEF TrainerTypeOK
  <1>2. \A a, x \in Int : a * (x + 1) = a * x + a
    OBVIOUS
  <1>3. (n + 1) - last_gamma_update[k] = (n - last_gamma_update[k]) + 1
    BY <1>1
  <1>4. alpha[k] * ((n - last_gamma_update[k]) + 1) = alpha[k] * (n - last_gamma_update[k]) + alpha[k]
    BY <1>1, <1>2
  <1>5. alpha[k] * (n - last_gamma_update[k]) \in Int
    BY <1>1
  <1> QED BY <1>1, <1>3, <1>4, <1>5 DEF Caught

\* A key brought up to date at n owes nothing at n.
LEMMA Settled ==
  ASSUME NEW a \in Int, NEW n \in Nat PROVE a * (n - n) = 0
  OBVIOUS

\* An update moves alpha of the touched keys by one, after settling them.
LEMMA UpdateLazy ==
  ASSUME LazyInv, NEW d \in Keys \cup {NoKey}, NEW g \in GoldKeys \cup {NoKey}, Update(d, g)
  PROVE  LazyInv'
  <1> DEFINE touched == Touched(d, g)
  <1> USE TrainingAssumption
  <1>0. /\ TrainerTypeOK /\ UnknownUntouched /\ KnownIsGold /\ IterationBound /\ OwedIsExact
        /\ phase = "train" /\ phase' = phase /\ seen' = seen /\ seen \in Nat
    BY DEF LazyInv, TrainerTypeOK, Update
  <1>1. /\ known' = known \cup touched
        /\ gamma' = [k \in Keys |-> IF k \in touched THEN Caught(k, seen) ELSE gamma[k]]
        /\ last_gamma_update' = [k \in Keys |-> IF k \in touched THEN seen ELSE last_gamma_update[k]]
        /\ alpha' = [k \in Keys |-> IF k \in touched THEN alpha[k] + (IF k = g THEN 1 ELSE -1) ELSE alpha[k]]
        /\ UNCHANGED <<prune_features, phase, iteration, seen, best, model, total, scored>> /\ updates' = updates + 1
    BY DEF Update
  <1>2. touched \subseteq Keys
    BY DEF Touched
  <1>3. prune_features => touched \subseteq known
    BY DEF Touched
  <1> HIDE DEF touched
  <1>4. TrainerTypeOK'
    <2>1. gamma' \in [Keys -> Int]
      BY <1>0, <1>1, CaughtInt DEF TrainerTypeOK
    <2>2. alpha' \in [Keys -> Int]
      BY <1>0, <1>1 DEF TrainerTypeOK
    <2>3. last_gamma_update' \in [Keys -> Nat]
      BY <1>0, <1>1 DEF TrainerTypeOK
    <2>4. known' \in SUBSET Keys /\ updates' \in Nat
      BY <1>0, <1>1, <1>2 DEF TrainerTypeOK
    <2> QED BY <1>0, <1>1, <2>1, <2>2, <2>3, <2>4 DEF TrainerTypeOK
  <1>5. UnknownUntouched'
    BY <1>0, <1>1, <1>2 DEF UnknownUntouched
  <1>6. KnownIsGold'
    BY <1>0, <1>1, <1>3 DEF KnownIsGold
  <1>7. NothingPending' /\ FinalizedIsTotal' /\ IterationBound'
    BY <1>0, <1>1 DEF NothingPending, FinalizedIsTotal, IterationBound
  <1>8. OwedIsExact'
    <2> SUFFICES ASSUME NEW k \in Keys PROVE Caught(k, seen)' = total[k]
      BY <1>0, <1>1 DEF OwedIsExact
    <2>1. Caught(k, seen) = total[k] /\ Caught(k, seen) \in Int
      BY <1>0, CaughtInt DEF OwedIsExact
    <2>2. CASE k \in touched
      <3>1. alpha'[k] \in Int
        BY <1>4 DEF TrainerTypeOK
      <3>2. gamma'[k] = Caught(k, seen) /\ last_gamma_update'[k] = seen
        BY <1>1, <2>2
      <3>3. alpha'[k] * (seen - seen) = 0
        BY <1>0, <3>1, Settled
      <3> QED BY <1>0, <2>1, <3>2, <3>3 DEF Caught
    <2>3. CASE k \notin touched
      <3>1. gamma'[k] = gamma[k] /\ last_gamma_update'[k] = last_gamma_update[k] /\ alpha'[k] = alpha[k]
        BY <1>1, <2>3
      <3> QED BY <1>0, <2>1, <3>1 DEF Caught
    <2> QED BY <2>2, <2>3
  <1> QED BY <1>4, <1>5, <1>6, <1>7, <1>8 DEF LazyInv

\* The end of a sentence adds alpha to the sums, and to what gamma is owed.
LEMMA SentenceLazy ==
  ASSUME LazyInv, NextSentence PROVE LazyInv'
  <1> USE TrainingAssumption
  <1>0. /\ TrainerTypeOK /\ UnknownUntouched /\ KnownIsGold /\ IterationBound /\ OwedIsExact
        /\ phase = "train" /\ phase' = phase /\ seen' = seen + 1 /\ seen \in Nat /\ seen < sentences
    BY DEF LazyInv, TrainerTypeOK, NextSentence
  <1>1. /\ UNCHANGED <<prune_features, known, alpha, gamma, last_gamma_update, iteration, best_correct, best_iteration, best_gamma, model, scored>>
        /\ total' = [k \in Keys |-> total[k] + alpha[k]] /\ updates' = 0
    BY DEF NextSentence
  <1>2. TrainerTypeOK'
    <2>1. total' \in [Keys -> Int]
      BY <1>0, <1>1 DEF TrainerTypeOK
    <2>2. seen' \in 0..sentences
      BY <1>0
    <2> QED BY <1>0, <1>1, <2>1, <2>2 DEF TrainerTypeOK
  <1>3. UnknownUntouched' /\ KnownIsGold' /\ NothingPending' /\ IterationBound' /\ FinalizedIsTotal'
    BY <1>0, <1>1 DEF UnknownUntouched, KnownIsGold, NothingPending, IterationBound, FinalizedIsTotal
  <1>4. OwedIsExact'
    <2> SUFFICES ASSUME NEW k \in Keys PROVE Caught(k, seen)' = total'[k]
      BY DEF OwedIsExact
    <2>1. Caught(k, seen)' = Caught(k, seen + 1)
      BY <1>0, <1>1 DEF Caught
    <2>2. Caught(k, seen + 1) = Caught(k, seen) + alpha[k]
      BY <1>0, CaughtNext
    <2>3. Caught(k, seen) = total[k]
      BY <1>0 DEF OwedIsExact
    <2> QED BY <1>1, <2>1, <2>2, <2>3
  <1> QED BY <1>2, <1>3, <1>4 DEF LazyInv

\* At the end of an iteration every known key is settled; the others never moved.
LEMMA FinalizeLazy ==
  ASSUME LazyInv, Finalize PROVE LazyInv'
  <1> USE TrainingAssumption
  <1>0. /\ TrainerTypeOK /\ UnknownUntouched /\ KnownIsGold /\ IterationBound /\ OwedIsExact
        /\ phase = "train" /\ phase' = "evaluate" /\ seen = sentences
    BY DEF LazyInv, Finalize
  <1>1. /\ UNCHANGED <<prune_features, known, alpha, iteration, seen, updates, best_correct, best_iteration, best_gamma, model, total, scored>>
        /\ gamma' = [k \in Keys |-> IF k \in known THEN Caught(k, sentences) ELSE gamma[k]]
        /\ last_gamma_update' = [k \in Keys |-> IF k \in known THEN 0 ELSE last_gamma_update[k]]
    BY DEF Finalize
  <1>2. TrainerTypeOK'
    <2>1. gamma' \in [Keys -> Int]
      BY <1>0, <1>1, CaughtInt DEF TrainerTypeOK
    <2>2. last_gamma_update' \in [Keys -> Nat]
      BY <1>0, <1>1 DEF TrainerTypeOK
    <2> QED BY <1>0, <1>1, <2>1, <2>2 DEF TrainerTypeOK
  <1>3. UnknownUntouched' /\ KnownIsGold' /\ NothingPending' /\ IterationBound' /\ OwedIsExact'
    BY <1>0, <1>1 DEF UnknownUntouched, KnownIsGold, NothingPending, IterationBound, OwedIsExact
  <1>4. FinalizedIsTotal'
    <2>1. ASSUME NEW k \in Keys PROVE gamma'[k] = total[k]
      <3>1. Caught(k, seen) = total[k]
        BY <1>0, <2>1 DEF OwedIsExact
      <3>2. CASE k \in known
        BY <1>0, <1>1, <2>1, <3>1, <3>2
      <3>3. CASE k \notin known
        <4>1. gamma[k] = 0 /\ alpha[k] = 0 /\ last_gamma_update[k] = 0
          BY <1>0, <2>1, <3>3 DEF UnknownUntouched
        <4>2. Caught(k, seen) = 0
          BY <1>0, <4>1 DEF Caught
        <4> QED BY <1>1, <2>1, <3>1, <3>3, <4>1, <4>2
      <3> QED BY <3>2, <3>3
    <2>2. gamma' \in [Keys -> Int] /\ total' = total /\ total \in [Keys -> Int]
      BY <1>0, <1>1, <1>2 DEF TrainerTypeOK
    <2> QED BY <2>1, <2>2 DEF FinalizedIsTotal
  <1> QED BY <1>2, <1>3, <1>4 DEF LazyInv

\* The evaluation leaves the maps alone and starts the next iteration with nothing pending.
LEMMA EvaluateLazy ==
  ASSUME LazyInv, NEW correct \in 0..heldout, Evaluate(correct) PROVE LazyInv'
  <1> USE TrainingAssumption
  <1>0. /\ TrainerTypeOK /\ UnknownUntouched /\ KnownIsGold /\ NothingPending /\ FinalizedIsTotal
        /\ phase = "evaluate" /\ iteration < iterations
    BY DEF LazyInv, IterationBound, Evaluate
  <1>1. /\ UNCHANGED <<prune_features, known, alpha, gamma, last_gamma_update, model, total>>
        /\ iteration' = iteration + 1 /\ seen' = 0 /\ updates' = 0
        /\ phase' \in {"train", "finish"} /\ (phase' = "train" => iteration' < iterations)
    BY DEF Evaluate, NextIteration
  <1>2. TrainerTypeOK'
    <2>1. best_correct' \in 0..heldout /\ best_iteration' \in -1..iterations - 1 /\ best_gamma' \in [Keys -> Int]
      <3>1. CASE heldout > 0 /\ Better(correct)
        <4>1. best_correct' = correct /\ best_iteration' = iteration /\ best_gamma' = gamma
          BY <3>1 DEF Evaluate
        <4> QED BY <1>0, <4>1 DEF TrainerTypeOK
      <3>2. CASE ~(heldout > 0 /\ Better(correct))
        <4>1. UNCHANGED <<prune_features, best_correct, best_iteration, best_gamma>>
          BY <3>2 DEF Evaluate
        <4> QED BY <1>0, <4>1 DEF TrainerTypeOK
      <3> QED BY <3>1, <3>2
    <2> QED BY <1>0, <1>1, <2>1 DEF TrainerTypeOK
  <1>3. UnknownUntouched' /\ KnownIsGold' /\ NothingPending' /\ IterationBound' /\ FinalizedIsTotal'
    BY <1>0, <1>1 DEF UnknownUntouched, KnownIsGold, NothingPending, IterationBound, FinalizedIsTotal
  <1>4. OwedIsExact'
    <2> SUFFICES ASSUME NEW k \in Keys PROVE Caught(k, seen)' = total'[k]
      BY DEF OwedIsExact
    <2>1. gamma[k] \in Int /\ alpha[k] \in Int /\ gamma[k] = total[k] /\ last_gamma_update[k] = 0
      BY <1>0 DEF TrainerTypeOK, NothingPending, FinalizedIsTotal
    <2> QED BY <1>1, <2>1 DEF Caught
  <1> QED BY <1>2, <1>3, <1>4 DEF LazyInv
-----------------------------------------------------------------------------
\* Encoding reads the maps and changes nothing in them.
LEMMA EncodeLazy ==
  ASSUME LazyInv, Encode PROVE LazyInv'
  <1>1. /\ phase = "finish" /\ phase' = "done"
        /\ UNCHANGED <<prune_features, known, alpha, gamma, last_gamma_update, iteration, seen, updates, best_correct, best_iteration, best_gamma, total>>
    BY DEF Encode
  <1>2. TrainerTypeOK'
    BY <1>1 DEF LazyInv, TrainerTypeOK
  <1>3. UnknownUntouched' /\ KnownIsGold' /\ NothingPending' /\ IterationBound' /\ OwedIsExact' /\ FinalizedIsTotal'
    BY <1>1 DEF LazyInv, UnknownUntouched, KnownIsGold, NothingPending, IterationBound, OwedIsExact, FinalizedIsTotal
  <1> QED BY <1>2, <1>3 DEF LazyInv

LEMMA StutterLazy ==
  ASSUME LazyInv, UNCHANGED trainer PROVE LazyInv'
  <1>1. TrainerTypeOK'
    BY DEF trainer, LazyInv, TrainerTypeOK
  <1>2. UnknownUntouched' /\ KnownIsGold' /\ NothingPending' /\ IterationBound' /\ OwedIsExact' /\ FinalizedIsTotal'
    BY DEF trainer, LazyInv, UnknownUntouched, KnownIsGold, NothingPending, IterationBound, OwedIsExact, FinalizedIsTotal, Caught
  <1> QED BY <1>1, <1>2 DEF LazyInv

LEMMA StepLazy == LazyInv /\ [TrainerNext]_trainer => LazyInv'
  <1> SUFFICES ASSUME LazyInv, [TrainerNext]_trainer PROVE LazyInv'
    OBVIOUS
  <1>1. ASSUME NEW d \in Keys \cup {NoKey}, NEW g \in GoldKeys \cup {NoKey}, Update(d, g) PROVE LazyInv'
    BY <1>1, UpdateLazy
  <1>2. ASSUME NEW correct \in 0..heldout, Evaluate(correct) PROVE LazyInv'
    BY <1>2, EvaluateLazy
  <1> QED BY <1>1, <1>2, SentenceLazy, FinalizeLazy, EncodeLazy, StutterLazy DEF TrainerNext

THEOREM LazyAlways == TrainerSpec => []LazyInv
  BY InitLazy, StepLazy, PTL DEF TrainerSpec

\* The maps, the lazy counters and the best iteration keep their ranges, for any training data.
THEOREM TrainerTypeCorrect == TrainerSpec => []TrainerTypeOK
  <1>1. LazyInv => TrainerTypeOK
    BY DEF LazyInv
  <1> QED BY <1>1, LazyAlways, PTL

\* train_viterbi: what gamma holds and is owed is, at every moment, the sum of the values
\* alpha had after each sentence; once an iteration is finalized nothing is owed.
THEOREM LazyAveraging == TrainerSpec => []AveragesExact
  <1>1. LazyInv => AveragesExact
    BY DEF LazyInv, AveragesExact
  <1> QED BY <1>1, LazyAlways, PTL

\* train_viterbi: with pruning no key gets a weight that no gold tag has.
THEOREM PruningHolds == TrainerSpec => []PrunedIsGold
  <1>1. LazyInv => PrunedIsGold
    BY DEF LazyInv, UnknownUntouched, KnownIsGold, PrunedIsGold
  <1> QED BY <1>1, LazyAlways, PTL
-----------------------------------------------------------------------------
\* What early stopping keeps is the first of the best iterations so far.
Entry == [correct : 0..heldout, average : [Keys -> Int]]
Compared == early_stopping /\ heldout > 0
NoneWins == best_iteration = -1 /\ best_correct = 0 /\ \A n \in DOMAIN scored : scored[n].correct = 0
BestWins == LET n == best_iteration + 1 IN
  /\ n \in DOMAIN scored /\ Wins(n)
  /\ best_correct = scored[n].correct /\ best_gamma = scored[n].average
BestInv ==
  /\ scored \in Seq(Entry) /\ Len(scored) = iteration
  /\ IF Compared THEN NoneWins \/ BestWins ELSE best_iteration = -1
  /\ BestIsEncoded

\* At most one iteration is the first of the best.
LEMMA OneWinner ==
  ASSUME scored \in Seq(Entry), NEW m \in DOMAIN scored, NEW n \in DOMAIN scored, Wins(m), Wins(n)
  PROVE  m = n
  <1>1. m \in Int /\ n \in Int
    OBVIOUS
  <1>2. scored[m] \in Entry /\ scored[n] \in Entry
    BY ElementOfSeq
  <1>3. scored[m].correct \in Int /\ scored[n].correct \in Int
    BY <1>2, TrainingAssumption DEF Entry
  <1> QED BY <1>1, <1>3 DEF Wins

LEMMA InitBest == TrainerInit => BestInv
  <1> SUFFICES ASSUME TrainerInit PROVE BestInv
    OBVIOUS
  <1>1. scored = <<>> /\ iteration = 0 /\ best_iteration = -1 /\ best_correct = 0 /\ phase # "done"
    BY DEF TrainerInit
  <1>2. scored \in Seq(Entry) /\ Len(scored) = iteration /\ DOMAIN scored = {}
    BY <1>1
  <1>3. NoneWins
    BY <1>1, <1>2 DEF NoneWins
  <1> QED BY <1>1, <1>2, <1>3 DEF BestInv, BestIsEncoded

\* The new entry wins only if it beats the old best; the old best stays ahead otherwise.
LEMMA EvaluateBest ==
  ASSUME LazyInv, BestInv, NEW correct \in 0..heldout, Evaluate(correct)
  PROVE  BestInv'
  <1> DEFINE entry == [correct |-> correct, average |-> total]
  <1>0. /\ scored \in Seq(Entry) /\ Len(scored) = iteration /\ iteration \in Nat
        /\ total \in [Keys -> Int] /\ gamma = total
        /\ best_correct \in Int /\ best_iteration \in Int /\ correct \in Int
    BY TrainingAssumption DEF LazyInv, BestInv, TrainerTypeOK, FinalizedIsTotal, Evaluate
  <1>1. /\ scored' = Append(scored, entry) /\ iteration' = iteration + 1 /\ phase' # "done"
        /\ IF heldout > 0 /\ Better(correct)
           THEN best_correct' = correct /\ best_iteration' = iteration /\ best_gamma' = gamma
           ELSE best_correct' = best_correct /\ best_iteration' = best_iteration /\ best_gamma' = best_gamma
    BY DEF Evaluate, NextIteration
  <1>2. entry \in Entry /\ entry.correct = correct /\ entry.average = total
    BY <1>0 DEF Entry
  <1> HIDE DEF entry
  <1>3. /\ scored' \in Seq(Entry) /\ Len(scored') = iteration' /\ DOMAIN scored = 1..iteration /\ DOMAIN scored' = 1..(iteration + 1)
        /\ scored'[iteration + 1] = entry /\ \A n \in 1..iteration : scored'[n] = scored[n]
    BY <1>0, <1>1, <1>2, AppendProperties
  <1>4. \A n \in 1..iteration : scored[n].correct \in Nat
    <2> SUFFICES ASSUME NEW n \in 1..iteration PROVE scored[n].correct \in Nat
      OBVIOUS
    <2>1. scored[n] \in Entry
      BY <1>0, <1>3, ElementOfSeq
    <2> QED BY <2>1 DEF Entry
  <1>5. ~Compared => best_iteration' = -1
    BY <1>1 DEF Compared, Better, BestInv
  <1>6. ASSUME Compared PROVE NoneWins' \/ BestWins'
    <2>1. NoneWins \/ BestWins
      BY <1>6 DEF BestInv
    <2>2. CASE correct > best_correct
      <3>1. best_correct' = correct /\ best_iteration' = iteration /\ best_gamma' = total
        BY <1>0, <1>1, <1>6, <2>2 DEF Compared, Better
      <3>2. \A n \in 1..iteration : scored[n].correct < correct
        <4>1. CASE NoneWins
          BY <1>3, <2>2, <4>1 DEF NoneWins
        <4>2. CASE BestWins
          <5>1. \A n \in 1..iteration : scored[n].correct <= best_correct
            <6> SUFFICES ASSUME NEW n \in 1..iteration PROVE scored[n].correct <= best_correct
              OBVIOUS
            <6>1. /\ best_iteration + 1 \in DOMAIN scored
                  /\ best_correct = scored[best_iteration + 1].correct
                  /\ scored[n].correct < scored[best_iteration + 1].correct
                     \/ scored[n].correct <= scored[best_iteration + 1].correct
              BY <1>3, <4>2 DEF BestWins, Wins
            <6> QED BY <1>0, <1>3, <1>4, <6>1
          <5> QED BY <1>0, <1>4, <2>2, <5>1
        <4> QED BY <2>1, <4>1, <4>2
      <3>3. best_correct >= 0
        <4>1. best_correct \in 0..heldout
          BY DEF LazyInv, TrainerTypeOK
        <4> QED BY <4>1, TrainingAssumption
      <3> PICK n \in Nat : n = iteration + 1
        BY <1>0
      <3>4. Wins(n)'
        <4>1. heldout > 0 /\ scored'[n].correct > 0
          BY <1>0, <1>2, <1>3, <1>6, <2>2, <3>3 DEF Compared
        <4>2. ASSUME NEW m \in 1..n
              PROVE IF m < n THEN scored'[m].correct < scored'[n].correct
                             ELSE scored'[m].correct <= scored'[n].correct
          <5>1. CASE m < n
            <6>1. m \in 1..iteration
              BY <1>0, <5>1
            <6> QED BY <1>2, <1>3, <3>2, <5>1, <6>1
          <5>2. CASE ~(m < n)
            <6>1. m = n
              BY <1>0, <5>2
            <6> QED BY <1>0, <1>2, <1>3, <6>1
          <5> QED BY <5>1, <5>2
        <4>3. DOMAIN scored' = 1..n
          BY <1>3
        <4> QED BY <4>1, <4>2, <4>3 DEF Wins
      <3>5. BestWins'
        <4>1. best_iteration' + 1 = n /\ n \in DOMAIN scored'
          BY <1>0, <1>3, <3>1
        <4>2. best_correct' = scored'[n].correct /\ best_gamma' = scored'[n].average
          BY <1>2, <1>3, <3>1
        <4> QED BY <3>4, <4>1, <4>2 DEF BestWins
      <3> QED BY <3>5
    <2>3. CASE ~(correct > best_correct)
      <3>1. best_correct' = best_correct /\ best_iteration' = best_iteration /\ best_gamma' = best_gamma
        BY <1>1, <2>3 DEF Better
      <3>2. CASE NoneWins
        <4>1. correct = 0
          BY <1>0, <2>3, <3>2, TrainingAssumption DEF NoneWins
        <4>2. \A n \in 1..(iteration + 1) : n \in 1..iteration \/ n = iteration + 1
          BY <1>0
        <4>3. \A n \in 1..(iteration + 1) : scored'[n].correct = 0
          BY <1>2, <1>3, <3>2, <4>1, <4>2 DEF NoneWins
        <4> QED BY <1>3, <3>1, <3>2, <4>3 DEF NoneWins
      <3>3. CASE BestWins
        <4> PICK n \in Int : n = best_iteration + 1
          BY <1>0
        <4>1. n \in 1..iteration /\ Wins(n) /\ best_correct = scored[n].correct /\ best_gamma = scored[n].average
          BY <1>3, <3>3 DEF BestWins
        <4>2. ASSUME NEW m \in 1..(iteration + 1)
              PROVE IF m < n THEN scored'[m].correct < scored'[n].correct
                             ELSE scored'[m].correct <= scored'[n].correct
          <5>1. CASE m = iteration + 1
            BY <1>0, <1>2, <1>3, <2>3, <4>1, <5>1
          <5>2. CASE m # iteration + 1
            <6>1. m \in 1..iteration
              BY <1>0, <5>2
            <6> QED BY <1>3, <4>1, <6>1 DEF Wins
          <5> QED BY <5>1, <5>2
        <4>3. heldout > 0 /\ scored'[n].correct > 0
          BY <1>3, <4>1 DEF Wins
        <4>4. Wins(n)'
          BY <1>3, <4>2, <4>3 DEF Wins
        <4>5. n \in DOMAIN scored' /\ n = best_iteration' + 1
          BY <1>0, <1>3, <3>1, <4>1
        <4>6. best_correct' = scored'[n].correct /\ best_gamma' = scored'[n].average
          BY <1>3, <3>1, <4>1
        <4> QED BY <4>4, <4>5, <4>6 DEF BestWins
      <3> QED BY <2>1, <3>2, <3>3
    <2> QED BY <2>2, <2>3
  <1>7. BestIsEncoded'
    BY <1>1 DEF BestIsEncoded
  <1> QED BY <1>3, <1>5, <1>6, <1>7 DEF BestInv, Compared

\* Encode takes the averages of the winner, or the last ones.
LEMMA EncodeBest ==
  ASSUME LazyInv, BestInv, Encode
  PROVE  BestInv'
  <1> DEFINE chosen == IF early_stopping /\ best_iteration >= 0 THEN best_gamma ELSE gamma
  <1>0. /\ scored \in Seq(Entry) /\ gamma = total /\ TrainerTypeOK
        /\ IF Compared THEN NoneWins \/ BestWins ELSE best_iteration = -1
    BY DEF LazyInv, BestInv, FinalizedIsTotal, Encode
  <1>1. /\ UNCHANGED <<prune_features, iteration, best_correct, best_iteration, best_gamma, total, scored>>
        /\ phase' = "done" /\ model' = Weights(chosen)
    BY DEF Encode, Weights
  <1>2. BestIsEncoded'
    <2>1. CASE early_stopping /\ \E n \in DOMAIN scored : Wins(n)
      <3>1. Compared
        BY <2>1 DEF Wins, Compared
      <3>2. ~NoneWins
        BY <2>1 DEF NoneWins, Wins
      <3>3. BestWins
        BY <1>0, <3>1, <3>2
      <3>4. best_iteration >= 0
        <4>1. best_iteration + 1 \in 1..Len(scored) /\ best_iteration \in Int
          BY <1>0, <3>3, LenProperties, TrainingAssumption DEF BestWins, TrainerTypeOK
        <4> QED BY <4>1
      <3>5. ASSUME NEW n \in DOMAIN scored, Wins(n) PROVE model' = Weights(scored[n].average)
        <4>1. n = best_iteration + 1
          BY <1>0, <3>3, <3>5, OneWinner DEF BestWins
        <4> QED BY <1>1, <2>1, <3>3, <3>4, <4>1 DEF BestWins
      <3> QED BY <1>1, <2>1, <3>5 DEF BestIsEncoded, Wins, Weights
    <2>2. CASE ~(early_stopping /\ \E n \in DOMAIN scored : Wins(n))
      <3>1. chosen = gamma
        <4>1. CASE early_stopping
          <5>1. ~BestWins
            BY <2>2, <4>1 DEF BestWins
          <5>2. best_iteration = -1
            BY <1>0, <5>1 DEF NoneWins
          <5> QED BY <5>2
        <4> QED BY <4>1
      <3> QED BY <1>0, <1>1, <2>2, <3>1 DEF BestIsEncoded, Wins, Weights
    <2> QED BY <2>1, <2>2
  <1> QED BY <1>0, <1>1, <1>2 DEF BestInv, NoneWins, BestWins, Wins

\* The other steps leave what is compared alone.
LEMMA UncomparedBest ==
  ASSUME BestInv, UNCHANGED <<prune_features, iteration, best_correct, best_iteration, best_gamma, scored>>,
         phase' # "done" \/ UNCHANGED trainer
  PROVE  BestInv'
  <1>1. BestIsEncoded'
    <2>1. CASE phase' # "done"
      BY <2>1 DEF BestIsEncoded
    <2>2. CASE UNCHANGED trainer
      <3>1. UNCHANGED <<prune_features, phase, model, total, scored>>
        BY <2>2 DEF trainer
      <3>2. \A n : Wins(n)' <=> Wins(n)
        BY <3>1 DEF Wins
      <3>3. BestIsEncoded
        BY DEF BestInv
      <3>4. CASE phase = "done" /\ early_stopping /\ \E n \in DOMAIN scored : Wins(n)
        <4>1. \A n \in DOMAIN scored : Wins(n) => model = Weights(scored[n].average)
          BY <3>3, <3>4 DEF BestIsEncoded
        <4>2. \A n \in DOMAIN scored' : Wins(n)' => model' = Weights(scored'[n].average)
          BY <3>1, <3>2, <4>1
        <4> QED BY <3>1, <3>2, <3>4, <4>2 DEF BestIsEncoded, Weights
      <3>5. CASE phase = "done" /\ ~(early_stopping /\ \E n \in DOMAIN scored : Wins(n))
        BY <3>1, <3>2, <3>3, <3>5 DEF BestIsEncoded, Weights
      <3> QED BY <3>1, <3>4, <3>5 DEF BestIsEncoded
    <2> QED BY <2>1, <2>2
  <1> QED BY <1>1 DEF BestInv, NoneWins, BestWins, Wins

LEMMA StepBest == LazyInv /\ BestInv /\ [TrainerNext]_trainer => BestInv'
  <1> SUFFICES ASSUME LazyInv, BestInv, [TrainerNext]_trainer PROVE BestInv'
    OBVIOUS
  <1>1. ASSUME NEW d \in Keys \cup {NoKey}, NEW g \in GoldKeys \cup {NoKey}, Update(d, g) PROVE BestInv'
    BY <1>1, UncomparedBest DEF Update
  <1>2. ASSUME NEW correct \in 0..heldout, Evaluate(correct) PROVE BestInv'
    BY <1>2, EvaluateBest
  <1>3. ASSUME NextSentence PROVE BestInv'
    BY <1>3, UncomparedBest DEF NextSentence
  <1>4. ASSUME Finalize PROVE BestInv'
    BY <1>4, UncomparedBest DEF Finalize
  <1>5. ASSUME UNCHANGED trainer PROVE BestInv'
    BY <1>5, UncomparedBest DEF trainer
  <1> QED BY <1>1, <1>2, <1>3, <1>4, <1>5, EncodeBest DEF TrainerNext

\* train_viterbi: the encoded weights are the averages after the first iteration that had
\* most successes, or the last ones when none had any or early stopping is off.
THEOREM EarlyStopping == TrainerSpec => []BestIsEncoded
  <1>1. BestInv => BestIsEncoded
    BY DEF BestInv
  <1>2. TrainerSpec => []BestInv
    BY InitBest, StepBest, LazyAlways, PTL DEF TrainerSpec
  <1> QED BY <1>1, <1>2, PTL
=============================================================================
