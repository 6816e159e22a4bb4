------------------------ MODULE ResourceLoaderProofs ------------------------
(***************************************************************************)
(* The safety of utils/threadsafe_resource_loader.h for any threads, any   *)
(* resources and any limit: its counters, the order in which it releases   *)
(* resources, and that it implements ResourcePool.                         *)
(***************************************************************************)
EXTENDS ResourceLoader, FiniteSetTheorems, SequenceTheorems, TLAPS

\* TypeOK without the signs of the counters, which need the counting invariants.
Shape ==
  /\ resources \in SUBSET Resources
  /\ used_count \in [Resources -> Int]
  /\ state \in [Resources -> {NOT_LOADED, LOADING, LOADED}]
  /\ loaded_resources \in Seq(Resources)
  /\ used_resources \in Int
  /\ queued_resources \in Seq(Resources)
  /\ asleep \in SUBSET Threads
  /\ pc \in [Threads -> {"idle", "queued", "joined", "loading", "notify"}]
  /\ arg \in [Threads -> Resources]
  /\ holds \in [Threads -> SUBSET Resources]
  /\ destroyed \in BOOLEAN

\* Whoever waits for room has a place in the queue.
WaitersQueued == \A t \in Threads : pc[t] = "queued" => arg[t] \in Range(queued_resources)

LEMMA RemoveAtType ==
  ASSUME NEW S, NEW s \in Seq(S), NEW i \in DOMAIN s
  PROVE  RemoveAt(s, i) \in Seq(S)
  BY DEF RemoveAt

LEMMA HeadTailRange ==
  ASSUME NEW S, NEW s \in Seq(S)
  PROVE  \A x \in Range(s) : x = Head(s) \/ x \in Range(Tail(s))
<1> TAKE x \in Range(s)
<1>1. PICK i \in 1..Len(s) : x = s[i]
  BY DEF Range
<1>2. CASE i = 1
  BY <1>1, <1>2
<1>3. CASE i # 1
  <2>1. i - 1 \in DOMAIN Tail(s) /\ Tail(s)[i - 1] = s[i]
    BY <1>3
  <2> QED
    BY <1>1, <2>1 DEF Range
<1> QED
  BY <1>2, <1>3

LEMMA AppendRange ==
  ASSUME NEW S, NEW s \in Seq(S), NEW r \in S
  PROVE  Append(s, r) \in Seq(S) /\ Range(Append(s, r)) = Range(s) \cup {r}
<1>1. /\ Append(s, r) \in Seq(S) /\ DOMAIN Append(s, r) = 1..(Len(s) + 1)
      /\ \A i \in 1..Len(s) : Append(s, r)[i] = s[i]
      /\ Append(s, r)[Len(s) + 1] = r
  OBVIOUS
<1> QED
  BY <1>1 DEF Range

LEMMA WithoutType ==
  ASSUME NEW S, NEW s \in Seq(S), NEW r
  PROVE  Without(s, r) \in Seq(S)
<1>1. CASE \E i \in DOMAIN s : s[i] = r
  <2> DEFINE k == CHOOSE i \in DOMAIN s : s[i] = r
  <2>1. k \in DOMAIN s
    BY <1>1
  <2>2. RemoveAt(s, k) \in Seq(S)
    BY <2>1, RemoveAtType
  <2> QED
    BY <1>1, <2>2 DEF Without
<1>2. CASE ~ \E i \in DOMAIN s : s[i] = r
  BY <1>2 DEF Without
<1> QED
  BY <1>1, <1>2

LEMMA MoveToEndType ==
  ASSUME Shape, NEW r \in Resources, MoveToEnd(r)
  PROVE  loaded_resources' \in Seq(Resources)
<1>1. Without(loaded_resources, r) \in Seq(Resources)
  BY WithoutType DEF Shape
<1> QED
  BY <1>1 DEF MoveToEnd

LEMMA AdmitOrSleepType ==
  ASSUME Shape, NEW t \in Threads, NEW r \in Resources, NEW queue \in Seq(Resources),
         queue # <<>>, AdmitOrSleep(t, r, queue)
  PROVE  /\ state' \in [Resources -> {NOT_LOADED, LOADING, LOADED}]
         /\ loaded_resources' \in Seq(Resources)
         /\ used_resources' \in Int
         /\ queued_resources' \in Seq(Resources)
         /\ asleep' \in SUBSET Threads
         /\ pc' \in [Threads -> {"idle", "queued", "joined", "loading", "notify"}]
<1> USE DEF Shape, NOT_LOADED, LOADING, LOADED, Goto
<1>1. CASE Admitted(r, queue)
  <2>1. Admit(t, r, queue)
    BY <1>1 DEF AdmitOrSleep
  <2>2. /\ queued_resources' \in Seq(Resources)
        /\ used_resources' \in Int
        /\ asleep' \in SUBSET Threads
        /\ pc' \in [Threads -> {"idle", "queued", "joined", "loading", "notify"}]
    <3>1. /\ queued_resources' = Tail(queue)
          /\ used_resources' = used_resources + 1
          /\ asleep' = asleep \ {t}
          /\ pc' = [pc EXCEPT ![t] = "loading"]
      BY <2>1 DEF Admit
    <3> QED
      BY <3>1
  <2>3. /\ state' \in [Resources -> {NOT_LOADED, LOADING, LOADED}]
        /\ loaded_resources' \in Seq(Resources)
    <3>1. CASE Len(loaded_resources) = concurrent_limit /\ Evictable # {}
      <4>1. PICK i \in Evictable :
              /\ loaded_resources' = Append(RemoveAt(loaded_resources, i), r)
              /\ state' = [state EXCEPT ![r] = LOADING, ![loaded_resources[i]] = NOT_LOADED]
        BY <2>1, <3>1 DEF Admit
      <4>2. RemoveAt(loaded_resources, i) \in Seq(Resources)
        BY RemoveAtType DEF Evictable
      <4>3. loaded_resources' \in Seq(Resources)
        BY <4>1, <4>2
      <4>4. state' \in [Resources -> {NOT_LOADED, LOADING, LOADED}]
        BY <4>1
      <4> QED
        BY <4>3, <4>4
    <3>2. CASE ~(Len(loaded_resources) = concurrent_limit /\ Evictable # {})
      <4>1. /\ loaded_resources' = Append(loaded_resources, r)
            /\ state' = [state EXCEPT ![r] = LOADING]
        BY <2>1, <3>2 DEF Admit
      <4> QED
        BY <4>1
    <3> QED
      BY <3>1, <3>2
  <2> QED
    BY <2>2, <2>3
<1>2. CASE ~Admitted(r, queue)
  <2>1. Sleep(t, r, queue)
    BY <1>2 DEF AdmitOrSleep
  <2> QED
    BY <2>1 DEF Sleep
<1> QED
  BY <1>1, <1>2
-----------------------------------------------------------------------------
\* Every step keeps the shape of the state.
LEMMA ShapeInductive == Shape /\ WaitersQueued /\ [Next]_vars => Shape'
<1> SUFFICES ASSUME Shape, WaitersQueued, [Next]_vars PROVE Shape'
  OBVIOUS
<1> USE DEF Shape, NOT_LOADED, LOADING, LOADED, Goto, Own, Count, Uncount
<1>1. ASSUME NEW t \in Threads, NEW r \in Resources, LoadUnused(t, r) PROVE Shape'
  <2>1. loaded_resources' \in Seq(Resources)
    BY <1>1, MoveToEndType DEF LoadUnused
  <2> QED
    BY <1>1, <2>1 DEF LoadUnused, Call
<1>2. ASSUME NEW t \in Threads, NEW r \in Resources, LoadFirst(t, r) PROVE Shape'
  <2>1. /\ Append(queued_resources, r) \in Seq(Resources)
        /\ Append(queued_resources, r) # <<>>
    BY AppendProperties
  <2>2. AdmitOrSleep(t, r, Append(queued_resources, r))
    BY <1>2 DEF LoadFirst
  <2>3. /\ state' \in [Resources -> {NOT_LOADED, LOADING, LOADED}]
        /\ loaded_resources' \in Seq(Resources)
        /\ used_resources' \in Int
        /\ queued_resources' \in Seq(Resources)
        /\ asleep' \in SUBSET Threads
        /\ pc' \in [Threads -> {"idle", "queued", "joined", "loading", "notify"}]
    BY <2>1, <2>2, AdmitOrSleepType
  <2>4. /\ used_count' \in [Resources -> Int]
        /\ arg' \in [Threads -> Resources]
        /\ UNCHANGED <<resources, holds, destroyed>>
    BY <1>2 DEF LoadFirst, Call
  <2> QED
    BY <2>3, <2>4
<1>3. ASSUME NEW t \in Threads, NEW r \in Resources, LoadShared(t, r) PROVE Shape'
  <2>1. loaded_resources' \in Seq(Resources)
    BY <1>3, MoveToEndType DEF LoadShared
  <2>2. used_count' \in [Resources -> Int]
    BY <1>3 DEF LoadShared
  <2>3. /\ asleep' \in SUBSET Threads
        /\ pc' \in [Threads -> {"idle", "queued", "joined", "loading", "notify"}]
    BY <1>3 DEF LoadShared
  <2>4. holds' \in [Threads -> SUBSET Resources]
    BY <1>3 DEF LoadShared
  <2>5. /\ arg' \in [Threads -> Resources]
        /\ UNCHANGED <<resources, destroyed, state, used_resources, queued_resources>>
    BY <1>3 DEF LoadShared, Call
  <2> QED
    BY <2>1, <2>2, <2>3, <2>4, <2>5
<1>4. ASSUME NEW t \in Threads, NEW r \in Resources, LoadUnknown(t, r) PROVE Shape'
  BY <1>4 DEF LoadUnknown, Call
<1>5. ASSUME NEW t \in Threads, ResumeQueued(t) PROVE Shape'
  <2>1. queued_resources # <<>>
    BY <1>5 DEF ResumeQueued, WaitersQueued, Range
  <2>2. AdmitOrSleep(t, arg[t], queued_resources)
    BY <1>5 DEF ResumeQueued
  <2>3. /\ state' \in [Resources -> {NOT_LOADED, LOADING, LOADED}]
        /\ loaded_resources' \in Seq(Resources)
        /\ used_resources' \in Int
        /\ queued_resources' \in Seq(Resources)
        /\ asleep' \in SUBSET Threads
        /\ pc' \in [Threads -> {"idle", "queued", "joined", "loading", "notify"}]
    BY <2>1, <2>2, AdmitOrSleepType
  <2> QED
    BY <1>5, <2>3 DEF ResumeQueued
<1>6. ASSUME NEW t \in Threads, ResumeJoined(t) PROVE Shape'
  <2>1. loaded_resources' \in Seq(Resources)
    BY <1>6, MoveToEndType DEF ResumeJoined
  <2>2. used_count' \in [Resources -> Int]
    BY <1>6 DEF ResumeJoined
  <2>3. /\ asleep' \in SUBSET Threads
        /\ pc' \in [Threads -> {"idle", "queued", "joined", "loading", "notify"}]
    BY <1>6 DEF ResumeJoined
  <2>4. holds' \in [Threads -> SUBSET Resources]
    <3>1. arg[t] \in Resources
      OBVIOUS
    <3>2. holds' = holds \/ holds' = [holds EXCEPT ![t] = @ \cup {arg[t]}]
      BY <1>6 DEF ResumeJoined
    <3> QED
      BY <3>1, <3>2
  <2>5. UNCHANGED <<resources, state, used_resources, queued_resources, arg, destroyed>>
    BY <1>6 DEF ResumeJoined
  <2> QED
    BY <2>1, <2>2, <2>3, <2>4, <2>5
<1>7. ASSUME NEW t \in Threads, Loaded(t) PROVE Shape'
  <2>1. Without(loaded_resources, arg[t]) \in Seq(Resources)
    BY WithoutType
  <2>2. /\ loaded_resources' \in Seq(Resources)
        /\ used_resources' \in Int
    BY <1>7, <2>1 DEF Loaded, Failed
  <2>3. state' \in [Resources -> {NOT_LOADED, LOADING, LOADED}]
    BY <1>7 DEF Loaded, Failed
  <2>4. used_count' \in [Resources -> Int]
    BY <1>7 DEF Loaded, Failed
  <2>5. pc' \in [Threads -> {"idle", "queued", "joined", "loading", "notify"}]
    BY <1>7 DEF Loaded
  <2>6. holds' \in [Threads -> SUBSET Resources]
    <3>1. arg[t] \in Resources
      OBVIOUS
    <3>2. holds' = holds \/ holds' = [holds EXCEPT ![t] = @ \cup {arg[t]}]
      BY <1>7 DEF Loaded
    <3> QED
      BY <3>1, <3>2
  <2>7. UNCHANGED <<resources, queued_resources, asleep, arg, destroyed>>
    BY <1>7 DEF Loaded
  <2> QED
    BY <2>2, <2>3, <2>4, <2>5, <2>6, <2>7
<1>8. ASSUME NEW t \in Threads, Notify(t) PROVE Shape'
  BY <1>8 DEF Notify
<1>9. ASSUME NEW t \in Threads, NEW r \in Resources, release(t, r) PROVE Shape'
  <2>1. /\ used_count' \in [Resources -> Int]
        /\ used_resources' \in Int
    BY <1>9 DEF release
  <2>2. pc' \in [Threads -> {"idle", "queued", "joined", "loading", "notify"}]
    BY <1>9 DEF release
  <2>3. holds' \in [Threads -> SUBSET Resources]
    BY <1>9 DEF release
  <2>4. UNCHANGED <<resources, state, loaded_resources, queued_resources, asleep, arg, destroyed>>
    BY <1>9 DEF release
  <2> QED
    BY <2>1, <2>2, <2>3, <2>4
<1>10. ASSUME NEW t \in Threads, SpuriousWakeup(t) PROVE Shape'
  BY <1>10 DEF SpuriousWakeup
<1>11. ASSUME NEW r \in Resources, Add(r) PROVE Shape'
  BY <1>11 DEF Add
<1>12. ASSUME Destroy PROVE Shape'
  BY <1>12 DEF Destroy
<1>13. CASE UNCHANGED vars
  BY <1>13 DEF vars
<1> QED
  BY <1>1, <1>2, <1>3, <1>4, <1>5, <1>6, <1>7, <1>8, <1>9, <1>10, <1>11, <1>12, <1>13
  DEF Next, Load, Continue
-----------------------------------------------------------------------------
\* The callers of a resource are consistent with its state: LOADING while exactly one
\* thread is bringing it in, and nobody asks for a resource it already holds.
Bringing(t) == pc[t] \in {"queued", "loading"}
Roles ==
  /\ \A t \in Threads : Bringing(t) => state[arg[t]] = LOADING
  /\ \A r \in Resources : state[r] = LOADING => \E t \in Threads : Bringing(t) /\ arg[t] = r
  /\ \A t, u \in Threads : Bringing(t) /\ Bringing(u) /\ arg[t] = arg[u] => t = u
  /\ \A t \in Threads : pc[t] \in {"queued", "joined", "loading"} => arg[t] \notin holds[t]

UsersInv == Shape /\ WaitersQueued /\ Roles /\ HeldIsLoaded /\ UsedCountIsUsers

LEMMA UsersFinite == \A r \in Resources : IsFiniteSet(Users(r)) /\ Cardinality(Users(r)) \in Nat
<1> TAKE r \in Resources
<1>1. Users(r) \subseteq Threads /\ IsFiniteSet(Threads)
  BY FiniteAssumption DEF Users
<1>2. IsFiniteSet(Users(r))
  BY <1>1, FS_Subset
<1> QED
  BY <1>2, FS_CardinalityType

LEMMA NoUsers ==
  ASSUME UsedCountIsUsers, NEW r \in Resources
  PROVE  used_count[r] = 0 <=> Users(r) = {}
  BY UsersFinite, FS_EmptySet DEF UsedCountIsUsers

LEMMA UserAdded ==
  ASSUME Shape, UsedCountIsUsers, NEW r \in Resources, NEW t \in Threads, t \notin Users(r),
         Users(r)' = Users(r) \cup {t}, \A x \in Resources \ {r} : Users(x)' = Users(x), Count(r)
  PROVE  UsedCountIsUsers'
<1>1. Cardinality(Users(r) \cup {t}) = Cardinality(Users(r)) + 1
  BY UsersFinite, FS_AddElement
<1> QED
  BY <1>1 DEF UsedCountIsUsers, Shape, Count

LEMMA UserDropped ==
  ASSUME Shape, UsedCountIsUsers, NEW r \in Resources, NEW t \in Threads, t \in Users(r),
         Users(r)' = Users(r) \ {t}, \A x \in Resources \ {r} : Users(x)' = Users(x), Uncount(r)
  PROVE  UsedCountIsUsers'
<1>1. Cardinality(Users(r) \ {t}) = Cardinality(Users(r)) - 1
  BY UsersFinite, FS_RemoveElement
<1> QED
  BY <1>1 DEF UsedCountIsUsers, Shape, Uncount

LEMMA UsersSame ==
  ASSUME UsedCountIsUsers, \A x \in Resources : Users(x)' = Users(x), UNCHANGED used_count
  PROVE  UsedCountIsUsers'
  BY DEF UsedCountIsUsers

\* What a section that may admit the thread does to the rest: it can only unload unused resources.
LEMMA AdmitOrSleepEffect ==
  ASSUME Shape, Shape', NEW t \in Threads, NEW r \in Resources, NEW queue \in Seq(Resources),
         used_count'[r] # 0, AdmitOrSleep(t, r, queue)
  PROVE  /\ state'[r] = LOADING
         /\ \A x \in Resources \ {r} :
              state'[x] = state[x] \/ (state'[x] = NOT_LOADED /\ used_count'[x] = 0)
         /\ \/ pc' = [pc EXCEPT ![t] = "loading"] /\ queued_resources' = Tail(queue) /\ Head(queue) = r
            \/ pc' = [pc EXCEPT ![t] = "queued"] /\ queued_resources' = queue
<1> USE DEF Shape, Goto
<1>1. CASE Admitted(r, queue)
  <2>1. /\ Admit(t, r, queue)
        /\ Head(queue) = r
    BY <1>1 DEF AdmitOrSleep, Admitted
  <2>2. /\ queued_resources' = Tail(queue)
        /\ pc' = [pc EXCEPT ![t] = "loading"]
    BY <2>1 DEF Admit
  <2>3. CASE Len(loaded_resources) = concurrent_limit /\ Evictable # {}
    <3>1. PICK i \in Evictable :
            state' = [state EXCEPT ![r] = LOADING, ![loaded_resources[i]] = NOT_LOADED]
      BY <2>1, <2>3 DEF Admit
    <3>2. loaded_resources[i] \in Resources /\ used_count'[loaded_resources[i]] = 0
      BY DEF Evictable
    <3>3. loaded_resources[i] # r
      BY <3>2
    <3>4. state'[r] = LOADING
      BY <3>1, <3>3
    <3>5. \A x \in Resources \ {r} : state'[x] = state[x] \/ (state'[x] = NOT_LOADED /\ used_count'[x] = 0)
      <4> TAKE x \in Resources \ {r}
      <4>1. state'[x] = IF x = loaded_resources[i] THEN NOT_LOADED ELSE state[x]
        BY <3>1, <3>2
      <4>2. CASE x = loaded_resources[i]
        BY <3>2, <4>1, <4>2
      <4>3. CASE x # loaded_resources[i]
        BY <4>1, <4>3
      <4> QED
        BY <4>2, <4>3
    <3> QED
      BY <2>1, <2>2, <3>4, <3>5
  <2>4. CASE ~(Len(loaded_resources) = concurrent_limit /\ Evictable # {})
    <3>1. state' = [state EXCEPT ![r] = LOADING]
      BY <2>1, <2>4 DEF Admit
    <3> QED
      BY <2>1, <2>2, <3>1
  <2> QED
    BY <2>3, <2>4
<1>2. CASE ~Admitted(r, queue)
  <2>1. Sleep(t, r, queue)
    BY <1>2 DEF AdmitOrSleep
  <2>2. state' = [state EXCEPT ![r] = LOADING]
    BY <2>1 DEF Sleep
  <2> QED
    BY <2>1, <2>2 DEF Sleep
<1> QED
  BY <1>1, <1>2

\* Roles, HeldIsLoaded and UsedCountIsUsers are kept together by every step.
LEMMA LoadFirstUsers ==
  ASSUME UsersInv, Shape', NEW t \in Threads, NEW r \in Resources, LoadFirst(t, r)
  PROVE  UsedCountIsUsers' /\ HeldIsLoaded' /\ Roles' /\ WaitersQueued'
<1> USE DEF UsersInv
<1> DEFINE queue == Append(queued_resources, r)
<1>1. /\ pc[t] = "idle" /\ used_count[r] = 0 /\ state[r] # LOADED /\ r \notin holds[t]
      /\ arg' = [arg EXCEPT ![t] = r] /\ holds' = holds
      /\ Count(r) /\ AdmitOrSleep(t, r, queue)
  BY DEF LoadFirst, Call
<1>2. queue \in Seq(Resources) /\ Range(queue) = Range(queued_resources) \cup {r}
  BY AppendRange DEF Shape
<1>3. used_count'[r] = 1 /\ \A x \in Resources \ {r} : used_count'[x] = used_count[x]
  BY <1>1 DEF Count, Shape
<1>4. /\ state'[r] = LOADING
      /\ \A x \in Resources \ {r} : state'[x] = state[x] \/ (state'[x] = NOT_LOADED /\ used_count'[x] = 0)
      /\ \/ pc' = [pc EXCEPT ![t] = "loading"] /\ queued_resources' = Tail(queue) /\ Head(queue) = r
         \/ pc' = [pc EXCEPT ![t] = "queued"] /\ queued_resources' = queue
  <2>1. Shape /\ Shape' /\ used_count'[r] # 0 /\ queue \in Seq(Resources) /\ AdmitOrSleep(t, r, queue)
    BY <1>1, <1>2, <1>3
  <2> HIDE DEF queue, UsersInv
  <2> QED
    BY <2>1, AdmitOrSleepEffect
<1>5. Users(r) = {}
  BY <1>1, NoUsers
<1>6. /\ Bringing(t)' /\ arg'[t] = r
      /\ \A u \in Threads \ {t} : pc'[u] = pc[u] /\ arg'[u] = arg[u]
  BY <1>1, <1>4 DEF Shape, Bringing
<1>7. Users(r)' = Users(r) \cup {t} /\ \A x \in Resources \ {r} : Users(x)' = Users(x)
  BY <1>1, <1>6 DEF Users, Calling, Bringing
<1>8. UsedCountIsUsers'
  BY <1>1, <1>5, <1>7, UserAdded
<1>9. \A x \in Resources \ {r} : Users(x) # {} => state'[x] = state[x]
  BY <1>3, <1>4, NoUsers
<1>10. HeldIsLoaded'
  BY <1>1, <1>5, <1>9 DEF HeldIsLoaded, Users, Shape
<1>11. \A u \in Threads \ {t} : Bringing(u) => arg[u] # r /\ state'[arg[u]] = state[arg[u]]
  BY <1>5, <1>9 DEF Users, Calling, Bringing, Shape
<1>12. Roles'
  <2>1. \A u \in Threads : Bringing(u)' => state'[arg'[u]] = LOADING
    BY <1>4, <1>6, <1>11 DEF Roles, Bringing
  <2>2. \A x \in Resources : state'[x] = LOADING => \E u \in Threads : Bringing(u)' /\ arg'[u] = x
    BY <1>1, <1>4, <1>6 DEF Roles, Bringing, LOADING, NOT_LOADED
  <2>3. \A u, v \in Threads : Bringing(u)' /\ Bringing(v)' /\ arg'[u] = arg'[v] => u = v
    BY <1>6, <1>11 DEF Roles, Bringing
  <2>4. \A u \in Threads : pc'[u] \in {"queued", "joined", "loading"} => arg'[u] \notin holds'[u]
    BY <1>1, <1>6 DEF Roles
  <2> QED
    BY <2>1, <2>2, <2>3, <2>4 DEF Roles
<1>13. WaitersQueued'
  <2>1. CASE pc' = [pc EXCEPT ![t] = "queued"] /\ queued_resources' = queue
    BY <1>2, <1>6, <2>1 DEF WaitersQueued
  <2>2. CASE pc' = [pc EXCEPT ![t] = "loading"] /\ queued_resources' = Tail(queue) /\ Head(queue) = r
    <3>1. \A u \in Threads : pc'[u] = "queued" => u # t /\ arg'[u] # r /\ arg'[u] \in Range(queue)
      BY <1>2, <1>6, <1>11, <2>2 DEF WaitersQueued, Bringing, Shape
    <3>2. \A x \in Range(queue) : x = Head(queue) \/ x \in Range(Tail(queue))
      BY <1>2, HeadTailRange
    <3> QED
      BY <2>2, <3>1, <3>2 DEF WaitersQueued
  <2> QED
    BY <1>4, <2>1, <2>2
<1> QED
  BY <1>8, <1>10, <1>12, <1>13

LEMMA ResumeQueuedUsers ==
  ASSUME UsersInv, Shape', NEW t \in Threads, ResumeQueued(t)
  PROVE  UsedCountIsUsers' /\ HeldIsLoaded' /\ Roles' /\ WaitersQueued'
<1> USE DEF UsersInv
<1> DEFINE r == arg[t]
<1>1. /\ pc[t] = "queued" /\ r \in Resources
      /\ arg' = arg /\ holds' = holds /\ used_count' = used_count
      /\ AdmitOrSleep(t, r, queued_resources)
  BY DEF ResumeQueued, Shape
<1>2. t \in Users(r) /\ used_count'[r] # 0
  BY <1>1, NoUsers DEF Users, Calling
<1>3. /\ state'[r] = LOADING
      /\ \A x \in Resources \ {r} : state'[x] = state[x] \/ (state'[x] = NOT_LOADED /\ used_count'[x] = 0)
      /\ \/ /\ pc' = [pc EXCEPT ![t] = "loading"]
            /\ queued_resources' = Tail(queued_resources) /\ Head(queued_resources) = r
         \/ pc' = [pc EXCEPT ![t] = "queued"] /\ queued_resources' = queued_resources
  <2>1. /\ Shape /\ Shape' /\ used_count'[r] # 0 /\ r \in Resources
        /\ queued_resources \in Seq(Resources) /\ AdmitOrSleep(t, r, queued_resources)
    BY <1>1, <1>2 DEF Shape
  <2> HIDE DEF r, UsersInv
  <2> QED
    BY <2>1, AdmitOrSleepEffect
<1>4. /\ Bringing(t)' /\ Bringing(t) /\ arg'[t] = r
      /\ \A u \in Threads \ {t} : pc'[u] = pc[u] /\ arg'[u] = arg[u]
  BY <1>1, <1>3 DEF Shape, Bringing
<1>5. \A x \in Resources : Users(x)' = Users(x)
  BY <1>1, <1>4 DEF Users, Calling, Bringing
<1>6. UsedCountIsUsers'
  BY <1>1, <1>5, UsersSame
<1>7. \A x \in Resources \ {r} : Users(x) # {} => state'[x] = state[x]
  BY <1>1, <1>3, NoUsers
<1>8. state[r] = LOADING /\ \A u \in Threads : r \notin holds[u]
  BY <1>4 DEF Roles, HeldIsLoaded, LOADING, LOADED
<1>9. HeldIsLoaded'
  BY <1>1, <1>7, <1>8 DEF HeldIsLoaded, Users, Shape
<1>10. \A u \in Threads \ {t} : Bringing(u) => arg[u] # r /\ state'[arg[u]] = state[arg[u]]
  BY <1>4, <1>7 DEF Roles, Users, Calling, Bringing, Shape
<1>11. Roles'
  <2>1. \A u \in Threads : Bringing(u)' => state'[arg'[u]] = LOADING
    BY <1>3, <1>4, <1>10 DEF Roles, Bringing
  <2>2. \A x \in Resources : state'[x] = LOADING => \E u \in Threads : Bringing(u)' /\ arg'[u] = x
    BY <1>1, <1>3, <1>4 DEF Roles, Bringing, LOADING, NOT_LOADED
  <2>3. \A u, v \in Threads : Bringing(u)' /\ Bringing(v)' /\ arg'[u] = arg'[v] => u = v
    BY <1>4, <1>10 DEF Roles, Bringing
  <2>4. \A u \in Threads : pc'[u] \in {"queued", "joined", "loading"} => arg'[u] \notin holds'[u]
    BY <1>1, <1>4 DEF Roles
  <2> QED
    BY <2>1, <2>2, <2>3, <2>4 DEF Roles
<1>12. WaitersQueued'
  <2>1. CASE pc' = [pc EXCEPT ![t] = "queued"] /\ queued_resources' = queued_resources
    BY <1>1, <1>4, <2>1 DEF WaitersQueued
  <2>2. CASE /\ pc' = [pc EXCEPT ![t] = "loading"]
             /\ queued_resources' = Tail(queued_resources) /\ Head(queued_resources) = r
    <3>1. \A u \in Threads : pc'[u] = "queued" => u # t /\ arg'[u] # r /\ arg'[u] \in Range(queued_resources)
      BY <1>4, <1>10, <2>2 DEF WaitersQueued, Bringing, Shape
    <3>2. \A x \in Range(queued_resources) : x = Head(queued_resources) \/ x \in Range(Tail(queued_resources))
      BY HeadTailRange DEF Shape
    <3> QED
      BY <2>2, <3>1, <3>2 DEF WaitersQueued
  <2> QED
    BY <1>3, <2>1, <2>2
<1> QED
  BY <1>6, <1>9, <1>11, <1>12

LEMMA LoadSharedUsers ==
  ASSUME UsersInv, Shape', NEW t \in Threads, NEW r \in Resources,
         LoadUnused(t, r) \/ LoadShared(t, r) \/ LoadUnknown(t, r)
  PROVE  UsedCountIsUsers' /\ HeldIsLoaded' /\ Roles' /\ WaitersQueued'
<1> USE DEF UsersInv
<1>1. /\ pc[t] = "idle" /\ r \notin holds[t]
      /\ arg' = [arg EXCEPT ![t] = r] /\ state' = state /\ queued_resources' = queued_resources
      /\ \/ pc' = pc /\ holds' = holds /\ used_count' = used_count
         \/ pc' = pc /\ Own(t, r) /\ Count(r) /\ state[r] = LOADED
         \/ pc' = [pc EXCEPT ![t] = "joined"] /\ holds' = holds /\ Count(r)
  BY DEF LoadUnused, LoadShared, LoadUnknown, Call, Goto
<1>2. /\ ~Bringing(t) /\ ~Bringing(t)'
      /\ \A u \in Threads \ {t} : pc'[u] = pc[u] /\ arg'[u] = arg[u] /\ holds'[u] = holds[u]
  BY <1>1 DEF Shape, Bringing, Own
<1>3. UsedCountIsUsers'
  <2>1. CASE pc' = pc /\ holds' = holds /\ used_count' = used_count
    <3>1. \A x \in Resources : Users(x)' = Users(x)
      BY <1>1, <1>2, <2>1 DEF Users, Calling, Shape
    <3> QED
      BY <2>1, <3>1, UsersSame
  <2>2. CASE pc' = pc /\ Own(t, r) /\ Count(r)
    <3>1. t \notin Users(r) /\ Users(r)' = Users(r) \cup {t}
      BY <1>1, <1>2, <2>2 DEF Users, Calling, Shape, Own
    <3>2. \A x \in Resources \ {r} : Users(x)' = Users(x)
      BY <1>1, <1>2, <2>2 DEF Users, Calling, Shape, Own
    <3> QED
      BY <2>2, <3>1, <3>2, UserAdded
  <2>3. CASE pc' = [pc EXCEPT ![t] = "joined"] /\ holds' = holds /\ Count(r)
    <3>1. t \notin Users(r) /\ Users(r)' = Users(r) \cup {t}
      BY <1>1, <1>2, <2>3 DEF Users, Calling, Shape
    <3>2. \A x \in Resources \ {r} : Users(x)' = Users(x)
      BY <1>1, <1>2, <2>3 DEF Users, Calling, Shape
    <3> QED
      BY <2>3, <3>1, <3>2, UserAdded
  <2> QED
    BY <1>1, <2>1, <2>2, <2>3
<1>4. HeldIsLoaded'
  <2>1. holds'[t] = holds[t] \/ (holds'[t] = holds[t] \cup {r} /\ state[r] = LOADED)
    BY <1>1 DEF Own, Shape
  <2> QED
    BY <1>1, <1>2, <2>1 DEF HeldIsLoaded
<1>5. Roles'
  <2>1. \A u \in Threads : Bringing(u)' <=> Bringing(u)
    BY <1>2 DEF Bringing
  <2>2. \A u \in Threads : pc'[u] \in {"queued", "joined", "loading"} => arg'[u] \notin holds'[u]
    BY <1>1, <1>2 DEF Roles, Shape
  <2> QED
    BY <1>1, <1>2, <2>1, <2>2 DEF Roles
<1>6. WaitersQueued'
  BY <1>1, <1>2 DEF WaitersQueued, Bringing
<1> QED
  BY <1>3, <1>4, <1>5, <1>6

LEMMA ResumeJoinedUsers ==
  ASSUME UsersInv, Shape', NEW t \in Threads, ResumeJoined(t)
  PROVE  UsedCountIsUsers' /\ HeldIsLoaded' /\ Roles' /\ WaitersQueued'
<1> USE DEF UsersInv
<1> DEFINE r == arg[t]
<1>1. /\ pc[t] = "joined" /\ r \in Resources
      /\ arg' = arg /\ state' = state /\ queued_resources' = queued_resources
      /\ \/ pc' = pc /\ holds' = holds /\ used_count' = used_count
         \/ /\ pc' = [pc EXCEPT ![t] = "idle"] /\ used_count' = used_count
            /\ Own(t, r) /\ state[r] = LOADED
         \/ pc' = [pc EXCEPT ![t] = "idle"] /\ holds' = holds /\ Uncount(r)
  BY DEF ResumeJoined, Goto, Shape
<1>2. /\ ~Bringing(t) /\ ~Bringing(t)' /\ r \notin holds[t]
      /\ \A u \in Threads \ {t} : pc'[u] = pc[u] /\ arg'[u] = arg[u] /\ holds'[u] = holds[u]
  BY <1>1 DEF Shape, Bringing, Own, Roles
<1>3. UsedCountIsUsers'
  <2>1. CASE pc' = pc /\ holds' = holds /\ used_count' = used_count
    <3>1. \A x \in Resources : Users(x)' = Users(x)
      BY <1>1, <2>1 DEF Users, Calling
    <3> QED
      BY <2>1, <3>1, UsersSame
  <2>2. CASE pc' = [pc EXCEPT ![t] = "idle"] /\ used_count' = used_count /\ Own(t, r)
    <3>1. \A x \in Resources : Users(x)' = Users(x)
      BY <1>1, <1>2, <2>2 DEF Users, Calling, Shape, Own
    <3> QED
      BY <2>2, <3>1, UsersSame
  <2>3. CASE pc' = [pc EXCEPT ![t] = "idle"] /\ holds' = holds /\ Uncount(r)
    <3>1. t \in Users(r) /\ Users(r)' = Users(r) \ {t}
      BY <1>1, <1>2, <2>3 DEF Users, Calling, Shape
    <3>2. \A x \in Resources \ {r} : Users(x)' = Users(x)
      BY <1>1, <1>2, <2>3 DEF Users, Calling, Shape
    <3> QED
      BY <1>1, <2>3, <3>1, <3>2, UserDropped
  <2> QED
    BY <1>1, <2>1, <2>2, <2>3
<1>4. HeldIsLoaded'
  <2>1. holds'[t] = holds[t] \/ (holds'[t] = holds[t] \cup {r} /\ state[r] = LOADED)
    BY <1>1 DEF Own, Shape
  <2> QED
    BY <1>1, <1>2, <2>1 DEF HeldIsLoaded
<1>5. Roles'
  <2>1. \A u \in Threads : Bringing(u)' <=> Bringing(u)
    BY <1>2 DEF Bringing
  <2>2. \A u \in Threads : pc'[u] \in {"queued", "joined", "loading"} => arg'[u] \notin holds'[u]
    BY <1>1, <1>2 DEF Roles, Shape
  <2> QED
    BY <1>1, <1>2, <2>1, <2>2 DEF Roles
<1>6. WaitersQueued'
  BY <1>1, <1>2 DEF WaitersQueued, Bringing
<1> QED
  BY <1>3, <1>4, <1>5, <1>6

LEMMA LoadedUsers ==
  ASSUME UsersInv, Shape', NEW t \in Threads, Loaded(t)
  PROVE  UsedCountIsUsers' /\ HeldIsLoaded' /\ Roles' /\ WaitersQueued'
<1> USE DEF UsersInv
<1> DEFINE r == arg[t]
<1>1. /\ pc[t] = "loading" /\ r \in Resources /\ pc' = [pc EXCEPT ![t] = "notify"]
      /\ arg' = arg /\ queued_resources' = queued_resources
      /\ \/ state' = [state EXCEPT ![r] = LOADED] /\ Own(t, r) /\ used_count' = used_count
         \/ state' = [state EXCEPT ![r] = NOT_LOADED] /\ holds' = holds /\ Uncount(r)
  BY DEF Loaded, Failed, Goto, Shape
<1>2. /\ Bringing(t) /\ ~Bringing(t)' /\ r \notin holds[t]
      /\ state[r] = LOADING /\ state'[r] # LOADING
      /\ \A x \in Resources \ {r} : state'[x] = state[x]
      /\ \A u \in Threads \ {t} : pc'[u] = pc[u] /\ arg'[u] = arg[u] /\ holds'[u] = holds[u]
  BY <1>1 DEF Shape, Bringing, Own, Roles, LOADED, NOT_LOADED, LOADING
<1>3. UsedCountIsUsers'
  <2>1. CASE Own(t, r) /\ used_count' = used_count
    <3>1. \A x \in Resources : Users(x)' = Users(x)
      BY <1>1, <1>2, <2>1 DEF Users, Calling, Shape, Own
    <3> QED
      BY <2>1, <3>1, UsersSame
  <2>2. CASE holds' = holds /\ Uncount(r)
    <3>1. t \in Users(r) /\ Users(r)' = Users(r) \ {t}
      BY <1>1, <1>2, <2>2 DEF Users, Calling, Shape
    <3>2. \A x \in Resources \ {r} : Users(x)' = Users(x)
      BY <1>1, <1>2, <2>2 DEF Users, Calling, Shape
    <3> QED
      BY <1>1, <2>2, <3>1, <3>2, UserDropped
  <2> QED
    BY <1>1, <2>1, <2>2
<1>4. \A u \in Threads : r \notin holds[u]
  BY <1>2 DEF HeldIsLoaded, LOADING, LOADED
<1>5. HeldIsLoaded'
  <2>1. \A u \in Threads \ {t} : \A x \in holds'[u] : state'[x] = LOADED
    BY <1>2, <1>4 DEF HeldIsLoaded, Shape
  <2>2. holds'[t] = holds[t] \/ (holds'[t] = holds[t] \cup {r} /\ state'[r] = LOADED)
    BY <1>1 DEF Own, Shape
  <2>3. \A x \in holds[t] : state'[x] = LOADED
    BY <1>2, <1>4 DEF HeldIsLoaded, Shape
  <2> QED
    BY <2>1, <2>2, <2>3 DEF HeldIsLoaded
<1>6. \A u \in Threads \ {t} : Bringing(u) => arg[u] # r
  BY <1>2 DEF Roles
<1>7. Roles'
  <2>1. \A u \in Threads : Bringing(u)' <=> Bringing(u) /\ u # t
    BY <1>2 DEF Bringing
  <2>2. \A u \in Threads : Bringing(u)' => state'[arg'[u]] = LOADING
    BY <1>1, <1>2, <1>6, <2>1 DEF Roles, Shape
  <2>3. \A x \in Resources : state'[x] = LOADING => \E u \in Threads : Bringing(u)' /\ arg'[u] = x
    BY <1>1, <1>2, <2>1 DEF Roles
  <2>4. \A u \in Threads : pc'[u] \in {"queued", "joined", "loading"} => arg'[u] \notin holds'[u]
    BY <1>1, <1>2 DEF Roles, Shape
  <2> QED
    BY <1>1, <2>1, <2>2, <2>3, <2>4 DEF Roles
<1>8. WaitersQueued'
  BY <1>1, <1>2 DEF WaitersQueued, Shape
<1> QED
  BY <1>3, <1>5, <1>7, <1>8

LEMMA ReleaseUsers ==
  ASSUME UsersInv, Shape', NEW t \in Threads, NEW r \in Resources, release(t, r)
  PROVE  UsedCountIsUsers' /\ HeldIsLoaded' /\ Roles' /\ WaitersQueued'
<1> USE DEF UsersInv
<1>1. /\ pc[t] = "idle" /\ r \in holds[t] /\ holds' = [holds EXCEPT ![t] = @ \ {r}] /\ Uncount(r)
      /\ arg' = arg /\ state' = state /\ queued_resources' = queued_resources
      /\ pc' = [pc EXCEPT ![t] = "notify"] \/ pc' = [pc EXCEPT ![t] = "idle"] \/ pc' = pc
  BY DEF release, Goto
<1>2. /\ pc'[t] \in {"idle", "notify"} /\ holds'[t] = holds[t] \ {r}
      /\ \A u \in Threads \ {t} : pc'[u] = pc[u] /\ holds'[u] = holds[u]
  BY <1>1 DEF Shape
<1>3. t \in Users(r) /\ Users(r)' = Users(r) \ {t} /\ \A x \in Resources \ {r} : Users(x)' = Users(x)
  BY <1>1, <1>2 DEF Users, Calling
<1>4. UsedCountIsUsers'
  BY <1>1, <1>3, UserDropped
<1>5. HeldIsLoaded'
  BY <1>1, <1>2 DEF HeldIsLoaded
<1>6. Roles'
  <2>1. \A u \in Threads : Bringing(u)' <=> Bringing(u)
    BY <1>1, <1>2 DEF Bringing
  <2>2. \A u \in Threads : pc'[u] \in {"queued", "joined", "loading"} => arg'[u] \notin holds'[u]
    BY <1>1, <1>2 DEF Roles
  <2> QED
    BY <1>1, <2>1, <2>2 DEF Roles
<1>7. WaitersQueued'
  BY <1>1, <1>2 DEF WaitersQueued
<1> QED
  BY <1>4, <1>5, <1>6, <1>7

LEMMA DestroyUsers ==
  ASSUME UsersInv, Shape', Destroy
  PROVE  UsedCountIsUsers' /\ HeldIsLoaded' /\ Roles' /\ WaitersQueued'
<1> USE DEF UsersInv
<1>1. /\ \A t \in Threads : pc[t] = "idle"
      /\ UNCHANGED <<used_count, queued_resources, pc, arg, holds>>
      /\ \A x \in Resources : state'[x] = state[x] \/ (state'[x] = NOT_LOADED /\ used_count[x] = 0)
  BY DEF Destroy, NoCalls, Shape
<1>2. \A x \in Resources : Users(x)' = Users(x)
  BY <1>1 DEF Users, Calling
<1>3. UsedCountIsUsers'
  BY <1>1, <1>2, UsersSame
<1>4. \A u \in Threads : \A x \in holds[u] : used_count[x] # 0
  BY NoUsers DEF Users, Shape
<1>5. HeldIsLoaded'
  BY <1>1, <1>4 DEF HeldIsLoaded, Shape
<1>6. Roles' /\ WaitersQueued'
  BY <1>1 DEF Roles, WaitersQueued, Bringing, NOT_LOADED, LOADING
<1> QED
  BY <1>3, <1>5, <1>6

LEMMA OtherUsers ==
  ASSUME UsersInv, Shape',
         \/ \E t \in Threads : Notify(t) \/ SpuriousWakeup(t)
         \/ \E r \in Resources : Add(r)
         \/ UNCHANGED vars
  PROVE  UsedCountIsUsers' /\ HeldIsLoaded' /\ Roles' /\ WaitersQueued'
<1> USE DEF UsersInv
<1>1. /\ UNCHANGED <<used_count, state, queued_resources, arg, holds>>
      /\ \/ pc' = pc
         \/ \E t \in Threads : pc[t] = "notify" /\ pc' = [pc EXCEPT ![t] = "idle"]
  BY DEF Notify, SpuriousWakeup, Add, vars, Goto
<1>2. \A u \in Threads : pc'[u] = pc[u] \/ (pc[u] = "notify" /\ pc'[u] = "idle")
  BY <1>1 DEF Shape
<1>3. \A x \in Resources : Users(x)' = Users(x)
  BY <1>1, <1>2 DEF Users, Calling
<1>4. UsedCountIsUsers'
  BY <1>1, <1>3, UsersSame
<1>5. HeldIsLoaded' /\ WaitersQueued'
  BY <1>1, <1>2 DEF HeldIsLoaded, WaitersQueued
<1>6. Roles'
  <2>1. \A u \in Threads : Bringing(u)' <=> Bringing(u)
    BY <1>2 DEF Bringing
  <2> QED
    BY <1>1, <1>2, <2>1 DEF Roles
<1> QED
  BY <1>4, <1>5, <1>6

\* Together: the users are counted, and what they hold is loaded.
LEMMA UsersInductive == UsersInv /\ [Next]_vars => UsersInv'
<1> SUFFICES ASSUME UsersInv, [Next]_vars PROVE UsersInv'
  OBVIOUS
<1>1. Shape'
  BY ShapeInductive DEF UsersInv
<1>2. UsedCountIsUsers' /\ HeldIsLoaded' /\ Roles' /\ WaitersQueued'
  BY <1>1, LoadFirstUsers, ResumeQueuedUsers, LoadSharedUsers, ResumeJoinedUsers, LoadedUsers,
     ReleaseUsers, DestroyUsers, OtherUsers
  DEF Next, Load, Continue
<1> QED
  BY <1>1, <1>2 DEF UsersInv

LEMMA UsersInitially == Init => UsersInv
<1> SUFFICES ASSUME Init PROVE UsersInv
  OBVIOUS
<1> USE DEF Init
<1>1. Shape
  <2>1. loaded_resources \in Seq(Resources) /\ queued_resources \in Seq(Resources)
    BY EmptySeq
  <2>2. /\ used_count \in [Resources -> Int]
        /\ state \in [Resources -> {NOT_LOADED, LOADING, LOADED}]
        /\ pc \in [Threads -> {"idle", "queued", "joined", "loading", "notify"}]
        /\ holds \in [Threads -> SUBSET Resources]
    OBVIOUS
  <2>3. /\ resources \in SUBSET Resources /\ asleep \in SUBSET Threads
        /\ arg \in [Threads -> Resources] /\ used_resources \in Int
    OBVIOUS
  <2>4. destroyed \in BOOLEAN
    OBVIOUS
  <2> HIDE DEF Init
  <2> QED
    BY <2>1, <2>2, <2>3, <2>4 DEF Shape
<1>2. \A r \in Resources : Users(r) = {}
  BY DEF Users, Calling
<1>3. UsedCountIsUsers
  BY <1>2, FS_EmptySet DEF UsedCountIsUsers
<1> QED
  BY <1>1, <1>3 DEF UsersInv, WaitersQueued, Roles, HeldIsLoaded, Bringing, NOT_LOADED, LOADING
-----------------------------------------------------------------------------
\* Sequences without duplicates: what removing and appending do to their range.
LEMMA RemoveAtRange ==
  ASSUME NEW S, NEW s \in Seq(S), IsInjective(s), NEW i \in DOMAIN s
  PROVE  /\ RemoveAt(s, i) \in Seq(S) /\ Len(RemoveAt(s, i)) = Len(s) - 1
         /\ IsInjective(RemoveAt(s, i))
         /\ Range(RemoveAt(s, i)) = Range(s) \ {s[i]}
<1> DEFINE q == RemoveAt(s, i)
<1>1. /\ q \in Seq(S) /\ Len(q) = Len(s) - 1 /\ DOMAIN q = 1..(Len(s) - 1)
      /\ \A j \in 1..(Len(s) - 1) : q[j] = IF j < i THEN s[j] ELSE s[j + 1]
  <2> DEFINE a == SubSeq(s, 1, i - 1)
             b == SubSeq(s, i + 1, Len(s))
  <2>1. /\ a \in Seq(S) /\ Len(a) = i - 1
        /\ \A j \in 1..(i - 1) : a[j] = s[j]
    OBVIOUS
  <2>2. /\ b \in Seq(S) /\ Len(b) = Len(s) - i
        /\ \A j \in 1..(Len(s) - i) : b[j] = s[i + j]
    OBVIOUS
  <2>3. q = a \o b
    BY DEF RemoveAt
  <2> HIDE DEF a, b, q
  <2>4. /\ q \in Seq(S) /\ Len(q) = Len(a) + Len(b)
        /\ \A j \in 1..(Len(a) + Len(b)) : q[j] = IF j <= Len(a) THEN a[j] ELSE b[j - Len(a)]
    BY <2>1, <2>2, <2>3, ConcatProperties
  <2>5. i \in 1..Len(s) /\ Len(s) \in Nat
    OBVIOUS
  <2>6. Len(q) = Len(s) - 1
    BY <2>1, <2>2, <2>4, <2>5
  <2>7. DOMAIN q = 1..(Len(s) - 1)
    BY <2>4, <2>6
  <2>8. ASSUME NEW j \in 1..(Len(s) - 1) PROVE q[j] = IF j < i THEN s[j] ELSE s[j + 1]
    <3>1. CASE j < i
      BY <2>1, <2>2, <2>4, <2>5, <3>1
    <3>2. CASE j >= i
      <4>1. j - (i - 1) \in 1..(Len(s) - i) /\ i + (j - (i - 1)) = j + 1
        BY <2>5, <3>2
      <4>2. q[j] = b[j - (i - 1)]
        <5>1. j \in 1..(Len(a) + Len(b)) /\ ~(j <= Len(a))
          BY <2>1, <2>2, <2>5, <3>2
        <5>2. q[j] = b[j - Len(a)]
          BY <2>4, <5>1
        <5> QED
          BY <2>1, <5>2
      <4>3. b[j - (i - 1)] = s[i + (j - (i - 1))]
        BY <2>2, <4>1
      <4> QED
        BY <2>5, <3>2, <4>1, <4>2, <4>3
    <3> QED
      BY <2>5, <3>1, <3>2
  <2> QED
    BY <2>4, <2>6, <2>7, <2>8
<1> HIDE DEF q
<1>2. IsInjective(q)
  <2> SUFFICES ASSUME NEW a \in DOMAIN q, NEW b \in DOMAIN q, q[a] = q[b] PROVE a = b
    BY DEF IsInjective
  <2> DEFINE at(j) == IF j < i THEN j ELSE j + 1
  <2>1. at(a) \in DOMAIN s /\ at(b) \in DOMAIN s /\ s[at(a)] = s[at(b)]
    BY <1>1
  <2>2. at(a) = at(b)
    BY <2>1 DEF IsInjective
  <2> QED
    BY <1>1, <2>2
<1>3. Range(q) \subseteq Range(s) \ {s[i]}
  <2> SUFFICES ASSUME NEW j \in DOMAIN q PROVE q[j] \in Range(s) \ {s[i]}
    BY DEF Range
  <2> DEFINE k == IF j < i THEN j ELSE j + 1
  <2>1. k \in DOMAIN s /\ k # i /\ q[j] = s[k]
    BY <1>1
  <2> HIDE DEF k
  <2> QED
    BY <2>1 DEF Range, IsInjective
<1>4. Range(s) \ {s[i]} \subseteq Range(q)
  <2> SUFFICES ASSUME NEW k \in DOMAIN s, k # i PROVE s[k] \in Range(q)
    BY DEF Range
  <2> DEFINE j == IF k < i THEN k ELSE k - 1
  <2>1. j \in DOMAIN q /\ q[j] = s[k]
    BY <1>1
  <2> QED
    BY <2>1 DEF Range
<1> QED
  BY <1>1, <1>2, <1>3, <1>4 DEF q

LEMMA AppendInjectiveSeq ==
  ASSUME NEW S, NEW s \in Seq(S), IsInjective(s), NEW r \in S, r \notin Range(s)
  PROVE  IsInjective(Append(s, r)) /\ Len(Append(s, r)) = Len(s) + 1
<1>1. /\ DOMAIN Append(s, r) = 1..(Len(s) + 1) /\ Len(Append(s, r)) = Len(s) + 1
      /\ \A i \in 1..Len(s) : Append(s, r)[i] = s[i] /\ s[i] # r
      /\ Append(s, r)[Len(s) + 1] = r
  BY DEF Range
<1> QED
  BY <1>1 DEF IsInjective

LEMMA WithoutRange ==
  ASSUME NEW S, NEW s \in Seq(S), IsInjective(s), NEW r
  PROVE  /\ Without(s, r) \in Seq(S) /\ IsInjective(Without(s, r))
         /\ Range(Without(s, r)) = Range(s) \ {r}
         /\ Len(Without(s, r)) = IF r \in Range(s) THEN Len(s) - 1 ELSE Len(s)
<1>1. CASE \E i \in DOMAIN s : s[i] = r
  <2> DEFINE k == CHOOSE i \in DOMAIN s : s[i] = r
  <2>1. k \in DOMAIN s /\ s[k] = r /\ r \in Range(s)
    BY <1>1 DEF Range
  <2>2. Without(s, r) = RemoveAt(s, k)
    BY <1>1 DEF Without
  <2> HIDE DEF k
  <2> QED
    BY <2>1, <2>2, RemoveAtRange
<1>2. CASE ~ \E i \in DOMAIN s : s[i] = r
  BY <1>2 DEF Without, Range
<1> QED
  BY <1>1, <1>2

LEMMA InjectiveLength ==
  ASSUME NEW S, NEW s \in Seq(S), IsInjective(s)
  PROVE  IsFiniteSet(Range(s)) /\ Cardinality(Range(s)) = Len(s)
<1>1. IsFiniteSet(1..Len(s)) /\ Cardinality(1..Len(s)) = Len(s)
  <2>1. Len(s) \in Nat
    OBVIOUS
  <2> QED
    BY <2>1, FS_Interval
<1>2. s \in Bijection(1..Len(s), Range(s))
  BY DEF Bijection, Injection, Surjection, Range, IsInjective
<1> QED
  BY <1>1, <1>2, FS_Bijection DEF ExistsBijection
-----------------------------------------------------------------------------
\* The slots hold each resource once: those loaded and those being loaded.
UsedSlots == {r \in Range(loaded_resources) : used_count[r] > 0}
Slots ==
  /\ IsInjective(loaded_resources)
  /\ Len(loaded_resources) <= concurrent_limit
  /\ used_resources = Cardinality(UsedSlots)
  /\ \A r \in Resources : state[r] = LOADED => r \in Range(loaded_resources)
  /\ \A t \in Threads : pc[t] = "loading" => arg[t] \in Range(loaded_resources)
  /\ ~destroyed => \A r \in Range(loaded_resources) :
                     state[r] = LOADED \/ \E t \in Threads : pc[t] = "loading" /\ arg[t] = r
  /\ destroyed => NoCalls

LEMMA SlotsFinite ==
  ASSUME Shape
  PROVE  /\ Range(loaded_resources) \subseteq Resources /\ IsFiniteSet(Range(loaded_resources))
         /\ IsFiniteSet(UsedSlots) /\ Cardinality(UsedSlots) \in Nat
<1>1. Range(loaded_resources) \subseteq Resources
  BY DEF Shape, Range
<1>2. IsFiniteSet(Range(loaded_resources))
  BY <1>1, FiniteAssumption, FS_Subset
<1>3. UsedSlots \subseteq Range(loaded_resources)
  BY DEF UsedSlots
<1> QED
  BY <1>1, <1>2, <1>3, FS_Subset, FS_CardinalityType

\* Moving a loaded resource to the end keeps the set of slots.
LEMMA MoveToEndSlots ==
  ASSUME Shape, Slots, NEW r \in Resources, r \in Range(loaded_resources), MoveToEnd(r)
  PROVE  /\ IsInjective(loaded_resources') /\ Len(loaded_resources') <= concurrent_limit
         /\ Range(loaded_resources)' = Range(loaded_resources)
<1> DEFINE w == Without(loaded_resources, r)
<1>1. /\ w \in Seq(Resources) /\ IsInjective(w) /\ r \notin Range(w)
      /\ Range(w) = Range(loaded_resources) \ {r} /\ Len(w) = Len(loaded_resources) - 1
  BY WithoutRange DEF Shape, Slots
<1>2. loaded_resources' = Append(w, r)
  BY DEF MoveToEnd
<1> HIDE DEF w
<1>3. /\ IsInjective(loaded_resources') /\ Len(loaded_resources') = Len(w) + 1
      /\ Range(loaded_resources') = Range(w) \cup {r}
  BY <1>1, <1>2, AppendInjectiveSeq, AppendRange
<1>4. Len(loaded_resources) \in Nat
  BY DEF Shape
<1> QED
  BY <1>1, <1>3, <1>4, LimitAssumption DEF Slots

\* Admission takes a free slot, or the slot of an unused resource when none is free.
LEMMA AdmitSlots ==
  ASSUME Shape, Shape', Slots, NEW t \in Threads, NEW r \in Resources, NEW queue,
         r \notin Range(loaded_resources), used_count'[r] > 0,
         \A x \in Resources : used_count[x] >= 0,
         \A x \in Resources \ {r} : used_count'[x] = used_count[x],
         AdmitOrSleep(t, r, queue)
  PROVE  /\ IsInjective(loaded_resources') /\ Len(loaded_resources') <= concurrent_limit
         /\ used_resources' = Cardinality(UsedSlots')
         /\ \/ /\ pc' = [pc EXCEPT ![t] = "queued"]
               /\ loaded_resources' = loaded_resources
               /\ state' = [state EXCEPT ![r] = LOADING]
            \/ /\ pc' = [pc EXCEPT ![t] = "loading"]
               /\ r \in Range(loaded_resources')
               /\ \E dropped \in SUBSET Range(loaded_resources) :
                    /\ \A x \in dropped : used_count[x] = 0 /\ state'[x] = NOT_LOADED
                    /\ Range(loaded_resources') = (Range(loaded_resources) \ dropped) \cup {r}
                    /\ \A x \in Resources \ dropped : x # r => state'[x] = state[x]
<1> DEFINE loaded == loaded_resources
<1>1. /\ loaded \in Seq(Resources) /\ IsInjective(loaded) /\ Len(loaded) \in Nat
      /\ Range(loaded) \subseteq Resources /\ Len(loaded) <= concurrent_limit
      /\ Cardinality(Range(loaded)) = Len(loaded) /\ concurrent_limit \in Nat
  BY SlotsFinite, InjectiveLength, LimitAssumption DEF Shape, Slots
<1>2. CASE ~Admitted(r, queue)
  <2>1. Sleep(t, r, queue)
    BY <1>2 DEF AdmitOrSleep
  <2>2. UsedSlots' = UsedSlots
    BY <1>1, <2>1 DEF Sleep, UsedSlots
  <2> QED
    BY <2>1, <2>2 DEF Sleep, Slots, Goto
<1>3. CASE Admitted(r, queue)
  <2>1. /\ Admit(t, r, queue) /\ used_resources < concurrent_limit
        /\ pc' = [pc EXCEPT ![t] = "loading"] /\ used_resources' = used_resources + 1
    BY <1>3 DEF AdmitOrSleep, Admitted, Admit, Goto
  <2>2. ASSUME NEW rest \in Seq(Resources), IsInjective(rest), Range(rest) \subseteq Range(loaded),
               UsedSlots \subseteq Range(rest), Len(rest) < concurrent_limit,
               loaded_resources' = Append(rest, r)
        PROVE  /\ IsInjective(loaded_resources') /\ Len(loaded_resources') <= concurrent_limit
               /\ used_resources' = Cardinality(UsedSlots')
               /\ Range(loaded_resources') = Range(rest) \cup {r}
    <3>1. /\ IsInjective(loaded_resources') /\ Len(loaded_resources') = Len(rest) + 1
          /\ Range(loaded_resources') = Range(rest) \cup {r}
      BY <2>2, AppendInjectiveSeq, AppendRange
    <3>2. UsedSlots' = UsedSlots \cup {r} /\ r \notin UsedSlots
      BY <1>1, <2>2, <3>1 DEF UsedSlots
    <3>3. Cardinality(UsedSlots') = Cardinality(UsedSlots) + 1
      BY <3>2, SlotsFinite, FS_AddElement
    <3>4. Len(rest) \in Nat
      BY <2>2
    <3> QED
      BY <1>1, <2>1, <2>2, <3>1, <3>3, <3>4 DEF Slots
  <2>3. CASE Len(loaded) = concurrent_limit /\ Evictable # {}
    <3>1. PICK i \in Evictable :
            /\ loaded_resources' = Append(RemoveAt(loaded, i), r)
            /\ state' = [state EXCEPT ![r] = LOADING, ![loaded[i]] = NOT_LOADED]
      BY <2>1, <2>3 DEF Admit
    <3>2. /\ i \in DOMAIN loaded /\ loaded[i] \in Range(loaded) /\ loaded[i] # r
          /\ used_count[loaded[i]] = 0
      BY <1>1 DEF Evictable, Range
    <3>3. /\ RemoveAt(loaded, i) \in Seq(Resources) /\ IsInjective(RemoveAt(loaded, i))
          /\ Range(RemoveAt(loaded, i)) = Range(loaded) \ {loaded[i]}
          /\ Len(RemoveAt(loaded, i)) = Len(loaded) - 1
      BY <1>1, <3>2, RemoveAtRange
    <3>4. UsedSlots \subseteq Range(loaded) \ {loaded[i]}
      BY <3>2 DEF UsedSlots
    <3>5. /\ IsInjective(loaded_resources') /\ Len(loaded_resources') <= concurrent_limit
          /\ used_resources' = Cardinality(UsedSlots')
          /\ Range(loaded_resources') = (Range(loaded) \ {loaded[i]}) \cup {r}
      BY <1>1, <2>2, <2>3, <3>1, <3>3, <3>4
    <3>6. /\ state'[loaded[i]] = NOT_LOADED
          /\ \A x \in Resources \ {loaded[i]} : x # r => state'[x] = state[x]
      BY <1>1, <3>1, <3>2 DEF Shape
    <3> QED
      BY <2>1, <3>2, <3>5, <3>6
  <2>4. CASE ~(Len(loaded) = concurrent_limit /\ Evictable # {})
    <3>1. /\ loaded_resources' = Append(loaded, r)
          /\ state' = [state EXCEPT ![r] = LOADING]
      BY <2>1, <2>4 DEF Admit
    <3>2. Len(loaded) # concurrent_limit
      <4> SUFFICES ASSUME Len(loaded) = concurrent_limit PROVE FALSE
        OBVIOUS
      <4>1. Evictable = {}
        BY <2>4
      <4>2. \A x \in Range(loaded) : used_count[x] > 0
        BY <1>1, <4>1 DEF Evictable, Range, Shape
      <4>3. UsedSlots = Range(loaded)
        BY <4>2 DEF UsedSlots
      <4> QED
        BY <1>1, <2>1, <4>3 DEF Slots
    <3>3. Len(loaded) < concurrent_limit /\ UsedSlots \subseteq Range(loaded)
      BY <1>1, <3>2 DEF UsedSlots
    <3>4. /\ IsInjective(loaded_resources') /\ Len(loaded_resources') <= concurrent_limit
          /\ used_resources' = Cardinality(UsedSlots')
          /\ Range(loaded_resources') = Range(loaded) \cup {r}
      BY <1>1, <2>2, <3>1, <3>3
    <3>5. \A x \in Resources : x # r => state'[x] = state[x]
      BY <3>1 DEF Shape
    <3>6. {} \in SUBSET Range(loaded) /\ Range(loaded_resources') = (Range(loaded) \ {}) \cup {r}
      BY <3>4
    <3> QED
      BY <2>1, <3>4, <3>5, <3>6
  <2> QED
    BY <2>3, <2>4
<1> QED
  BY <1>2, <1>3

IInv == UsersInv /\ Slots

LEMMA CountsNat == ASSUME UsersInv PROVE \A x \in Resources : used_count[x] \in Nat
  BY UsersFinite DEF UsersInv, UsedCountIsUsers

\* Each step that takes or frees a slot keeps Slots.
LEMMA LoadUnusedSlots ==
  ASSUME IInv, UsersInv', NEW t \in Threads, NEW r \in Resources, LoadUnused(t, r)
  PROVE  Slots'
<1> USE DEF IInv
<1>1. /\ pc' = pc /\ state' = state /\ destroyed' = destroyed /\ ~destroyed /\ pc[t] = "idle"
      /\ state[r] = LOADED /\ used_count[r] = 0 /\ used_resources' = used_resources + 1
      /\ Count(r) /\ MoveToEnd(r) /\ arg' = [arg EXCEPT ![t] = r]
  BY DEF LoadUnused, Call
<1>2. /\ Shape /\ Shape' /\ r \in Range(loaded_resources)
      /\ IsInjective(loaded_resources') /\ Len(loaded_resources') <= concurrent_limit
      /\ Range(loaded_resources)' = Range(loaded_resources)
  BY <1>1, MoveToEndSlots DEF Slots, UsersInv
<1>3. UsedSlots' = UsedSlots \cup {r} /\ r \notin UsedSlots
  BY <1>1, <1>2, SlotsFinite DEF UsedSlots, Count, Shape
<1>4. used_resources' = Cardinality(UsedSlots')
  BY <1>1, <1>2, <1>3, SlotsFinite, FS_AddElement DEF Slots
<1>5. \A u \in Threads : pc[u] = "loading" => arg'[u] = arg[u]
  BY <1>1 DEF UsersInv, Shape
<1> QED
  BY <1>1, <1>2, <1>4, <1>5 DEF Slots

LEMMA LoadFirstSlots ==
  ASSUME IInv, UsersInv', NEW t \in Threads, NEW r \in Resources, LoadFirst(t, r)
  PROVE  Slots'
<1> USE DEF IInv
<1> DEFINE queue == Append(queued_resources, r)
<1>1. /\ destroyed' = destroyed /\ ~destroyed /\ pc[t] = "idle"
      /\ state[r] # LOADED /\ used_count[r] = 0 /\ Count(r) /\ AdmitOrSleep(t, r, queue)
      /\ arg' = [arg EXCEPT ![t] = r]
  BY DEF LoadFirst, Call
<1>2. Shape /\ Shape' /\ \A x \in Resources : used_count[x] \in Nat
  BY CountsNat DEF UsersInv
<1>3. Users(r) = {}
  BY <1>1, NoUsers DEF UsersInv
<1>4. r \notin Range(loaded_resources)
  BY <1>1, <1>3 DEF Slots, Users, Calling
<1>5. used_count'[r] = 1 /\ \A x \in Resources \ {r} : used_count'[x] = used_count[x]
  BY <1>1, <1>2 DEF Count, Shape
<1>6. \A u \in Threads \ {t} : arg'[u] = arg[u]
  BY <1>1, <1>2 DEF Shape
<1> HIDE DEF queue
<1>7. /\ IsInjective(loaded_resources') /\ Len(loaded_resources') <= concurrent_limit
      /\ used_resources' = Cardinality(UsedSlots')
      /\ \/ /\ pc' = [pc EXCEPT ![t] = "queued"]
            /\ loaded_resources' = loaded_resources
            /\ state' = [state EXCEPT ![r] = LOADING]
         \/ /\ pc' = [pc EXCEPT ![t] = "loading"]
            /\ r \in Range(loaded_resources')
            /\ \E dropped \in SUBSET Range(loaded_resources) :
                 /\ \A x \in dropped : used_count[x] = 0 /\ state'[x] = NOT_LOADED
                 /\ Range(loaded_resources') = (Range(loaded_resources) \ dropped) \cup {r}
                 /\ \A x \in Resources \ dropped : x # r => state'[x] = state[x]
  <2>1. /\ Shape /\ Shape' /\ Slots /\ used_count'[r] > 0
        /\ \A x \in Resources : used_count[x] >= 0
    BY <1>2, <1>5
  <2> HIDE DEF IInv
  <2> QED
    BY <1>1, <1>4, <1>5, <2>1, AdmitSlots
<1>8. CASE /\ pc' = [pc EXCEPT ![t] = "queued"] /\ loaded_resources' = loaded_resources
           /\ state' = [state EXCEPT ![r] = LOADING]
  <2>1. state'[r] = LOADING /\ \A x \in Resources \ {r} : state'[x] = state[x]
    BY <1>2, <1>8 DEF Shape
  <2>2. \A u \in Threads : pc'[u] = "loading" <=> pc[u] = "loading" /\ u # t
    BY <1>1, <1>2, <1>8 DEF Shape
  <2>3. \A u \in Threads : pc'[u] = "loading" => arg'[u] \in Range(loaded_resources')
    BY <1>6, <1>8, <2>2 DEF Slots
  <2>4. \A x \in Range(loaded_resources') :
          state'[x] = LOADED \/ \E u \in Threads : pc'[u] = "loading" /\ arg'[u] = x
    BY <1>1, <1>2, <1>4, <1>6, <1>8, <2>1, <2>2, SlotsFinite DEF Slots
  <2>5. \A x \in Resources : state'[x] = LOADED => x \in Range(loaded_resources')
    BY <1>8, <2>1 DEF Slots, LOADING, LOADED
  <2> QED
    BY <1>1, <1>7, <2>3, <2>4, <2>5 DEF Slots
<1>9. ASSUME NEW dropped \in SUBSET Range(loaded_resources),
             pc' = [pc EXCEPT ![t] = "loading"], r \in Range(loaded_resources'),
             \A x \in dropped : used_count[x] = 0 /\ state'[x] = NOT_LOADED,
             Range(loaded_resources') = (Range(loaded_resources) \ dropped) \cup {r},
             \A x \in Resources \ dropped : x # r => state'[x] = state[x]
      PROVE  Slots'
  <2>1. pc'[t] = "loading" /\ arg'[t] = r /\ \A u \in Threads \ {t} : pc'[u] = pc[u]
    BY <1>1, <1>2, <1>9 DEF Shape
  <2>2. \A u \in Threads : pc'[u] = "loading" => arg'[u] \in Range(loaded_resources')
    <3> SUFFICES ASSUME NEW u \in Threads, u # t, pc[u] = "loading" PROVE arg[u] \in Range(loaded_resources')
      BY <1>6, <1>9, <2>1
    <3>1. u \in Users(arg[u]) /\ arg[u] \in Resources
      BY <1>2 DEF Users, Calling, Shape
    <3>2. used_count[arg[u]] # 0
      BY <3>1, NoUsers DEF UsersInv
    <3> QED
      BY <1>9, <3>2 DEF Slots
  <2>3. \A x \in Range(loaded_resources') :
          state'[x] = LOADED \/ \E u \in Threads : pc'[u] = "loading" /\ arg'[u] = x
    BY <1>1, <1>2, <1>6, <1>9, <2>1, SlotsFinite DEF Slots
  <2>4. \A x \in Resources : state'[x] = LOADED => x \in Range(loaded_resources')
    BY <1>9 DEF Slots, NOT_LOADED, LOADED
  <2> QED
    BY <1>1, <1>7, <2>2, <2>3, <2>4 DEF Slots
<1> QED
  BY <1>7, <1>8, <1>9

LEMMA ResumeQueuedSlots ==
  ASSUME IInv, UsersInv', NEW t \in Threads, ResumeQueued(t)
  PROVE  Slots'
<1> USE DEF IInv
<1> DEFINE r == arg[t]
<1>1. /\ pc[t] = "queued" /\ r \in Resources
      /\ arg' = arg /\ used_count' = used_count /\ destroyed' = destroyed
      /\ AdmitOrSleep(t, r, queued_resources)
  BY DEF ResumeQueued, UsersInv, Shape
<1>2. Shape /\ Shape' /\ ~destroyed /\ \A x \in Resources : used_count[x] \in Nat
  BY <1>1, CountsNat DEF UsersInv, Slots, NoCalls
<1>3. t \in Users(r) /\ used_count[r] > 0
  BY <1>1, <1>2, NoUsers DEF UsersInv, Users, Calling
<1>4. state[r] = LOADING /\ \A u \in Threads : pc[u] = "loading" => arg[u] # r
  BY <1>1 DEF UsersInv, Roles, Bringing
<1>5. r \notin Range(loaded_resources)
  BY <1>2, <1>4 DEF Slots, LOADING, LOADED
<1>6. /\ IsInjective(loaded_resources') /\ Len(loaded_resources') <= concurrent_limit
      /\ used_resources' = Cardinality(UsedSlots')
      /\ \/ /\ pc' = [pc EXCEPT ![t] = "queued"]
            /\ loaded_resources' = loaded_resources
            /\ state' = [state EXCEPT ![r] = LOADING]
         \/ /\ pc' = [pc EXCEPT ![t] = "loading"]
            /\ r \in Range(loaded_resources')
            /\ \E dropped \in SUBSET Range(loaded_resources) :
                 /\ \A x \in dropped : used_count[x] = 0 /\ state'[x] = NOT_LOADED
                 /\ Range(loaded_resources') = (Range(loaded_resources) \ dropped) \cup {r}
                 /\ \A x \in Resources \ dropped : x # r => state'[x] = state[x]
  <2>1. /\ Shape /\ Shape' /\ Slots /\ used_count'[r] > 0
        /\ \A x \in Resources : used_count[x] >= 0
        /\ \A x \in Resources \ {r} : used_count'[x] = used_count[x]
    BY <1>1, <1>2, <1>3
  <2> HIDE DEF IInv, r
  <2> QED
    BY <1>1, <1>5, <2>1, AdmitSlots
<1>7. CASE /\ pc' = [pc EXCEPT ![t] = "queued"] /\ loaded_resources' = loaded_resources
           /\ state' = [state EXCEPT ![r] = LOADING]
  <2>1. pc' = pc /\ state' = state
    BY <1>1, <1>2, <1>4, <1>7 DEF Shape
  <2> QED
    BY <1>1, <1>2, <1>6, <1>7, <2>1 DEF Slots
<1>8. ASSUME NEW dropped \in SUBSET Range(loaded_resources),
             pc' = [pc EXCEPT ![t] = "loading"], r \in Range(loaded_resources'),
             \A x \in dropped : used_count[x] = 0 /\ state'[x] = NOT_LOADED,
             Range(loaded_resources') = (Range(loaded_resources) \ dropped) \cup {r},
             \A x \in Resources \ dropped : x # r => state'[x] = state[x]
      PROVE  Slots'
  <2>1. pc'[t] = "loading" /\ arg'[t] = r /\ \A u \in Threads \ {t} : pc'[u] = pc[u]
    BY <1>1, <1>2, <1>8 DEF Shape
  <2>2. \A u \in Threads : pc'[u] = "loading" => arg'[u] \in Range(loaded_resources')
    <3> SUFFICES ASSUME NEW u \in Threads, u # t, pc[u] = "loading" PROVE arg[u] \in Range(loaded_resources')
      BY <1>1, <1>8, <2>1
    <3>1. u \in Users(arg[u]) /\ arg[u] \in Resources
      BY <1>2 DEF Users, Calling, Shape
    <3>2. used_count[arg[u]] # 0
      BY <3>1, NoUsers DEF UsersInv
    <3> QED
      BY <1>8, <3>2 DEF Slots
  <2>3. \A x \in Range(loaded_resources') :
          state'[x] = LOADED \/ \E u \in Threads : pc'[u] = "loading" /\ arg'[u] = x
    BY <1>1, <1>2, <1>8, <2>1, SlotsFinite DEF Slots
  <2>4. \A x \in Resources : state'[x] = LOADED => x \in Range(loaded_resources')
    BY <1>8 DEF Slots, NOT_LOADED, LOADED
  <2> QED
    BY <1>1, <1>2, <1>6, <2>2, <2>3, <2>4 DEF Slots
<1> QED
  BY <1>6, <1>7, <1>8

LEMMA LoadSharedSlots ==
  ASSUME IInv, UsersInv', NEW t \in Threads, NEW r \in Resources, LoadShared(t, r) \/ LoadUnknown(t, r)
  PROVE  Slots'
<1> USE DEF IInv
<1>1. /\ state' = state /\ destroyed' = destroyed /\ ~destroyed /\ pc[t] = "idle"
      /\ used_resources' = used_resources /\ arg' = [arg EXCEPT ![t] = r]
      /\ pc' = pc \/ pc' = [pc EXCEPT ![t] = "joined"]
      /\ used_count' = used_count \/ (Count(r) /\ used_count[r] > 0)
      /\ loaded_resources' = loaded_resources \/ (MoveToEnd(r) /\ state[r] = LOADED)
  BY DEF LoadShared, LoadUnknown, Call, Goto
<1>2. Shape /\ Shape' /\ \A x \in Resources : used_count[x] \in Nat
  BY CountsNat DEF UsersInv
<1>3. /\ IsInjective(loaded_resources') /\ Len(loaded_resources') <= concurrent_limit
      /\ Range(loaded_resources)' = Range(loaded_resources)
  <2>1. CASE loaded_resources' = loaded_resources
    BY <2>1 DEF Slots
  <2>2. CASE MoveToEnd(r) /\ state[r] = LOADED
    <3>1. r \in Range(loaded_resources)
      BY <2>2 DEF Slots
    <3> QED
      BY <1>2, <2>2, <3>1, MoveToEndSlots
  <2> QED
    BY <1>1, <2>1, <2>2
<1>4. UsedSlots' = UsedSlots
  <2>1. \A x \in Resources : used_count'[x] > 0 <=> used_count[x] > 0
    <3>1. CASE used_count' = used_count
      BY <3>1
    <3>2. CASE Count(r) /\ used_count[r] > 0
      <4>1. \A x \in Resources : used_count'[x] = IF x = r THEN used_count[x] + 1 ELSE used_count[x]
        BY <1>2, <3>2 DEF Count, Shape
      <4> QED
        BY <1>2, <3>2, <4>1
    <3> QED
      BY <1>1, <3>1, <3>2
  <2> QED
    BY <1>2, <1>3, <2>1, SlotsFinite DEF UsedSlots
<1>5. \A u \in Threads : (pc'[u] = "loading" <=> pc[u] = "loading") /\ (pc[u] = "loading" => arg'[u] = arg[u])
  BY <1>1, <1>2 DEF Shape
<1> QED
  BY <1>1, <1>3, <1>4, <1>5 DEF Slots

LEMMA ResumeJoinedSlots ==
  ASSUME IInv, UsersInv', NEW t \in Threads, ResumeJoined(t)
  PROVE  Slots'
<1> USE DEF IInv
<1> DEFINE r == arg[t]
<1>1. /\ state' = state /\ destroyed' = destroyed /\ pc[t] = "joined" /\ r \in Resources
      /\ used_resources' = used_resources /\ arg' = arg
      /\ pc' = pc \/ pc' = [pc EXCEPT ![t] = "idle"]
      /\ used_count' = used_count \/ (Uncount(r) /\ state[r] = NOT_LOADED)
      /\ loaded_resources' = loaded_resources \/ (MoveToEnd(r) /\ state[r] = LOADED)
  BY DEF ResumeJoined, Goto, UsersInv, Shape
<1>2. Shape /\ Shape' /\ ~destroyed
  BY <1>1 DEF UsersInv, Slots, NoCalls
<1>3. /\ IsInjective(loaded_resources') /\ Len(loaded_resources') <= concurrent_limit
      /\ Range(loaded_resources)' = Range(loaded_resources)
  <2>1. CASE loaded_resources' = loaded_resources
    BY <2>1 DEF Slots
  <2>2. CASE MoveToEnd(r) /\ state[r] = LOADED
    <3>1. r \in Range(loaded_resources)
      BY <1>1, <2>2 DEF Slots
    <3> QED
      BY <1>1, <1>2, <2>2, <3>1, MoveToEndSlots
  <2> QED
    BY <1>1, <2>1, <2>2
<1>4. UsedSlots' = UsedSlots
  <2>1. CASE used_count' = used_count
    BY <1>3, <2>1 DEF UsedSlots
  <2>2. CASE Uncount(r) /\ state[r] = NOT_LOADED
    <3>1. r \notin Range(loaded_resources)
      BY <1>1, <1>2, <2>2 DEF UsersInv, Roles, Bringing, Slots, NOT_LOADED, LOADING, LOADED
    <3>2. \A x \in Range(loaded_resources) : used_count'[x] = used_count[x]
      BY <1>2, <2>2, <3>1, SlotsFinite DEF Uncount, Shape
    <3> QED
      BY <1>3, <3>2 DEF UsedSlots
  <2> QED
    BY <1>1, <2>1, <2>2
<1>5. \A u \in Threads : pc'[u] = "loading" <=> pc[u] = "loading"
  BY <1>1, <1>2 DEF Shape
<1> QED
  BY <1>1, <1>2, <1>3, <1>4, <1>5 DEF Slots

LEMMA LoadedSlots ==
  ASSUME IInv, UsersInv', NEW t \in Threads, Loaded(t)
  PROVE  Slots'
<1> USE DEF IInv
<1> DEFINE r == arg[t]
<1>1. /\ pc[t] = "loading" /\ r \in Resources /\ pc' = [pc EXCEPT ![t] = "notify"]
      /\ arg' = arg /\ destroyed' = destroyed
  BY DEF Loaded, Goto, UsersInv, Shape
<1>2. /\ Shape /\ Shape' /\ ~destroyed /\ r \in Range(loaded_resources)
      /\ \A x \in Resources : used_count[x] \in Nat
  BY <1>1, CountsNat DEF UsersInv, Slots, NoCalls
<1>3. /\ pc'[t] = "notify" /\ \A u \in Threads \ {t} : pc'[u] = pc[u]
      /\ \A u \in Threads \ {t} : pc[u] = "loading" => arg[u] # r
  BY <1>1, <1>2 DEF UsersInv, Shape, Roles, Bringing
<1>4. CASE /\ state' = [state EXCEPT ![r] = LOADED]
           /\ UNCHANGED <<used_count, used_resources, loaded_resources>>
  <2>1. state'[r] = LOADED /\ \A x \in Resources \ {r} : state'[x] = state[x]
    BY <1>1, <1>2, <1>4 DEF Shape
  <2>2. UsedSlots' = UsedSlots
    BY <1>4 DEF UsedSlots
  <2>3. \A x \in Range(loaded_resources) :
          state'[x] = LOADED \/ \E u \in Threads : pc'[u] = "loading" /\ arg'[u] = x
    BY <1>1, <1>2, <1>3, <2>1, SlotsFinite DEF Slots
  <2> QED
    BY <1>1, <1>2, <1>3, <1>4, <2>1, <2>2, <2>3 DEF Slots
<1>5. CASE Failed(r)
  <2>1. /\ state' = [state EXCEPT ![r] = NOT_LOADED] /\ Uncount(r)
        /\ used_resources' = used_resources - 1
        /\ loaded_resources' = Without(loaded_resources, r)
    BY <1>5 DEF Failed
  <2>2. state'[r] = NOT_LOADED /\ \A x \in Resources \ {r} : state'[x] = state[x]
    BY <1>1, <1>2, <2>1 DEF Shape
  <2>3. /\ IsInjective(loaded_resources') /\ Len(loaded_resources') = Len(loaded_resources) - 1
        /\ Range(loaded_resources') = Range(loaded_resources) \ {r}
    BY <1>2, <2>1, WithoutRange DEF Slots, Shape
  <2>4. Len(loaded_resources') <= concurrent_limit
    BY <1>2, <2>3, LimitAssumption DEF Slots, Shape
  <2>5. used_count[r] > 0
    <3>1. t \in Users(r)
      BY <1>1 DEF Users, Calling
    <3> QED
      BY <1>1, <1>2, <3>1, NoUsers DEF UsersInv
  <2>6. UsedSlots' = UsedSlots \ {r} /\ r \in UsedSlots
    BY <1>1, <1>2, <2>1, <2>3, <2>5, SlotsFinite DEF UsedSlots, Uncount, Shape
  <2>7. used_resources' = Cardinality(UsedSlots')
    BY <1>2, <2>1, <2>6, SlotsFinite, FS_RemoveElement DEF Slots
  <2>8. \A x \in Range(loaded_resources') :
          state'[x] = LOADED \/ \E u \in Threads : pc'[u] = "loading" /\ arg'[u] = x
    BY <1>1, <1>2, <1>3, <2>2, <2>3, SlotsFinite DEF Slots
  <2>9. \A x \in Resources : state'[x] = LOADED => x \in Range(loaded_resources')
    BY <2>2, <2>3 DEF Slots, NOT_LOADED, LOADED
  <2>10. \A u \in Threads : pc'[u] = "loading" => arg'[u] \in Range(loaded_resources')
    BY <1>1, <1>3, <2>3 DEF Slots
  <2> QED
    BY <1>1, <1>2, <2>3, <2>4, <2>7, <2>8, <2>9, <2>10 DEF Slots
<1> QED
  BY <1>4, <1>5 DEF Loaded

LEMMA ReleaseSlots ==
  ASSUME IInv, UsersInv', NEW t \in Threads, NEW r \in Resources, release(t, r)
  PROVE  Slots'
<1> USE DEF IInv
<1>1. /\ pc[t] = "idle" /\ ~destroyed /\ r \in holds[t] /\ Uncount(r)
      /\ UNCHANGED <<state, loaded_resources, arg, destroyed>>
      /\ used_resources' = IF used_count[r] = 1 THEN used_resources - 1 ELSE used_resources
      /\ pc' = [pc EXCEPT ![t] = "notify"] \/ pc' = [pc EXCEPT ![t] = "idle"] \/ pc' = pc
  BY DEF release, Goto
<1>2. /\ Shape /\ Shape' /\ r \in Range(loaded_resources)
      /\ \A x \in Resources : used_count[x] \in Nat
  BY <1>1, CountsNat DEF UsersInv, HeldIsLoaded, Slots
<1>3. used_count[r] > 0
  <2>1. t \in Users(r)
    BY <1>1 DEF Users
  <2> QED
    BY <1>2, <2>1, NoUsers DEF UsersInv
<1>4. used_resources' = Cardinality(UsedSlots')
  <2>1. CASE used_count[r] = 1
    <3>1. UsedSlots' = UsedSlots \ {r} /\ r \in UsedSlots
      BY <1>1, <1>2, <1>3, <2>1, SlotsFinite DEF UsedSlots, Uncount, Shape
    <3> QED
      BY <1>1, <1>2, <2>1, <3>1, SlotsFinite, FS_RemoveElement DEF Slots
  <2>2. CASE used_count[r] # 1
    <3>1. UsedSlots' = UsedSlots
      BY <1>1, <1>2, <1>3, <2>2, SlotsFinite DEF UsedSlots, Uncount, Shape
    <3> QED
      BY <1>1, <2>2, <3>1 DEF Slots
  <2> QED
    BY <2>1, <2>2
<1>5. \A u \in Threads : pc'[u] = "loading" <=> pc[u] = "loading"
  BY <1>1, <1>2 DEF Shape
<1> QED
  BY <1>1, <1>4, <1>5 DEF Slots

LEMMA OtherSlots ==
  ASSUME IInv, UsersInv',
         \/ \E t \in Threads : Notify(t) \/ SpuriousWakeup(t)
         \/ \E r \in Resources : Add(r)
         \/ Destroy
         \/ UNCHANGED vars
  PROVE  Slots'
<1> USE DEF IInv
<1>1. /\ UNCHANGED <<used_count, used_resources, loaded_resources, arg>>
      /\ (destroyed' = destroyed /\ state' = state) \/ (destroyed' /\ Destroy)
      /\ \/ pc' = pc
         \/ \E t \in Threads : pc[t] = "notify" /\ pc' = [pc EXCEPT ![t] = "idle"]
  BY DEF Notify, SpuriousWakeup, Add, Destroy, vars, Goto
<1>2. Shape /\ \A u \in Threads : pc'[u] = pc[u] \/ (pc[u] = "notify" /\ pc'[u] = "idle")
  BY <1>1 DEF UsersInv, Shape
<1>3. UsedSlots' = UsedSlots
  BY <1>1 DEF UsedSlots
<1>4. CASE destroyed' = destroyed /\ state' = state
  BY <1>1, <1>2, <1>3, <1>4 DEF Slots, NoCalls
<1>5. CASE destroyed' /\ Destroy
  <2>1. \A x \in Resources : state'[x] = LOADED => state[x] = LOADED
    BY <1>2, <1>5 DEF Destroy, Shape, NOT_LOADED, LOADED
  <2>2. NoCalls /\ pc' = pc
    BY <1>5 DEF Destroy
  <2> QED
    BY <1>1, <1>2, <1>3, <1>5, <2>1, <2>2 DEF Slots, NoCalls
<1> QED
  BY <1>1, <1>4, <1>5

LEMMA Inductive == IInv /\ [Next]_vars => IInv'
<1> SUFFICES ASSUME IInv, [Next]_vars PROVE IInv'
  OBVIOUS
<1>1. UsersInv'
  BY UsersInductive DEF IInv
<1>2. Slots'
  BY <1>1, LoadUnusedSlots, LoadFirstSlots, ResumeQueuedSlots, LoadSharedSlots, ResumeJoinedSlots,
     LoadedSlots, ReleaseSlots, OtherSlots
  DEF Next, Load, Continue
<1> QED
  BY <1>1, <1>2 DEF IInv

LEMMA Initially == Init => IInv
<1> SUFFICES ASSUME Init PROVE IInv
  OBVIOUS
<1>1. UsersInv
  BY UsersInitially
<1>2. Range(loaded_resources) = {} /\ UsedSlots = {}
  BY DEF Init, Range, UsedSlots
<1>3. Slots
  BY <1>2, FS_EmptySet, LimitAssumption DEF Slots, Init, IsInjective, NOT_LOADED, LOADED
<1> QED
  BY <1>1, <1>3 DEF IInv

LEMMA Invariance == Spec => []IInv
  BY Initially, Inductive, PTL DEF Spec

\* Type correctness; that the counters, unsigned in the code, never go below zero is the point.
THEOREM TypeCorrect == Spec => []TypeOK
<1>1. IInv => TypeOK
  <2> SUFFICES ASSUME IInv PROVE TypeOK
    OBVIOUS
  <2>1. Shape /\ \A x \in Resources : used_count[x] \in Nat
    BY CountsNat DEF IInv, UsersInv
  <2>2. used_count \in [Resources -> Nat]
    BY <2>1 DEF Shape
  <2>3. used_resources \in Nat
    BY <2>1, SlotsFinite DEF IInv, Slots
  <2> QED
    BY <2>1, <2>2, <2>3 DEF Shape, TypeOK
<1> QED
  BY <1>1, Invariance, PTL

\* A resource a client holds is loaded, for any number of threads, resources and slots.
THEOREM HeldStaysLoaded == Spec => []HeldIsLoaded
<1>1. IInv => HeldIsLoaded
  BY DEF IInv, UsersInv
<1> QED
  BY <1>1, Invariance, PTL

\* used_count is exactly the number of users, whatever failed or is still waiting.
THEOREM UsersCounted == Spec => []UsedCountIsUsers
<1>1. IInv => UsedCountIsUsers
  BY DEF IInv, UsersInv
<1> QED
  BY <1>1, Invariance, PTL

\* A resource is being brought in by exactly one thread when it is LOADING, by none otherwise.
THEOREM LoaderUnique == Spec => []OneLoader
<1>1. IInv => OneLoader
  <2> SUFFICES ASSUME IInv, NEW r \in Resources
               PROVE  LET loaders == {t \in Threads : pc[t] \in {"queued", "loading"} /\ arg[t] = r}
                      IN  Cardinality(loaders) = IF state[r] = LOADING THEN 1 ELSE 0
    BY DEF OneLoader
  <2> DEFINE loaders == {t \in Threads : pc[t] \in {"queued", "loading"} /\ arg[t] = r}
  <2>1. CASE state[r] = LOADING
    <3>1. PICK t \in Threads : Bringing(t) /\ arg[t] = r
      BY <2>1 DEF IInv, UsersInv, Roles
    <3>2. loaders = {t}
      BY <3>1 DEF IInv, UsersInv, Roles, Bringing
    <3> QED
      BY <2>1, <3>2, FS_Singleton
  <2>2. CASE state[r] # LOADING
    <3>1. loaders = {}
      BY <2>2 DEF IInv, UsersInv, Roles, Bringing
    <3> QED
      BY <2>2, <3>1, FS_EmptySet
  <2> QED
    BY <2>1, <2>2
<1> QED
  BY <1>1, Invariance, PTL

\* The limit is respected, and used_resources is the number of slots in use.
THEOREM SlotsAreAccounted == Spec => []SlotsAccounted
<1>1. IInv => SlotsAccounted
  BY DEF IInv, Slots, SlotsAccounted, UsedSlots
<1> QED
  BY <1>1, Invariance, PTL

\* A caller is refused without a load of its own only while a failed load has waiters to answer.
THEOREM RefusalsAreFresh == Spec => []RefusalIsFresh
<1>1. IInv => RefusalIsFresh
  <2> SUFFICES ASSUME IInv, NEW r \in Resources, used_count[r] > 0, state[r] = NOT_LOADED
               PROVE  \E t \in Threads : pc[t] = "joined" /\ arg[t] = r
    BY DEF RefusalIsFresh
  <2>1. PICK t \in Threads : t \in Users(r)
    BY NoUsers DEF IInv, UsersInv, Users
  <2>2. r \notin holds[t]
    BY DEF IInv, UsersInv, HeldIsLoaded, LOADED, NOT_LOADED
  <2>3. ~Bringing(t) \/ arg[t] # r
    BY DEF IInv, UsersInv, Roles, LOADING, NOT_LOADED
  <2> QED
    BY <2>1, <2>2, <2>3 DEF Users, Calling, Bringing
<1> QED
  BY <1>1, Invariance, PTL
-----------------------------------------------------------------------------
\* A wakeup is pending when somebody has yet to run notify_all.
Pending == \E u \in Threads : pc[u] \in {"loading", "notify"}

\* A section that may admit the thread leaves the pending wakeups to come, or is one.
LEMMA AdmitOrSleepWakeup ==
  ASSUME IInv, NoLostWakeup, NEW t \in Threads, NEW r \in Resources,
         NEW queue \in Seq(Resources), pc[t] \in {"idle", "queued"}, arg'[t] = r,
         queued_resources = <<>> \/ Head(queue) = Head(queued_resources),
         \A u \in Threads \ {t} : arg'[u] = arg[u],
         AdmitOrSleep(t, r, queue)
  PROVE  NoLostWakeup'
<1> USE DEF IInv
<1>1. Shape /\ WaitersQueued
  BY DEF UsersInv
<1>2. CASE Admitted(r, queue)
  <2>1. pc' = [pc EXCEPT ![t] = "loading"]
    BY <1>2 DEF AdmitOrSleep, Admit, Goto
  <2>2. pc'[t] = "loading"
    BY <1>1, <2>1 DEF Shape
  <2> QED
    BY <2>2 DEF NoLostWakeup
<1>3. CASE ~Admitted(r, queue)
  <2>1. /\ queued_resources' = queue /\ used_resources' = used_resources
        /\ asleep' = asleep \cup {t} /\ pc' = [pc EXCEPT ![t] = "queued"]
    BY <1>3 DEF AdmitOrSleep, Sleep, Goto
  <2>2. \A u \in Threads \ {t} : pc'[u] = pc[u]
    BY <1>1, <2>1 DEF Shape
  <2> SUFFICES ASSUME NEW u \in asleep', pc'[u] = "queued", Admitted(arg[u], queued_resources)'
               PROVE  Pending'
    BY DEF NoLostWakeup, Pending
  <2>3. u \in Threads /\ u # t
    BY <1>1, <1>3, <2>1 DEF Admitted, Shape
  <2>4. u \in asleep /\ pc[u] = "queued" /\ arg'[u] = arg[u]
    BY <2>1, <2>2, <2>3
  <2>5. queued_resources # <<>>
    BY <1>1, <2>3, <2>4 DEF WaitersQueued, Range
  <2>6. Admitted(arg[u], queued_resources)
    BY <2>1, <2>4, <2>5 DEF Admitted
  <2>7. PICK v \in Threads : pc[v] \in {"loading", "notify"}
    BY <2>4, <2>6 DEF NoLostWakeup
  <2>8. v # t /\ pc'[v] = pc[v]
    BY <2>2, <2>7
  <2> QED
    BY <2>7, <2>8 DEF Pending
<1> QED
  BY <1>2, <1>3

LEMMA WakeupInductive ==
  ASSUME IInv, NoLostWakeup, [Next]_vars
  PROVE  NoLostWakeup'
<1> USE DEF IInv
<1>1. Shape /\ WaitersQueued /\ used_resources \in Nat /\ used_resources <= concurrent_limit
  <2>1. Cardinality(UsedSlots) <= Cardinality(Range(loaded_resources))
    <3>1. UsedSlots \in SUBSET Range(loaded_resources)
      BY DEF UsedSlots
    <3> QED
      BY <3>1, SlotsFinite, FS_Subset DEF UsersInv
  <2>2. Cardinality(Range(loaded_resources)) = Len(loaded_resources) /\ Len(loaded_resources) \in Nat
    BY InjectiveLength DEF UsersInv, Shape, Slots
  <2> QED
    BY <2>1, <2>2, SlotsFinite, LimitAssumption DEF UsersInv, Slots
\* The steps that neither put to sleep nor free a slot, and keep what is pending.
<1>2. ASSUME used_resources' >= used_resources, queued_resources' = queued_resources,
             \A u \in asleep' : pc'[u] = "queued" => u \in asleep /\ pc[u] = "queued" /\ arg'[u] = arg[u],
             Pending => Pending'
      PROVE  NoLostWakeup'
  <2> SUFFICES ASSUME NEW u \in asleep', pc'[u] = "queued", Admitted(arg[u], queued_resources)'
               PROVE  Pending'
    BY DEF NoLostWakeup, Pending
  <2>1. u \in asleep /\ pc[u] = "queued" /\ arg'[u] = arg[u]
    BY <1>2
  <2>2. used_resources < concurrent_limit /\ Head(queued_resources) = arg[u]
    <3>1. used_resources' < concurrent_limit /\ Head(queued_resources) = arg[u]
      BY <1>2, <2>1 DEF Admitted
    <3>2. used_resources' \in Int
      BY ShapeInductive DEF UsersInv, Shape
    <3> QED
      BY <1>1, <1>2, <3>1, <3>2, LimitAssumption
  <2>3. Pending
    BY <2>1, <2>2 DEF NoLostWakeup, Pending, Admitted
  <2> QED
    BY <1>2, <2>3
\* A step that leaves its thread with a wakeup pending.
<1>3. ASSUME Pending' PROVE NoLostWakeup'
  BY <1>3 DEF NoLostWakeup, Pending
<1>4. ASSUME NEW t \in Threads, NEW r \in Resources, LoadFirst(t, r) PROVE NoLostWakeup'
  <2>1. /\ pc[t] = "idle" /\ arg' = [arg EXCEPT ![t] = r]
        /\ AdmitOrSleep(t, r, Append(queued_resources, r))
    BY <1>4 DEF LoadFirst, Call
  <2>2. /\ Append(queued_resources, r) \in Seq(Resources)
        /\ queued_resources = <<>> \/ Head(Append(queued_resources, r)) = Head(queued_resources)
    <3>1. queued_resources \in Seq(Resources)
      BY <1>1 DEF Shape
    <3> QED
      BY <3>1, AppendProperties
  <2>3. arg'[t] = r /\ \A u \in Threads \ {t} : arg'[u] = arg[u]
    BY <1>1, <2>1 DEF Shape
  <2> QED
    BY <2>1, <2>2, <2>3, AdmitOrSleepWakeup
<1>5. ASSUME NEW t \in Threads, ResumeQueued(t) PROVE NoLostWakeup'
  <2>1. /\ pc[t] = "queued" /\ arg' = arg /\ arg[t] \in Resources
        /\ AdmitOrSleep(t, arg[t], queued_resources) /\ queued_resources \in Seq(Resources)
    BY <1>1, <1>5 DEF ResumeQueued, Shape
  <2> QED
    BY <2>1, AdmitOrSleepWakeup
<1>6. ASSUME NEW t \in Threads, NEW r \in Resources, LoadUnused(t, r) \/ LoadUnknown(t, r) PROVE NoLostWakeup'
  <2>1. /\ pc[t] = "idle" /\ pc' = pc /\ asleep' = asleep /\ queued_resources' = queued_resources
        /\ arg' = [arg EXCEPT ![t] = r] /\ used_resources' \in {used_resources, used_resources + 1}
    BY <1>6 DEF LoadUnused, LoadUnknown, Call
  <2> QED
    BY <1>1, <1>2, <2>1 DEF Pending, Shape
<1>7. ASSUME NEW t \in Threads, NEW r \in Resources, LoadShared(t, r) PROVE NoLostWakeup'
  <2>1. /\ pc[t] = "idle" /\ queued_resources' = queued_resources
        /\ (pc' = pc /\ asleep' = asleep) \/ (pc' = [pc EXCEPT ![t] = "joined"] /\ asleep' = asleep \cup {t})
        /\ arg' = [arg EXCEPT ![t] = r] /\ used_resources' = used_resources
    BY <1>7 DEF LoadShared, Call, Goto
  <2>2. \A u \in Threads : pc'[u] = pc[u] \/ (u = t /\ pc'[u] = "joined")
    BY <1>1, <2>1 DEF Shape
  <2>3. Pending => Pending'
    BY <2>1, <2>2 DEF Pending
  <2>4. \A u \in asleep' : pc'[u] = "queued" => u \in asleep /\ pc[u] = "queued" /\ arg'[u] = arg[u]
    BY <1>1, <2>1 DEF Shape
  <2> QED
    BY <1>1, <1>2, <2>1, <2>3, <2>4
<1>8. ASSUME NEW t \in Threads, ResumeJoined(t) PROVE NoLostWakeup'
  <2>1. /\ pc[t] = "joined" /\ queued_resources' = queued_resources
        /\ (pc' = pc /\ asleep' = asleep \cup {t}) \/ (pc' = [pc EXCEPT ![t] = "idle"] /\ asleep' = asleep)
        /\ arg' = arg /\ used_resources' = used_resources
    BY <1>8 DEF ResumeJoined, Goto
  <2>2. \A u \in Threads : pc'[u] = pc[u] \/ (u = t /\ pc'[u] = "idle")
    BY <1>1, <2>1 DEF Shape
  <2>3. Pending => Pending'
    BY <2>1, <2>2 DEF Pending
  <2>4. \A u \in asleep' : pc'[u] = "queued" => u \in asleep /\ pc[u] = "queued" /\ arg'[u] = arg[u]
    BY <1>1, <2>1 DEF Shape
  <2> QED
    BY <1>1, <1>2, <2>1, <2>3, <2>4
<1>9. ASSUME NEW t \in Threads, Loaded(t) PROVE NoLostWakeup'
  <2>1. pc'[t] = "notify"
    BY <1>1, <1>9 DEF Loaded, Goto, Shape
  <2> QED
    BY <1>3, <2>1 DEF Pending
<1>10. ASSUME NEW t \in Threads, Notify(t) PROVE NoLostWakeup'
  BY <1>10 DEF Notify, NoLostWakeup
<1>11. ASSUME NEW t \in Threads, NEW r \in Resources, release(t, r) PROVE NoLostWakeup'
  <2>1. /\ pc[t] = "idle" /\ UNCHANGED <<queued_resources, asleep, arg>>
        /\ IF used_count[r] = 1
           THEN /\ used_resources' = used_resources - 1
                /\ pc' = [pc EXCEPT ![t] = IF AllSlotsUsed THEN "notify" ELSE "idle"]
           ELSE UNCHANGED <<used_resources, pc>>
    BY <1>11 DEF release, Goto
  <2>2. CASE used_count[r] = 1 /\ AllSlotsUsed
    <3>1. pc'[t] = "notify"
      BY <1>1, <2>1, <2>2 DEF Shape
    <3> QED
      BY <1>3, <3>1 DEF Pending
  <2>3. CASE used_count[r] = 1 /\ ~AllSlotsUsed
    <3>1. pc' = pc
      BY <1>1, <2>1, <2>3 DEF Shape
    <3> SUFFICES ASSUME NEW u \in asleep, pc[u] = "queued", Admitted(arg[u], queued_resources)'
                 PROVE  Pending
      BY <2>1, <3>1 DEF NoLostWakeup, Pending
    <3>2. Admitted(arg[u], queued_resources)
      BY <1>1, <2>1, <2>3, LimitAssumption DEF Admitted, AllSlotsUsed
    <3> QED
      BY <3>2 DEF NoLostWakeup, Pending
  <2>4. CASE used_count[r] # 1
    BY <1>1, <1>2, <2>1, <2>4 DEF Pending
  <2> QED
    BY <2>2, <2>3, <2>4
<1>12. CASE \/ \E t \in Threads : SpuriousWakeup(t)
            \/ \E r \in Resources : Add(r)
            \/ Destroy
            \/ UNCHANGED vars
  <2>1. UNCHANGED <<used_resources, queued_resources, pc, arg>> /\ asleep' \subseteq asleep
    BY <1>12 DEF SpuriousWakeup, Add, Destroy, vars
  <2> QED
    BY <1>1, <1>2, <2>1 DEF Pending
<1> QED
  BY <1>4, <1>5, <1>6, <1>7, <1>8, <1>9, <1>10, <1>11, <1>12 DEF Next, Load, Continue

\* No wakeup is lost: release may skip notify_all when some slot was free already.
THEOREM WakeupsNotLost == Spec => []NoLostWakeup
<1>1. Init => NoLostWakeup
  BY DEF Init, NoLostWakeup
<1>2. IInv /\ NoLostWakeup /\ [Next]_vars => NoLostWakeup'
  BY WakeupInductive
<1> QED
  BY <1>1, <1>2, Invariance, PTL DEF Spec
-----------------------------------------------------------------------------
(* The queue is served in order, and the loader implements ResourcePool.     *)

\* The queue holds each resource once, and for each the thread that waits to load it.
QueueInv ==
  /\ IsInjective(queued_resources)
  /\ \A r \in Range(queued_resources) : \E t \in Threads : pc[t] = "queued" /\ arg[t] = r

\* What a section that may admit the thread does to the queue and to the slots.
LEMMA Admission ==
  ASSUME IInv, Shape', NEW t \in Threads, NEW r \in Resources, NEW queue \in Seq(Resources),
         r \notin Range(loaded_resources), used_count'[r] > 0,
         \A x \in Resources \ {r} : used_count'[x] = used_count[x],
         AdmitOrSleep(t, r, queue)
  PROVE  \/ /\ pc' = [pc EXCEPT ![t] = "queued"] /\ queued_resources' = queue
            /\ state' = [state EXCEPT ![r] = LOADING]
         \/ /\ pc' = [pc EXCEPT ![t] = "loading"] /\ queued_resources' = Tail(queue) /\ Head(queue) = r
            /\ state'[r] = LOADING
            /\ \E dropped \in SUBSET Range(loaded_resources) :
                 /\ r \notin dropped
                 /\ \A x \in dropped : used_count[x] = 0 /\ state'[x] = NOT_LOADED
                 /\ \A x \in Resources \ dropped : x # r => state'[x] = state[x]
<1>1. Shape /\ Slots /\ \A x \in Resources : used_count[x] >= 0
  BY CountsNat DEF IInv, UsersInv
<1>2. pc \in [Threads -> {"idle", "queued", "joined", "loading", "notify"}]
  BY <1>1 DEF Shape
<1>3. /\ state'[r] = LOADING
      /\ \/ pc' = [pc EXCEPT ![t] = "loading"] /\ queued_resources' = Tail(queue) /\ Head(queue) = r
         \/ pc' = [pc EXCEPT ![t] = "queued"] /\ queued_resources' = queue
  BY <1>1, AdmitOrSleepEffect
<1>4. \/ /\ pc' = [pc EXCEPT ![t] = "queued"]
         /\ loaded_resources' = loaded_resources
         /\ state' = [state EXCEPT ![r] = LOADING]
      \/ /\ pc' = [pc EXCEPT ![t] = "loading"]
         /\ r \in Range(loaded_resources')
         /\ \E dropped \in SUBSET Range(loaded_resources) :
              /\ \A x \in dropped : used_count[x] = 0 /\ state'[x] = NOT_LOADED
              /\ Range(loaded_resources') = (Range(loaded_resources) \ dropped) \cup {r}
              /\ \A x \in Resources \ dropped : x # r => state'[x] = state[x]
  BY <1>1, AdmitSlots
<1> QED
  BY <1>2, <1>3, <1>4

\* Both sections that may admit a thread: the caller's first one, with the resource at the end
\* of the queue, and one after a wakeup.
Asking(t, r, queue) ==
  /\ ~destroyed /\ destroyed' = destroyed /\ holds' = holds /\ r \notin Range(loaded_resources)
  /\ queue \in Seq(Resources) /\ IsInjective(queue)
  /\ r \in Range(queue) /\ \A x \in Range(queue) \ {r} : x \in Range(queued_resources)
  /\ Range(queued_resources) \subseteq Range(queue)
  /\ \A u \in Threads \ {t} : arg'[u] = arg[u] /\ (pc[u] \in {"queued", "loading"} => arg[u] # r)
  /\ arg'[t] = r /\ (pc[t] = "idle" \/ (pc[t] = "queued" /\ arg[t] = r))
  /\ used_count'[r] > 0 /\ \A x \in Resources \ {r} : used_count'[x] = used_count[x]
  /\ AdmitOrSleep(t, r, queue)

LEMMA FirstAsks ==
  ASSUME IInv, QueueInv, NEW t \in Threads, NEW r \in Resources, LoadFirst(t, r)
  PROVE  Asking(t, r, Append(queued_resources, r)) /\ r \notin Range(queued_resources) /\ pc[t] = "idle"
<1> DEFINE queue == Append(queued_resources, r)
<1>1. /\ ~destroyed /\ destroyed' = destroyed /\ holds' = holds /\ pc[t] = "idle"
      /\ state[r] # LOADED /\ used_count[r] = 0 /\ Count(r) /\ AdmitOrSleep(t, r, queue)
      /\ arg' = [arg EXCEPT ![t] = r]
  BY DEF LoadFirst, Call
<1>2. Shape
  BY DEF IInv, UsersInv
<1>3. Users(r) = {}
  BY <1>1, NoUsers DEF IInv, UsersInv
<1>4. r \notin Range(loaded_resources)
  BY <1>1, <1>3 DEF IInv, Slots, Users, Calling
<1>5. r \notin Range(queued_resources)
  BY <1>3 DEF QueueInv, Users, Calling
<1>6. queue \in Seq(Resources) /\ Range(queue) = Range(queued_resources) \cup {r} /\ IsInjective(queue)
  BY <1>2, <1>5, AppendRange, AppendInjectiveSeq DEF Shape, QueueInv
<1>7. used_count'[r] = 1 /\ \A x \in Resources \ {r} : used_count'[x] = used_count[x]
  BY <1>1, <1>2 DEF Count, Shape
<1>8. arg'[t] = r /\ \A u \in Threads \ {t} : arg'[u] = arg[u] /\ (pc[u] \in {"queued", "loading"} => arg[u] # r)
  BY <1>1, <1>2, <1>3 DEF Shape, Users, Calling
<1> HIDE DEF queue
<1> QED
  BY <1>1, <1>4, <1>5, <1>6, <1>7, <1>8 DEF Asking, queue

LEMMA QueuedAsks ==
  ASSUME IInv, QueueInv, NEW t \in Threads, ResumeQueued(t)
  PROVE  Asking(t, arg[t], queued_resources) /\ arg[t] \in Resources /\ pc[t] = "queued"
<1>1. /\ pc[t] = "queued" /\ destroyed' = destroyed /\ holds' = holds /\ arg' = arg /\ used_count' = used_count
      /\ AdmitOrSleep(t, arg[t], queued_resources)
  BY DEF ResumeQueued
<1>2. Shape /\ ~destroyed /\ arg[t] \in Resources
  BY <1>1 DEF IInv, UsersInv, Shape, Slots, NoCalls
<1>3. /\ state[arg[t]] = LOADING
      /\ \A u \in Threads \ {t} : pc[u] \in {"queued", "loading"} => arg[u] # arg[t]
  BY <1>1 DEF IInv, UsersInv, Roles, Bringing
<1>4. arg[t] \notin Range(loaded_resources)
  BY <1>1, <1>2, <1>3 DEF IInv, Slots, LOADING, LOADED
<1>5. used_count[arg[t]] > 0
  <2>1. t \in Users(arg[t])
    BY <1>1 DEF Users, Calling
  <2> QED
    BY <1>2, <2>1, NoUsers, CountsNat DEF IInv, UsersInv
<1>6. queued_resources \in Seq(Resources) /\ IsInjective(queued_resources) /\ arg[t] \in Range(queued_resources)
  BY <1>1, <1>2 DEF Shape, QueueInv, IInv, UsersInv, WaitersQueued
<1> QED
  BY <1>1, <1>2, <1>3, <1>4, <1>5, <1>6 DEF Asking

LEMMA TailRange ==
  ASSUME NEW S, NEW s \in Seq(S), IsInjective(s), s # <<>>
  PROVE  IsInjective(Tail(s)) /\ Range(Tail(s)) = Range(s) \ {Head(s)}
<1>1. /\ Len(s) \in Nat /\ Len(s) > 0 /\ DOMAIN s = 1..Len(s)
      /\ DOMAIN Tail(s) = 1..(Len(s) - 1) /\ \A i \in 1..(Len(s) - 1) : Tail(s)[i] = s[i + 1]
      /\ Head(s) = s[1]
  OBVIOUS
<1>2. IsInjective(Tail(s))
  BY <1>1 DEF IsInjective
<1>3. Range(Tail(s)) \subseteq Range(s) \ {Head(s)}
  BY <1>1 DEF IsInjective, Range
<1>4. ASSUME NEW x \in Range(s), x # Head(s) PROVE x \in Range(Tail(s))
  BY <1>4, HeadTailRange
<1> QED
  BY <1>2, <1>3, <1>4

LEMMA AskingQueue ==
  ASSUME IInv, QueueInv, Shape', NEW t \in Threads, NEW r \in Resources, NEW queue, Asking(t, r, queue)
  PROVE  QueueInv'
<1>1. /\ queue \in Seq(Resources) /\ IsInjective(queue) /\ r \in Range(queue) /\ queue # <<>>
      /\ \A x \in Range(queue) \ {r} : x \in Range(queued_resources)
  BY DEF Asking, Range
<1>2. \A x \in Range(queue) \ {r} : \E u \in Threads \ {t} : pc[u] = "queued" /\ arg[u] = x /\ arg'[u] = x
  <2> TAKE x \in Range(queue) \ {r}
  <2>1. PICK u \in Threads : pc[u] = "queued" /\ arg[u] = x
    BY <1>1 DEF QueueInv
  <2>2. u # t
    BY <2>1 DEF Asking
  <2> QED
    BY <2>1, <2>2 DEF Asking
<1>3. pc \in [Threads -> {"idle", "queued", "joined", "loading", "notify"}]
  BY DEF IInv, UsersInv, Shape
<1>4. Shape /\ IInv /\ Shape' /\ r \notin Range(loaded_resources) /\ used_count'[r] > 0
      /\ (\A x \in Resources \ {r} : used_count'[x] = used_count[x]) /\ AdmitOrSleep(t, r, queue)
  BY DEF Asking, IInv, UsersInv
<1>5. \/ pc' = [pc EXCEPT ![t] = "queued"] /\ queued_resources' = queue
      \/ pc' = [pc EXCEPT ![t] = "loading"] /\ queued_resources' = Tail(queue) /\ Head(queue) = r
  BY <1>1, <1>4, Admission
<1>6. CASE pc' = [pc EXCEPT ![t] = "queued"] /\ queued_resources' = queue
  <2>1. pc'[t] = "queued" /\ arg'[t] = r /\ \A u \in Threads \ {t} : pc'[u] = pc[u]
    BY <1>3, <1>6 DEF Asking
  <2> QED
    BY <1>1, <1>2, <1>6, <2>1 DEF QueueInv
<1>7. CASE pc' = [pc EXCEPT ![t] = "loading"] /\ queued_resources' = Tail(queue) /\ Head(queue) = r
  <2>1. \A u \in Threads \ {t} : pc'[u] = pc[u]
    BY <1>3, <1>7
  <2>2. IsInjective(Tail(queue)) /\ Range(Tail(queue)) = Range(queue) \ {r}
    BY <1>1, <1>7, TailRange
  <2> QED
    BY <1>2, <1>7, <2>1, <2>2 DEF QueueInv
<1> QED
  BY <1>5, <1>6, <1>7

\* The other steps leave the queue alone, and those who wait in it.
LEMMA OtherQueue ==
  ASSUME IInv, QueueInv, UNCHANGED queued_resources,
         \A t \in Threads : pc[t] = "queued" => pc'[t] = "queued" /\ arg'[t] = arg[t]
  PROVE  QueueInv'
  BY DEF QueueInv

LEMMA QueueInductive == IInv /\ QueueInv /\ IInv' /\ [Next]_vars => QueueInv'
<1> SUFFICES ASSUME IInv, QueueInv, IInv', [Next]_vars PROVE QueueInv'
  OBVIOUS
<1> USE DEF Goto
<1>1. Shape /\ Shape'
  BY DEF IInv, UsersInv
<1>2. /\ pc \in [Threads -> {"idle", "queued", "joined", "loading", "notify"}]
      /\ arg \in [Threads -> Resources]
  BY <1>1 DEF Shape
<1>3. ASSUME NEW t \in Threads, NEW r \in Resources, LoadFirst(t, r) PROVE QueueInv'
  <2>1. Asking(t, r, Append(queued_resources, r))
    BY <1>3, FirstAsks
  <2> QED
    BY <1>1, <2>1, AskingQueue
<1>4. ASSUME NEW t \in Threads, ResumeQueued(t) PROVE QueueInv'
  <2>1. Asking(t, arg[t], queued_resources) /\ arg[t] \in Resources
    BY <1>4, QueuedAsks
  <2> QED
    BY <1>1, <2>1, AskingQueue
<1>5. ASSUME NEW t \in Threads, NEW r \in Resources, LoadUnused(t, r) \/ LoadShared(t, r) \/ LoadUnknown(t, r)
      PROVE  QueueInv'
  <2>1. /\ UNCHANGED queued_resources /\ pc[t] = "idle" /\ arg' = [arg EXCEPT ![t] = r]
        /\ pc' = pc \/ pc' = [pc EXCEPT ![t] = "joined"]
    BY <1>5 DEF LoadUnused, LoadShared, LoadUnknown, Call
  <2>2. \A u \in Threads : pc[u] = "queued" => pc'[u] = "queued" /\ arg'[u] = arg[u]
    BY <1>2, <2>1
  <2> QED
    BY <2>1, <2>2, OtherQueue
<1>6. ASSUME NEW t \in Threads, ResumeJoined(t) \/ Loaded(t) \/ Notify(t) \/ SpuriousWakeup(t)
      PROVE  QueueInv'
  <2>1. /\ UNCHANGED <<queued_resources, arg>>
        /\ pc' = pc \/ (pc[t] # "queued" /\ \E l \in {"idle", "notify"} : pc' = [pc EXCEPT ![t] = l])
    BY <1>6 DEF ResumeJoined, Loaded, Notify, SpuriousWakeup
  <2>2. \A u \in Threads : pc[u] = "queued" => pc'[u] = "queued" /\ arg'[u] = arg[u]
    BY <1>2, <2>1
  <2> QED
    BY <2>1, <2>2, OtherQueue
<1>7. ASSUME NEW t \in Threads, NEW r \in Resources, release(t, r) PROVE QueueInv'
  <2>1. /\ UNCHANGED <<queued_resources, arg>> /\ pc[t] = "idle"
        /\ pc' = pc \/ \E l \in {"idle", "notify"} : pc' = [pc EXCEPT ![t] = l]
    BY <1>7 DEF release
  <2>2. \A u \in Threads : pc[u] = "queued" => pc'[u] = "queued" /\ arg'[u] = arg[u]
    BY <1>2, <2>1
  <2> QED
    BY <2>1, <2>2, OtherQueue
<1>8. CASE (\E r \in Resources : Add(r)) \/ Destroy \/ UNCHANGED vars
  <2>1. UNCHANGED <<queued_resources, pc, arg>>
    BY <1>8 DEF Add, Destroy, vars
  <2> QED
    BY <2>1, OtherQueue
<1> QED
  BY <1>3, <1>4, <1>5, <1>6, <1>7, <1>8 DEF Next, Load, Continue

LEMMA PoolInvariance == Spec => [](IInv /\ QueueInv)
<1>1. Init => QueueInv
  BY DEF Init, QueueInv, IsInjective, Range
<1>2. IInv /\ QueueInv /\ [Next]_vars => (IInv /\ QueueInv)'
  BY Inductive, QueueInductive
<1> QED
  BY <1>1, <1>2, Initially, PTL DEF Spec
-----------------------------------------------------------------------------
\* Requests for room are served in order of arrival: no thread starts to load while an
\* earlier request waits in the queue, a new caller that finds a free slot included.
ServedStep ==
  \A t, u \in Threads :
    t # u /\ pc[t] = "queued" /\ pc[u] \in {"idle", "queued"} /\ pc'[u] = "loading"
    => pc[u] = "queued" /\ Position(arg[u]) < Position(arg[t])

LEMMA PositionOf ==
  ASSUME IInv, QueueInv, NEW x \in Range(queued_resources)
  PROVE  /\ Position(x) \in 1..Len(queued_resources) /\ queued_resources[Position(x)] = x
         /\ x = Head(queued_resources) => Position(x) = 1
         /\ x # Head(queued_resources) => Position(x) > 1
<1>1. /\ queued_resources \in Seq(Resources) /\ Len(queued_resources) \in Nat
      /\ DOMAIN queued_resources = 1..Len(queued_resources) /\ Head(queued_resources) = queued_resources[1]
  BY DEF IInv, UsersInv, Shape
<1>2. PICK i \in 1..Len(queued_resources) : queued_resources[i] = x
  BY <1>1 DEF Range
<1>3. Position(x) \in 1..Len(queued_resources) /\ queued_resources[Position(x)] = x
  BY <1>1, <1>2 DEF Position
<1>4. 1 \in DOMAIN queued_resources
  BY <1>1, <1>2
<1> QED
  BY <1>1, <1>3, <1>4 DEF QueueInv, IsInjective

THEOREM InOrder == Spec => ServedInOrder
<1>1. ASSUME IInv, QueueInv, IInv', [Next]_vars, NEW t \in Threads, NEW u \in Threads, t # u,
             pc[t] = "queued", pc[u] \in {"idle", "queued"}, pc'[u] = "loading"
      PROVE  pc[u] = "queued" /\ Position(arg[u]) < Position(arg[t])
  <2>1. Shape /\ Shape' /\ arg[t] \in Range(queued_resources) /\ queued_resources \in Seq(Resources)
    BY <1>1 DEF IInv, UsersInv, WaitersQueued, Shape
  <2>2. pc \in [Threads -> {"idle", "queued", "joined", "loading", "notify"}]
    BY <2>1 DEF Shape
  <2>3. ASSUME NEW r \in Resources, NEW queue, Asking(u, r, queue) PROVE Head(queue) = r
    <3>1. /\ queue \in Seq(Resources) /\ r \notin Range(loaded_resources) /\ used_count'[r] > 0
          /\ \A x \in Resources \ {r} : used_count'[x] = used_count[x]
          /\ AdmitOrSleep(u, r, queue)
      BY <2>3 DEF Asking
    <3>2. \/ pc' = [pc EXCEPT ![u] = "queued"]
          \/ Head(queue) = r
      BY <1>1, <2>1, <3>1, Admission
    <3> QED
      BY <1>1, <2>2, <3>2
  <2>4. (\E r \in Resources : LoadFirst(u, r)) \/ ResumeQueued(u)
    <3> USE DEF Goto
    <3>1. ASSUME NEW v \in Threads, ResumeQueued(v), v # u PROVE FALSE
      BY <1>1, <2>2, <3>1 DEF ResumeQueued, AdmitOrSleep, Admit, Sleep
    <3>2. ASSUME NEW v \in Threads, NEW r \in Resources, LoadFirst(v, r), v # u PROVE FALSE
      BY <1>1, <2>2, <3>2 DEF LoadFirst, AdmitOrSleep, Admit, Sleep
    <3>3. ASSUME NEW v \in Threads, ResumeJoined(v) \/ Loaded(v) \/ Notify(v) \/ SpuriousWakeup(v) PROVE FALSE
      BY <1>1, <2>2, <3>3 DEF ResumeJoined, Loaded, Notify, SpuriousWakeup
    <3>4. ASSUME NEW v \in Threads, NEW r \in Resources,
                 LoadUnused(v, r) \/ LoadShared(v, r) \/ LoadUnknown(v, r) \/ release(v, r) PROVE FALSE
      BY <1>1, <2>2, <3>4 DEF LoadUnused, LoadShared, LoadUnknown, release
    <3>5. CASE (\E r \in Resources : Add(r)) \/ Destroy \/ UNCHANGED vars
      BY <1>1, <3>5 DEF Add, Destroy, vars
    <3> QED
      BY <1>1, <3>1, <3>2, <3>3, <3>4, <3>5 DEF Next, Load, Continue
  <2>5. ASSUME NEW r \in Resources, LoadFirst(u, r) PROVE FALSE
    <3>1. Asking(u, r, Append(queued_resources, r)) /\ r \notin Range(queued_resources)
      BY <1>1, <2>5, FirstAsks
    <3>2. Head(Append(queued_resources, r)) = r
      BY <2>3, <3>1
    <3>3. queued_resources # <<>> /\ Head(queued_resources) \in Range(queued_resources)
      BY <2>1 DEF Range
    <3>4. Head(Append(queued_resources, r)) = Head(queued_resources)
      BY <2>1, <3>3
    <3> QED
      BY <3>1, <3>2, <3>3, <3>4
  <2>6. CASE ResumeQueued(u)
    <3>1. Asking(u, arg[u], queued_resources) /\ arg[u] \in Resources /\ pc[u] = "queued"
      BY <1>1, <2>6, QueuedAsks
    <3>2. Head(queued_resources) = arg[u] /\ arg[u] # arg[t] /\ arg[u] \in Range(queued_resources)
      BY <1>1, <2>3, <3>1 DEF Asking
    <3> QED
      BY <1>1, <2>1, <3>1, <3>2, PositionOf
  <2> QED
    BY <2>4, <2>5, <2>6
<1>2. IInv /\ QueueInv /\ IInv' /\ [Next]_vars => [ServedStep]_vars
  BY <1>1 DEF ServedStep
<1>3. ServedInOrder <=> [][ServedStep]_vars
  BY PTL DEF ServedInOrder, ServedStep
<1> QED
  BY <1>2, <1>3, PoolInvariance, PTL DEF Spec
-----------------------------------------------------------------------------
\* The refinement: what the pool sees of a state.
LoadingIn(r) == \E t \in Threads : pc[t] = "loading" /\ arg[t] = r
Seen ==
  /\ PoolStatus = [r \in Resources |-> IF state[r] = LOADED THEN "ready"
                                        ELSE IF LoadingIn(r) THEN "loading" ELSE "absent"]
  /\ \A r \in Resources : state[r] = LOADED => ~LoadingIn(r)

LEMMA SeenAs == IInv /\ QueueInv => Seen
<1> SUFFICES ASSUME IInv, QueueInv PROVE Seen
  OBVIOUS
<1>1. Shape /\ Roles /\ WaitersQueued
  BY DEF IInv, UsersInv
<1>2. ASSUME NEW r \in Resources
      PROVE  /\ state[r] = LOADED => ~LoadingIn(r)
             /\ LoadingIn(r) <=> state[r] = LOADING /\ r \notin Range(queued_resources)
  <2>1. LoadingIn(r) => state[r] = LOADING
    BY <1>1 DEF LoadingIn, Roles, Bringing
  <2>2. LoadingIn(r) => r \notin Range(queued_resources)
    BY <1>1 DEF LoadingIn, QueueInv, Roles, Bringing
  <2>3. state[r] = LOADING /\ r \notin Range(queued_resources) => LoadingIn(r)
    BY <1>1 DEF LoadingIn, Roles, Bringing, WaitersQueued
  <2> QED
    BY <2>1, <2>2, <2>3 DEF LOADING, LOADED
<1>3. ASSUME NEW r \in Resources
      PROVE  PoolStatus[r] = IF state[r] = LOADED THEN "ready" ELSE IF LoadingIn(r) THEN "loading" ELSE "absent"
  <2>1. CASE state[r] = LOADED
    BY <2>1 DEF PoolStatus, LOADING, LOADED
  <2>2. CASE LoadingIn(r)
    BY <1>2, <2>2 DEF PoolStatus, LOADING, LOADED
  <2>3. CASE state[r] # LOADED /\ ~LoadingIn(r)
    BY <1>2, <2>3 DEF PoolStatus
  <2> QED
    BY <1>2, <2>1, <2>2, <2>3
<1> QED
  BY <1>2, <1>3 DEF Seen, PoolStatus

LEMMA SameCardinality == \A S : Pool!Cardinality(S) = Cardinality(S)
  BY DEF Pool!Cardinality, Cardinality

\* No more is in memory than there are slots.
LEMMA MemoryBounded == IInv /\ Seen => Cardinality(Pool!InMemory(PoolStatus)) <= concurrent_limit
<1> SUFFICES ASSUME IInv, Seen PROVE Cardinality(Pool!InMemory(PoolStatus)) <= concurrent_limit
  OBVIOUS
<1>1. /\ Shape /\ Slots /\ loaded_resources \in Seq(Resources) /\ IsInjective(loaded_resources)
      /\ Len(loaded_resources) <= concurrent_limit /\ Len(loaded_resources) \in Nat
  BY DEF IInv, UsersInv, Slots, Shape
<1>2. Pool!InMemory(PoolStatus) \subseteq Range(loaded_resources)
  BY <1>1 DEF Pool!InMemory, Seen, LoadingIn, Slots
<1>3. IsFiniteSet(Range(loaded_resources)) /\ Cardinality(Range(loaded_resources)) = Len(loaded_resources)
  BY <1>1, InjectiveLength
<1>4. /\ IsFiniteSet(Pool!InMemory(PoolStatus))
      /\ Cardinality(Pool!InMemory(PoolStatus)) <= Cardinality(Range(loaded_resources))
  BY <1>2, <1>3, FS_Subset
<1>5. Cardinality(Pool!InMemory(PoolStatus)) \in Nat /\ concurrent_limit \in Nat
  BY <1>4, FS_CardinalityType, LimitAssumption
<1> QED
  BY <1>1, <1>3, <1>4, <1>5

\* The steps of the pool, one for each outcome of a section.
Stutters == UNCHANGED Pool!pvars
PoolStep == Stutters \/ Pool!Next

LEMMA NothingSeen ==
  ASSUME Seen, Seen', destroyed' = destroyed, holds' = holds,
         \A x \in Resources : (state'[x] = LOADED <=> state[x] = LOADED) /\ (LoadingIn(x)' <=> LoadingIn(x))
  PROVE  PoolStep
<1>1. PoolStatus' = PoolStatus
  BY DEF Seen
<1>2. PoolHolders' = PoolHolders
  BY DEF PoolHolders
<1> QED
  BY <1>1, <1>2 DEF PoolStep, Stutters, Pool!pvars

LEMMA AskingStep ==
  ASSUME IInv, QueueInv, IInv', Seen, Seen', NEW t \in Threads, NEW r \in Resources, NEW queue,
         Asking(t, r, queue), Users(r) = {} \/ pc[t] = "queued"
  PROVE  PoolStep
<1>1. /\ Shape /\ Shape' /\ ~destroyed /\ destroyed' = destroyed /\ holds' = holds
      /\ queue \in Seq(Resources) /\ r \notin Range(loaded_resources) /\ used_count'[r] > 0
      /\ \A x \in Resources \ {r} : used_count'[x] = used_count[x]
      /\ AdmitOrSleep(t, r, queue)
      /\ \A u \in Threads \ {t} : arg'[u] = arg[u] /\ (pc[u] = "loading" => arg[u] # r)
      /\ arg'[t] = r /\ pc[t] \in {"idle", "queued"}
  BY DEF Asking, IInv, UsersInv
<1>2. /\ pc \in [Threads -> {"idle", "queued", "joined", "loading", "notify"}]
      /\ state \in [Resources -> {NOT_LOADED, LOADING, LOADED}]
  BY <1>1 DEF Shape
<1>3. state[r] # LOADED /\ ~LoadingIn(r)
  BY <1>1, <1>2 DEF IInv, Slots, LoadingIn
<1>4. \/ /\ pc' = [pc EXCEPT ![t] = "queued"] /\ state' = [state EXCEPT ![r] = LOADING]
      \/ /\ pc' = [pc EXCEPT ![t] = "loading"] /\ state'[r] = LOADING
         /\ \E dropped \in SUBSET Range(loaded_resources) :
              /\ r \notin dropped
              /\ \A x \in dropped : used_count[x] = 0 /\ state'[x] = NOT_LOADED
              /\ \A x \in Resources \ dropped : x # r => state'[x] = state[x]
  <2>1. Shape' /\ IInv
    BY <1>1
  <2> QED
    BY <1>1, <2>1, Admission
<1>5. CASE pc' = [pc EXCEPT ![t] = "queued"] /\ state' = [state EXCEPT ![r] = LOADING]
  <2>1. pc'[t] = "queued" /\ \A u \in Threads \ {t} : pc'[u] = pc[u]
    BY <1>2, <1>5
  <2>2. \A x \in Resources : LoadingIn(x)' <=> LoadingIn(x)
    BY <1>1, <2>1 DEF LoadingIn
  <2>3. \A x \in Resources : state'[x] = LOADED <=> state[x] = LOADED
    BY <1>2, <1>3, <1>5 DEF LOADING, LOADED
  <2> QED
    BY <1>1, <2>2, <2>3, NothingSeen
<1>6. ASSUME pc' = [pc EXCEPT ![t] = "loading"], state'[r] = LOADING,
             NEW dropped \in SUBSET Range(loaded_resources), r \notin dropped,
             \A x \in dropped : used_count[x] = 0 /\ state'[x] = NOT_LOADED,
             \A x \in Resources \ dropped : x # r => state'[x] = state[x]
      PROVE  PoolStep
  <2>1. pc'[t] = "loading" /\ \A u \in Threads \ {t} : pc'[u] = pc[u]
    BY <1>2, <1>6
  <2>2. \A x \in Resources : LoadingIn(x)' <=> LoadingIn(x) \/ x = r
    BY <1>1, <2>1 DEF LoadingIn
  <2>3. dropped \subseteq Resources
    BY <1>1, SlotsFinite
  <2>4. \A x \in dropped : state[x] = LOADED /\ \A u \in Threads : x \notin holds[u]
    <3> TAKE x \in dropped
    <3>1. Users(x) = {} /\ x \in Resources /\ x \in Range(loaded_resources)
      BY <1>6, <2>3, NoUsers DEF IInv, UsersInv
    <3> QED
      BY <1>1, <3>1 DEF IInv, Slots, Users, Calling
  <2>5. PoolStatus[r] = "absent"
    BY <1>3 DEF Seen
  <2>6. PoolStatus' = [x \in Resources |-> CASE x = r -> "loading"
                                             [] x \in dropped -> "absent"
                                             [] OTHER -> PoolStatus[x]]
    <3>1. ASSUME NEW x \in Resources
          PROVE  PoolStatus'[x] = CASE x = r -> "loading" [] x \in dropped -> "absent" [] OTHER -> PoolStatus[x]
      <4>1. CASE x = r
        BY <1>6, <2>2, <4>1 DEF Seen, LOADING, LOADED
      <4>2. CASE x \in dropped
        BY <1>6, <2>2, <2>4, <4>2 DEF Seen, NOT_LOADED, LOADED
      <4>3. CASE x # r /\ x \notin dropped
        BY <1>6, <2>2, <4>3 DEF Seen
      <4> QED
        BY <4>1, <4>2, <4>3
    <3> QED
      BY <3>1 DEF Seen
  <2>7. dropped \in SUBSET {x \in Resources : Pool!Free(x)}
    BY <2>3, <2>4 DEF Pool!Free, Seen, PoolHolders
  <2>8. Cardinality(Pool!InMemory(PoolStatus)') <= concurrent_limit
    <3>1. (IInv /\ Seen)' => (Cardinality(Pool!InMemory(PoolStatus)) <= concurrent_limit)'
      BY MemoryBounded, PTL
    <3> QED
      BY <3>1
  <2>9. PoolHolders' = PoolHolders
    BY <1>1 DEF PoolHolders
  <2>10. Pool!Begin(r)
    BY <1>1, <2>5, <2>6, <2>7, <2>8, <2>9, SameCardinality DEF Pool!Begin
  <2> QED
    BY <2>10 DEF PoolStep, Pool!Next
<1> QED
  BY <1>4, <1>5, <1>6

LEMMA TakeStep ==
  ASSUME IInv, Seen, Seen', NEW t \in Threads, NEW r \in Resources, state[r] = LOADED, Own(t, r),
         ~destroyed, destroyed' = destroyed, state' = state, \A x \in Resources : LoadingIn(x)' <=> LoadingIn(x)
  PROVE  PoolStep
<1>1. PoolStatus' = PoolStatus /\ PoolStatus[r] = "ready"
  BY DEF Seen
<1>2. holds \in [Threads -> SUBSET Resources]
  BY DEF IInv, UsersInv, Shape
<1>3. PoolHolders' = [PoolHolders EXCEPT ![r] = @ \cup {t}]
  BY <1>2 DEF PoolHolders, Own
<1>4. Pool!Take(t, r)
  BY <1>1, <1>3 DEF Pool!Take
<1> QED
  BY <1>4 DEF PoolStep, Pool!Next

LEMMA LoadedStep ==
  ASSUME IInv, Seen, Seen', NEW t \in Threads, Loaded(t)
  PROVE  PoolStep
<1> DEFINE r == arg[t]
<1>1. /\ pc[t] = "loading" /\ pc' = [pc EXCEPT ![t] = "notify"] /\ arg' = arg /\ destroyed' = destroyed
      /\ \/ state' = [state EXCEPT ![r] = LOADED] /\ Own(t, r)
         \/ state' = [state EXCEPT ![r] = NOT_LOADED] /\ holds' = holds
  BY DEF Loaded, Failed, Goto
<1>2. /\ pc \in [Threads -> {"idle", "queued", "joined", "loading", "notify"}]
      /\ state \in [Resources -> {NOT_LOADED, LOADING, LOADED}] /\ arg \in [Threads -> Resources]
      /\ holds \in [Threads -> SUBSET Resources] /\ r \in Resources
  BY DEF IInv, UsersInv, Shape
<1>3. ~destroyed
  BY <1>1 DEF IInv, Slots, NoCalls
<1>4. \A u \in Threads \ {t} : pc[u] = "loading" => arg[u] # r
  BY <1>1 DEF IInv, UsersInv, Roles, Bringing
<1>5. LoadingIn(r) /\ state[r] # LOADED
  BY <1>1 DEF LoadingIn, IInv, UsersInv, Roles, Bringing, LOADING, LOADED
<1>6. \A x \in Resources : LoadingIn(x)' <=> LoadingIn(x) /\ x # r
  BY <1>1, <1>2, <1>4 DEF LoadingIn
<1>7. PoolStatus[r] = "loading"
  BY <1>2, <1>5 DEF Seen
<1> HIDE DEF r
<1>8. CASE state' = [state EXCEPT ![r] = LOADED] /\ Own(t, r)
  <2>1. PoolStatus' = [PoolStatus EXCEPT ![r] = "ready"]
    BY <1>2, <1>6, <1>8 DEF Seen
  <2>2. PoolHolders' = [PoolHolders EXCEPT ![r] = @ \cup {t}]
    BY <1>2, <1>8 DEF PoolHolders, Own
  <2>3. Pool!End(t, r)
    BY <1>1, <1>3, <1>7, <2>1, <2>2 DEF Pool!End
  <2> QED
    BY <1>2, <2>3 DEF PoolStep, Pool!Next
<1>9. CASE state' = [state EXCEPT ![r] = NOT_LOADED] /\ holds' = holds
  <2> DEFINE absent == [PoolStatus EXCEPT ![r] = "absent"]
  <2>a. state'[r] # LOADED /\ \A x \in Resources \ {r} : state'[x] = state[x]
    BY <1>2, <1>9 DEF NOT_LOADED, LOADED
  <2>b. ASSUME NEW x \in Resources PROVE PoolStatus'[x] = absent[x]
    <3>1. CASE x = r
      BY <1>2, <1>6, <2>a, <3>1 DEF Seen
    <3>2. CASE x # r
      BY <1>2, <1>6, <2>a, <3>2 DEF Seen
    <3> QED
      BY <3>1, <3>2
  <2>1. PoolStatus' = absent
    BY <2>b DEF Seen
  <2>2. PoolHolders' = PoolHolders
    BY <1>9 DEF PoolHolders
  <2>3. Pool!End(t, r)
    BY <1>1, <1>3, <1>7, <2>1, <2>2 DEF Pool!End
  <2> QED
    BY <1>2, <2>3 DEF PoolStep, Pool!Next
<1> QED
  BY <1>1, <1>8, <1>9

LEMMA ReleaseStep ==
  ASSUME IInv, Seen, Seen', NEW t \in Threads, NEW r \in Resources, release(t, r)
  PROVE  PoolStep
<1>1. /\ pc[t] = "idle" /\ ~destroyed /\ destroyed' = destroyed /\ r \in holds[t]
      /\ holds' = [holds EXCEPT ![t] = @ \ {r}] /\ state' = state /\ arg' = arg
      /\ pc' = pc \/ \E l \in {"notify", "idle"} : pc' = [pc EXCEPT ![t] = l]
  BY DEF release, Goto
<1>2. /\ pc \in [Threads -> {"idle", "queued", "joined", "loading", "notify"}]
      /\ holds \in [Threads -> SUBSET Resources]
  BY DEF IInv, UsersInv, Shape
<1>3. \A x \in Resources : LoadingIn(x)' <=> LoadingIn(x)
  BY <1>1, <1>2 DEF LoadingIn
<1>4. PoolStatus' = PoolStatus
  BY <1>1, <1>3 DEF Seen
<1>5. PoolHolders' = [PoolHolders EXCEPT ![r] = @ \ {t}] /\ t \in PoolHolders[r]
  <2> DEFINE returned == [PoolHolders EXCEPT ![r] = @ \ {t}]
  <2>1. holds'[t] = holds[t] \ {r} /\ \A u \in Threads \ {t} : holds'[u] = holds[u]
    BY <1>1, <1>2
  <2>2. ASSUME NEW x \in Resources PROVE PoolHolders'[x] = returned[x]
    <3>1. PoolHolders'[x] = IF x = r THEN PoolHolders[x] \ {t} ELSE PoolHolders[x]
      BY <2>1 DEF PoolHolders
    <3> QED
      BY <3>1 DEF PoolHolders
  <2>3. PoolHolders' = returned
    BY <2>2 DEF PoolHolders
  <2>4. t \in PoolHolders[r]
    BY <1>1 DEF PoolHolders
  <2> QED
    BY <2>3, <2>4
<1>6. Pool!Return(t, r)
  BY <1>1, <1>4, <1>5 DEF Pool!Return
<1> QED
  BY <1>6 DEF PoolStep, Pool!Next

LEMMA DestroyStep ==
  ASSUME IInv, Seen, Seen', Destroy
  PROVE  PoolStep
<1>1. /\ NoCalls /\ ~destroyed /\ destroyed' /\ UNCHANGED <<pc, arg, holds>>
      /\ \A x \in Resources : state'[x] = IF x \in Range(loaded_resources) /\ used_count[x] = 0 /\ state[x] = LOADED
                                         THEN NOT_LOADED ELSE state[x]
  BY DEF Destroy
<1>2. \A x \in Resources : ~LoadingIn(x) /\ ~LoadingIn(x)'
  BY <1>1 DEF LoadingIn, NoCalls
<1>3. \A x \in Resources : state[x] = LOADED => x \in Range(loaded_resources)
  BY DEF IInv, Slots
<1>4. \A x \in Resources : used_count[x] = 0 <=> PoolHolders[x] = {}
  <2> TAKE x \in Resources
  <2>1. Users(x) = PoolHolders[x]
    BY <1>1 DEF Users, Calling, NoCalls, PoolHolders
  <2> QED
    BY <2>1, NoUsers DEF IInv, UsersInv
<1>5. PoolStatus' = [x \in Resources |-> IF Pool!Free(x) THEN "absent" ELSE PoolStatus[x]]
  BY <1>1, <1>2, <1>3, <1>4 DEF Seen, Pool!Free, NOT_LOADED, LOADED
<1>6. PoolHolders' = PoolHolders
  BY <1>1 DEF PoolHolders
<1>7. Pool!Close
  BY <1>1, <1>5, <1>6 DEF Pool!Close
<1> QED
  BY <1>7 DEF PoolStep, Pool!Next

LEMMA Simulation ==
  ASSUME IInv, QueueInv, IInv', Seen, Seen', [Next]_vars
  PROVE  PoolStep
<1>1. /\ Shape /\ Shape' /\ UsersInv
  BY DEF IInv, UsersInv
<1>2. /\ pc \in [Threads -> {"idle", "queued", "joined", "loading", "notify"}]
      /\ arg \in [Threads -> Resources]
  BY <1>1 DEF Shape
<1>3. ASSUME NEW t \in Threads, NEW r \in Resources, LoadFirst(t, r) PROVE PoolStep
  <2>1. Asking(t, r, Append(queued_resources, r))
    BY <1>3, FirstAsks
  <2>2. Users(r) = {}
    BY <1>1, <1>3, NoUsers DEF LoadFirst, UsersInv
  <2> QED
    BY <2>1, <2>2, AskingStep
<1>4. ASSUME NEW t \in Threads, ResumeQueued(t) PROVE PoolStep
  <2>1. Asking(t, arg[t], queued_resources) /\ arg[t] \in Resources /\ pc[t] = "queued"
    BY <1>4, QueuedAsks
  <2> QED
    BY <2>1, AskingStep
<1>5. ASSUME NEW t \in Threads, NEW r \in Resources, LoadUnused(t, r) \/ LoadShared(t, r) \/ LoadUnknown(t, r)
      PROVE  PoolStep
  <2>1. /\ pc[t] = "idle" /\ ~destroyed /\ destroyed' = destroyed /\ state' = state
        /\ arg' = [arg EXCEPT ![t] = r] /\ (pc' = pc \/ pc' = [pc EXCEPT ![t] = "joined"])
        /\ holds' = holds \/ (Own(t, r) /\ state[r] = LOADED)
    BY <1>5 DEF LoadUnused, LoadShared, LoadUnknown, Call, Goto
  <2>a. \A u \in Threads : (pc'[u] = "loading" <=> pc[u] = "loading") /\ (pc[u] = "loading" => arg'[u] = arg[u])
    BY <1>2, <2>1
  <2>2. \A x \in Resources : LoadingIn(x)' <=> LoadingIn(x)
    BY <2>a DEF LoadingIn
  <2>3. CASE holds' = holds
    BY <2>1, <2>2, <2>3, NothingSeen
  <2>4. CASE Own(t, r) /\ state[r] = LOADED
    BY <2>1, <2>2, <2>4, TakeStep
  <2> QED
    BY <2>1, <2>3, <2>4
<1>6. ASSUME NEW t \in Threads, ResumeJoined(t) PROVE PoolStep
  <2>1. /\ pc[t] = "joined" /\ arg[t] \in Resources /\ destroyed' = destroyed /\ state' = state /\ arg' = arg
        /\ pc' = pc \/ pc' = [pc EXCEPT ![t] = "idle"]
        /\ holds' = holds \/ (Own(t, arg[t]) /\ state[arg[t]] = LOADED)
    BY <1>2, <1>6 DEF ResumeJoined, Goto
  <2>2. \A x \in Resources : LoadingIn(x)' <=> LoadingIn(x)
    BY <1>2, <2>1 DEF LoadingIn
  <2>3. ~destroyed
    BY <2>1 DEF IInv, Slots, NoCalls
  <2>4. CASE holds' = holds
    BY <2>1, <2>2, <2>4, NothingSeen
  <2>5. CASE Own(t, arg[t]) /\ state[arg[t]] = LOADED
    BY <2>1, <2>2, <2>3, <2>5, TakeStep
  <2> QED
    BY <2>1, <2>4, <2>5
<1>7. ASSUME NEW t \in Threads, Notify(t) \/ SpuriousWakeup(t) PROVE PoolStep
  <2>1. /\ UNCHANGED <<state, holds, destroyed, arg>>
        /\ pc' = pc \/ (pc[t] = "notify" /\ pc' = [pc EXCEPT ![t] = "idle"])
    BY <1>7 DEF Notify, SpuriousWakeup, Goto
  <2>2. \A x \in Resources : LoadingIn(x)' <=> LoadingIn(x)
    BY <1>2, <2>1 DEF LoadingIn
  <2> QED
    BY <2>1, <2>2, NothingSeen
<1>8. CASE (\E r \in Resources : Add(r)) \/ UNCHANGED vars
  <2>1. UNCHANGED <<state, holds, destroyed, arg, pc>>
    BY <1>8 DEF Add, vars
  <2> QED
    BY <2>1, NothingSeen DEF LoadingIn
<1> QED
  BY <1>3, <1>4, <1>5, <1>6, <1>7, <1>8, LoadedStep, ReleaseStep, DestroyStep DEF Next, Load, Continue

\* The loader implements the pool: what its clients can tell of it, whatever waits, fails, is
\* evicted or wakes up, are the steps of ResourcePool, with no more resources than the limit.
THEOREM PoolImplemented == Spec => ImplementsPool
<1>1. Init => Pool!Init
  BY DEF Init, Pool!Init, PoolStatus, PoolHolders, NOT_LOADED, LOADING, LOADED
<1>2. IInv /\ QueueInv /\ (IInv /\ QueueInv)' /\ [Next]_vars => [Pool!Next]_Pool!pvars
  <2>1. IInv /\ QueueInv => Seen
    BY SeenAs
  <2>2. (IInv /\ QueueInv)' => Seen'
    BY <2>1, PTL
  <2> QED
    BY <2>1, <2>2, Simulation DEF PoolStep, Stutters
<1> QED
  BY <1>1, <1>2, PoolInvariance, PTL DEF Spec, ImplementsPool, Pool!Spec
=============================================================================
