--------------------------- MODULE ResourceLoader ---------------------------
(***************************************************************************)
(* utils/threadsafe_resource_loader.h: threads load and release shared     *)
(* resources, at most concurrent_limit of which are kept in memory.  Every *)
(* step is one section under resource_mutex, except Notify (notify_all     *)
(* after the unlock); resource->load() runs between two sections.          *)
(***************************************************************************)
EXTENDS Integers, FiniteSets, Sequences, SequencesExt

CONSTANTS Threads, Resources, concurrent_limit,
          MaxHeld   \* how many resources each client thread holds at a time

ASSUME LimitAssumption == concurrent_limit \in Nat
ASSUME FiniteAssumption == IsFiniteSet(Threads) /\ IsFiniteSet(Resources)

VARIABLES
  resources,         \* the resources add() has registered
  used_count, state, \* per resource
  loaded_resources,  \* in memory, least recently used first
  used_resources,    \* how many of these are in use
  queued_resources,  \* waiting for room, in order of arrival
  asleep,            \* threads blocked in resource_cv.wait
  pc, arg,           \* where each thread is, and the resource of its call
  holds,             \* per thread: the resources it was given and still holds
  destroyed          \* the destructor has run

vars == <<resources, used_count, state, loaded_resources, used_resources,
          queued_resources, asleep, pc, arg, holds, destroyed>>

NOT_LOADED == "NOT_LOADED"
LOADING == "LOADING"
LOADED == "LOADED"

Init ==
  /\ resources = {}
  /\ used_count = [r \in Resources |-> 0]
  /\ state = [r \in Resources |-> NOT_LOADED]
  /\ loaded_resources = <<>>
  /\ used_resources = 0
  /\ queued_resources = <<>>
  /\ asleep = {}
  /\ pc = [t \in Threads |-> "idle"]
  /\ arg \in [Threads -> Resources]   \* not read before a call sets it
  /\ holds = [t \in Threads |-> {}]
  /\ destroyed = FALSE

NoCalls == \A t \in Threads : pc[t] = "idle"

\* add takes no lock: the client registers resources while no call is active.
Add(r) ==
  /\ NoCalls /\ ~destroyed
  /\ r \notin resources
  /\ resources' = resources \cup {r}
  /\ UNCHANGED <<used_count, state, loaded_resources, used_resources,
                 queued_resources, asleep, pc, arg, holds, destroyed>>
-----------------------------------------------------------------------------
Goto(t, label) == pc' = [pc EXCEPT ![t] = label]
Own(t, r) == holds' = [holds EXCEPT ![t] = @ \cup {r}]
Without(s, r) ==   \* erase(remove(...)) on a sequence that has no duplicates
  IF \E i \in DOMAIN s : s[i] = r THEN RemoveAt(s, CHOOSE i \in DOMAIN s : s[i] = r) ELSE s
MoveToEnd(r) == loaded_resources' = Append(Without(loaded_resources, r), r)

\* Mutants: the limit or the order of arrival forgotten, a used resource evicted.
OverLimit(r, queue) == Head(queue) = r
OutOfOrder(r, queue) == used_resources < concurrent_limit
InMemory == DOMAIN loaded_resources

\* The condition `while (used_resources >= concurrent_limit || front() != id)' waits for.
Admitted(r, queue) == used_resources < concurrent_limit /\ Head(queue) = r

\* The positions of loaded resources with no user, the caller's own use already counted.
Evictable == {i \in DOMAIN loaded_resources : used_count'[loaded_resources[i]] = 0}

Sleep(t, r, queue) ==
  /\ queued_resources' = queue
  /\ state' = [state EXCEPT ![r] = LOADING]
  /\ asleep' = asleep \cup {t}
  /\ Goto(t, "queued")
  /\ UNCHANGED <<loaded_resources, used_resources>>

\* The head of the queue takes a slot, evicting the first unused resource when all are taken.
Admit(t, r, queue) ==
  /\ queued_resources' = Tail(queue)
  /\ used_resources' = used_resources + 1
  /\ asleep' = asleep \ {t}
  /\ Goto(t, "loading")
  /\ IF Len(loaded_resources) = concurrent_limit /\ Evictable # {}
     THEN \E i \in Evictable :
            /\ \A j \in Evictable : i <= j
            /\ loaded_resources' = Append(RemoveAt(loaded_resources, i), r)
            /\ state' = [state EXCEPT ![r] = LOADING, ![loaded_resources[i]] = NOT_LOADED]
     ELSE /\ loaded_resources' = Append(loaded_resources, r)
          /\ state' = [state EXCEPT ![r] = LOADING]

AdmitOrSleep(t, r, queue) ==
  IF Admitted(r, queue) THEN Admit(t, r, queue) ELSE Sleep(t, r, queue)

\* A client thread calls load(r); what follows is its first section.
Call(t, r) ==
  /\ pc[t] = "idle" /\ ~destroyed
  /\ Cardinality(holds[t]) < MaxHeld[t] /\ r \notin holds[t]
  /\ arg' = [arg EXCEPT ![t] = r]
  /\ UNCHANGED <<resources, destroyed>>

Count(r) == used_count' = [used_count EXCEPT ![r] = @ + 1]
Uncount(r) == used_count' = [used_count EXCEPT ![r] = @ - 1]

\* First user of a loaded resource: it is given out at once.
LoadUnused(t, r) ==
  /\ Call(t, r)
  /\ r \in resources /\ used_count[r] = 0 /\ state[r] = LOADED
  /\ Count(r) /\ MoveToEnd(r) /\ Own(t, r)
  /\ used_resources' = used_resources + 1
  /\ UNCHANGED <<state, queued_resources, asleep, pc>>

\* First user of a resource not loaded: it queues to load it.
LoadFirst(t, r) ==
  /\ Call(t, r)
  /\ r \in resources /\ used_count[r] = 0 /\ state[r] # LOADED
  /\ Count(r)
  /\ AdmitOrSleep(t, r, Append(queued_resources, r))
  /\ UNCHANGED holds

\* Another user: it waits while the resource is loading.
LoadShared(t, r) ==
  /\ Call(t, r)
  /\ r \in resources /\ used_count[r] > 0
  /\ \/ /\ state[r] = LOADING
        /\ Count(r)
        /\ asleep' = asleep \cup {t} /\ Goto(t, "joined")
        /\ UNCHANGED <<loaded_resources, holds>>
     \/ /\ state[r] = LOADED
        /\ Count(r) /\ MoveToEnd(r) /\ Own(t, r)
        /\ UNCHANGED <<asleep, pc>>
     \/ /\ state[r] = NOT_LOADED   \* a failed load some waiters have yet to see: nullptr
        /\ UNCHANGED <<used_count, loaded_resources, holds, asleep, pc>>
  /\ UNCHANGED <<state, used_resources, queued_resources>>

\* An id add() never returned: nullptr.
LoadUnknown(t, r) ==
  /\ Call(t, r)
  /\ r \notin resources
  /\ UNCHANGED <<used_count, state, loaded_resources, used_resources,
                 queued_resources, asleep, pc, holds>>

\* A thread waiting for its turn to load has woken and holds the mutex again.
ResumeQueued(t) ==
  /\ pc[t] = "queued" /\ t \notin asleep
  /\ UNCHANGED <<resources, used_count, arg, holds, destroyed>>
  /\ AdmitOrSleep(t, arg[t], queued_resources)

\* A thread waiting for somebody else's load has woken.
ResumeJoined(t) ==
  /\ pc[t] = "joined" /\ t \notin asleep
  /\ \/ /\ state[arg[t]] = LOADING
        /\ asleep' = asleep \cup {t}
        /\ UNCHANGED <<used_count, loaded_resources, holds, pc>>
     \/ /\ state[arg[t]] = LOADED
        /\ MoveToEnd(arg[t]) /\ Own(t, arg[t]) /\ Goto(t, "idle")
        /\ UNCHANGED <<used_count, asleep>>
     \/ /\ state[arg[t]] = NOT_LOADED
        /\ Uncount(arg[t]) /\ Goto(t, "idle")
        /\ UNCHANGED <<loaded_resources, holds, asleep>>
  /\ UNCHANGED <<resources, state, used_resources, queued_resources, arg, destroyed>>

\* Mutant: a load that fails keeps its slot.
FailureKeepsSlot(r) ==
  /\ state' = [state EXCEPT ![r] = NOT_LOADED] /\ Uncount(r)
  /\ loaded_resources' = Without(loaded_resources, r)
  /\ UNCHANGED used_resources

Failed(r) ==
  /\ state' = [state EXCEPT ![r] = NOT_LOADED] /\ Uncount(r)
  /\ used_resources' = used_resources - 1
  /\ loaded_resources' = Without(loaded_resources, r)

\* resource->load() has returned: the section after it.
Loaded(t) ==
  /\ pc[t] = "loading"
  /\ Goto(t, "notify")
  /\ \/ /\ state' = [state EXCEPT ![arg[t]] = LOADED]
        /\ Own(t, arg[t])
        /\ UNCHANGED <<used_count, used_resources, loaded_resources>>
     \/ Failed(arg[t]) /\ UNCHANGED holds
  /\ UNCHANGED <<resources, queued_resources, asleep, arg, destroyed>>

\* Mutant: notify_one.
NotifyOne(t) ==
  /\ pc[t] = "notify"
  /\ IF asleep = {} THEN asleep' = {} ELSE \E u \in asleep : asleep' = asleep \ {u}
  /\ Goto(t, "idle")
  /\ UNCHANGED <<resources, used_count, state, loaded_resources, used_resources,
                 queued_resources, arg, holds, destroyed>>

\* resource_cv.notify_all() after the unlock; the call of load or release returns.
Notify(t) ==
  /\ pc[t] = "notify"
  /\ asleep' = {}
  /\ Goto(t, "idle")
  /\ UNCHANGED <<resources, used_count, state, loaded_resources, used_resources,
                 queued_resources, arg, holds, destroyed>>

\* Mutant: the count is compared after the decrement.
SlotsUsedAfter == used_resources - 1 = concurrent_limit

\* release notifies only when it frees a slot while all of them were used.
AllSlotsUsed == used_resources = concurrent_limit

release(t, r) ==
  /\ pc[t] = "idle" /\ ~destroyed
  /\ r \in holds[t]
  /\ holds' = [holds EXCEPT ![t] = @ \ {r}]
  /\ Uncount(r)
  /\ IF used_count[r] = 1
     THEN /\ used_resources' = used_resources - 1
          /\ Goto(t, IF AllSlotsUsed THEN "notify" ELSE "idle")
     ELSE UNCHANGED <<used_resources, pc>>
  /\ UNCHANGED <<resources, state, loaded_resources, queued_resources, asleep, arg, destroyed>>

\* The standard lets a thread leave wait without a notification.
SpuriousWakeup(t) ==
  /\ t \in asleep
  /\ asleep' = asleep \ {t}
  /\ UNCHANGED <<resources, used_count, state, loaded_resources, used_resources,
                 queued_resources, pc, arg, holds, destroyed>>

\* The destructor unloads what is loaded and unused; no call may be active.
Destroy ==
  /\ NoCalls /\ ~destroyed
  /\ destroyed' = TRUE
  /\ state' = [r \in Resources |->
                 IF r \in Range(loaded_resources) /\ used_count[r] = 0 /\ state[r] = LOADED
                 THEN NOT_LOADED ELSE state[r]]
  /\ UNCHANGED <<resources, used_count, loaded_resources, used_resources,
                 queued_resources, asleep, pc, arg, holds>>

Load(t, r) == LoadUnused(t, r) \/ LoadFirst(t, r) \/ LoadShared(t, r) \/ LoadUnknown(t, r)
Continue(t) == ResumeQueued(t) \/ ResumeJoined(t) \/ Loaded(t) \/ Notify(t)

Next ==
  \/ \E t \in Threads : Continue(t) \/ SpuriousWakeup(t)
  \/ \E t \in Threads, r \in Resources : Load(t, r) \/ release(t, r)
  \/ \E r \in Resources : Add(r)
  \/ Destroy

Spec == Init /\ [][Next]_vars

\* A started call goes on, resource->load() returns, and what is held is released;
\* nobody has to call load, and no thread is favoured when several want the mutex.
Fairness ==
  /\ \A t \in Threads : WF_vars(Continue(t))
  /\ \A t \in Threads : WF_vars(\E r \in Resources : release(t, r))

FairSpec == Spec /\ Fairness
-----------------------------------------------------------------------------
TypeOK ==
  /\ resources \in SUBSET Resources
  /\ used_count \in [Resources -> Nat]
  /\ state \in [Resources -> {NOT_LOADED, LOADING, LOADED}]
  /\ loaded_resources \in Seq(Resources)
  /\ used_resources \in Nat
  /\ queued_resources \in Seq(Resources)
  /\ asleep \in SUBSET Threads
  /\ pc \in [Threads -> {"idle", "queued", "joined", "loading", "notify"}]
  /\ arg \in [Threads -> Resources]
  /\ holds \in [Threads -> SUBSET Resources]
  /\ destroyed \in BOOLEAN

\* The threads used_count[r] stands for: those in a load of r that has not been answered and its holders.
Calling(t, r) == pc[t] \in {"queued", "joined", "loading"} /\ arg[t] = r
Users(r) == {t \in Threads : Calling(t, r) \/ r \in holds[t]}

\* A resource given to a client stays loaded until the client releases it, whatever
\* other threads load, release and evict meanwhile (eviction trusts used_count).
HeldIsLoaded == \A t \in Threads : \A r \in holds[t] : state[r] = LOADED

\* used_count counts each user once, through failed loads and waiters not yet woken.
UsedCountIsUsers == \A r \in Resources : used_count[r] = Cardinality(Users(r))

\* A resource is being brought in by one thread at most, and exactly when it is LOADING.
OneLoader ==
  \A r \in Resources :
    LET loaders == {t \in Threads : pc[t] \in {"queued", "loading"} /\ arg[t] = r}
    IN  Cardinality(loaders) = IF state[r] = LOADING THEN 1 ELSE 0

\* The slots: never more than the limit taken, none twice, and used_resources is
\* the number of taken slots with a user, so that a full pool has one to evict.
SlotsAccounted ==
  /\ Len(loaded_resources) <= concurrent_limit
  /\ IsInjective(loaded_resources)
  /\ used_resources = Cardinality({r \in Range(loaded_resources) : used_count[r] > 0})
  /\ \A r \in Resources : state[r] = LOADED => r \in Range(loaded_resources)

\* When the head of the queue sleeps although a slot is free, a wakeup is on its way.
NoLostWakeup ==
  \A t \in asleep :
    /\ pc[t] = "queued" /\ Admitted(arg[t], queued_resources)
    => \E u \in Threads : pc[u] \in {"loading", "notify"}

\* A call is refused without a load of its own only while a waiter of the failed load is still unanswered.
RefusalIsFresh ==
  \A r \in Resources : used_count[r] > 0 /\ state[r] = NOT_LOADED
    => \E t \in Threads : pc[t] = "joined" /\ arg[t] = r

\* Requests for room are served in order of arrival: nobody, not even a new caller that
\* finds a free slot, starts to load while an earlier request waits.
Position(r) == CHOOSE i \in DOMAIN queued_resources : queued_resources[i] = r
ServedInOrder ==
  [][\A t, u \in Threads :
       t # u /\ pc[t] = "queued" /\ pc[u] \in {"idle", "queued"} /\ pc'[u] = "loading"
       => pc[u] = "queued" /\ Position(arg[u]) < Position(arg[t])]_vars

\* Everyone who joined a load in progress gets an answer.
JoinersAnswered ==
  \A t \in Threads : (pc[t] = "joined" /\ arg[t] \notin Range(queued_resources)) ~> pc[t] = "idle"

\* When no client asks for a resource while it holds another, everyone in the queue is
\* served, unless loaded resources are asked for for ever: these calls bypass the queue.
Hit(t, r) == LoadUnused(t, r) \/ (LoadShared(t, r) /\ state[r] = LOADED)
OneAtATime == \A t \in Threads : pc[t] \in {"queued", "joined", "loading"} => holds[t] = {}
QueueDrains ==
  []OneAtATime /\ <>[][\A t \in Threads, r \in Resources : ~Hit(t, r)]_vars
    => \A t \in Threads : pc[t] = "queued" ~> pc[t] # "queued"

\* The loader implements the pool it promises; a resource whose turn has not come is absent.
PoolStatus ==
  [r \in Resources |-> CASE state[r] = LOADED -> "ready"
                         [] state[r] = LOADING /\ r \notin Range(queued_resources) -> "loading"
                         [] OTHER -> "absent"]
PoolHolders == [r \in Resources |-> {t \in Threads : r \in holds[t]}]
Pool == INSTANCE ResourcePool WITH
  limit <- concurrent_limit, status <- PoolStatus, holders <- PoolHolders, open <- ~destroyed
ImplementsPool == Pool!Spec
=============================================================================
