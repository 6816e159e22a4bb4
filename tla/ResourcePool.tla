---------------------------- MODULE ResourcePool ----------------------------
(***************************************************************************)
(* What utils/threadsafe_resource_loader.h promises to its clients, with   *)
(* neither queue, counters nor condition variable: at most `limit'         *)
(* resources are in memory, a resource is brought in by one loader at a    *)
(* time, and one that somebody holds is not unloaded.                      *)
(***************************************************************************)
EXTENDS Naturals, FiniteSets

CONSTANTS Threads, Resources, limit

VARIABLES
  status,   \* per resource: "absent", "loading" or "ready"
  holders,  \* per resource: the threads that were given it
  open      \* FALSE once the loader is destroyed

pvars == <<status, holders, open>>

InMemory(s) == {r \in Resources : s[r] # "absent"}
Free(r) == status[r] = "ready" /\ holders[r] = {}

Init ==
  /\ status = [r \in Resources |-> "absent"]
  /\ holders = [r \in Resources |-> {}]
  /\ open = TRUE

\* A load of r begins; resources nobody holds may be dropped to make room.
Begin(r) ==
  /\ open
  /\ status[r] = "absent"
  /\ \E dropped \in SUBSET {x \in Resources : Free(x)} :
       status' = [x \in Resources |-> CASE x = r -> "loading"
                                        [] x \in dropped -> "absent"
                                        [] OTHER -> status[x]]
  /\ Cardinality(InMemory(status')) <= limit
  /\ UNCHANGED <<holders, open>>

\* The load ends: the loading thread holds the resource, or it is absent.
End(t, r) ==
  /\ open
  /\ status[r] = "loading"
  /\ \/ /\ status' = [status EXCEPT ![r] = "ready"]
        /\ holders' = [holders EXCEPT ![r] = @ \cup {t}]
     \/ /\ status' = [status EXCEPT ![r] = "absent"]
        /\ UNCHANGED holders
  /\ UNCHANGED open

Take(t, r) ==
  /\ open
  /\ status[r] = "ready"
  /\ holders' = [holders EXCEPT ![r] = @ \cup {t}]
  /\ UNCHANGED <<status, open>>

Return(t, r) ==
  /\ open
  /\ t \in holders[r]
  /\ holders' = [holders EXCEPT ![r] = @ \ {t}]
  /\ UNCHANGED <<status, open>>

\* Destruction drops exactly the resources nobody holds.
Close ==
  /\ open
  /\ open' = FALSE
  /\ status' = [r \in Resources |-> IF Free(r) THEN "absent" ELSE status[r]]
  /\ UNCHANGED holders

Next ==
  \/ \E r \in Resources : Begin(r) \/ \E t \in Threads : End(t, r) \/ Take(t, r) \/ Return(t, r)
  \/ Close

Spec == Init /\ [][Next]_pvars
=============================================================================
