--------------------------- MODULE ReadWriteLock ---------------------------
(* What a SyncObject (common/classes/SyncObject.h) promises to the threads   *)
(* that use it: any number of them hold it shared, or one holds it           *)
(* exclusively.                                                              *)
CONSTANT Threads

VARIABLE held  \* held[t]: how thread t holds the lock

SyncType == {"none", "exclusive", "shared"}

Init == held = [t \in Threads |-> "none"]

Share(t) ==
  /\ held[t] = "none"
  /\ \A u \in Threads : held[u] # "exclusive"
  /\ held' = [held EXCEPT ![t] = "shared"]

Exclude(t) ==
  /\ \A u \in Threads : held[u] = "none"
  /\ held' = [held EXCEPT ![t] = "exclusive"]

Release(t) ==
  /\ held[t] # "none"
  /\ held' = [held EXCEPT ![t] = "none"]

Downgrade(t) ==
  /\ held[t] = "exclusive"
  /\ held' = [held EXCEPT ![t] = "shared"]

Next == \E t \in Threads : Share(t) \/ Exclude(t) \/ Release(t) \/ Downgrade(t)

Spec == Init /\ [][Next]_held

\* Whoever holds the lock exclusively holds it alone.
Exclusion ==
  \A t, u \in Threads : held[t] = "exclusive" /\ held[u] # "none" => t = u
=============================================================================
