---------------------------- MODULE DeadlockWalk ----------------------------
(* deadlock_scan, deadlock_clear and deadlock_walk of lock/lock.cpp: a       *)
(* depth-first walk through the wait-for graph of the pending requests, with *)
(* the two marks LRQ_deadlock (on the way) and LRQ_scanned (done with).      *)
(* Which requests hold a request up is the matter of module LockManager      *)
(* (WaitsFor); here the graph is arbitrary.                                  *)
EXTENDS Naturals, Sequences, FiniteSets

CONSTANTS
  Requests,      \* the pending requests
  Stale,         \* the requests that may have marks of earlier scans
  MayAct,        \* the requests that may be held up by an owner that can still act
  None           \* NULL

ASSUME WalkAssumption ==
  None \notin Requests /\ Stale \subseteq Requests /\ MayAct \subseteq Requests

VARIABLES
  request,       \* the request that the scan is for
  waits,         \* waits[r]: the pending requests of the owners that hold r up
  undecided,     \* requests held up by an owner that may still act on a notice
  path,          \* the requests of the active calls of deadlock_walk, innermost last
  todo,          \* todo[r]: the part of the queue of r's lock not yet looked at
  LRQ_deadlock, LRQ_scanned,    \* the requests with these flags
  victim, maybe_deadlock,
  pc             \* "start", "walk" or "done"

graph == <<waits, undecided>>
vars == <<request, graph, path, todo, LRQ_deadlock, LRQ_scanned, victim, maybe_deadlock, pc>>

\* Any graph and any marks left by earlier scans.
Init ==
  /\ waits \in [Requests -> SUBSET Requests]
  /\ undecided \in SUBSET MayAct
  /\ request = None
  /\ path = <<>>
  /\ todo = [r \in Requests |-> {}]
  /\ LRQ_deadlock \in SUBSET Stale
  /\ LRQ_scanned \in SUBSET Stale
  /\ victim = None
  /\ maybe_deadlock = FALSE
  /\ pc = "start"

Top == path[Len(path)]

\* The blocks in the queue of r's lock: the pending requests of the owners that
\* hold it up, and an entry for those that may still act.
Blocks(r) == waits[r] \cup (IF r \in undecided THEN {None} ELSE {})

\* Mutant: deadlock_clear leaves LRQ_scanned as it is.
deadlock_scan_scanned(r) ==
  /\ pc = "start"
  /\ request' = r
  /\ LRQ_deadlock' = {r}
  /\ path' = <<r>>
  /\ todo' = [todo EXCEPT ![r] = Blocks(r)]
  /\ pc' = "walk"
  /\ UNCHANGED <<graph, LRQ_scanned, victim, maybe_deadlock>>

\* Mutant: deadlock_clear leaves LRQ_deadlock as it is.
deadlock_scan_marked(r) ==
  /\ pc = "start"
  /\ request' = r
  /\ LRQ_deadlock' = LRQ_deadlock \cup {r}
  /\ LRQ_scanned' = {}
  /\ path' = <<r>>
  /\ todo' = [todo EXCEPT ![r] = Blocks(r)]
  /\ pc' = "walk"
  /\ UNCHANGED <<graph, victim, maybe_deadlock>>

\* deadlock_scan: the marks of all pending requests are cleared and deadlock_walk
\* is called for request r.
deadlock_scan(r) ==
  /\ pc = "start"
  /\ request' = r
  /\ LRQ_deadlock' = {r}
  /\ LRQ_scanned' = {}
  /\ path' = <<r>>
  /\ todo' = [todo EXCEPT ![r] = Blocks(r)]
  /\ pc' = "walk"
  /\ UNCHANGED <<graph, victim, maybe_deadlock>>

\* The next block is an owner that may still act: remember it and go on.
\* Mutant: the loop does not go on.
maybe_stays ==
  /\ pc = "walk"
  /\ None \in todo[Top]
  /\ maybe_deadlock' = TRUE
  /\ UNCHANGED <<request, graph, path, todo, LRQ_deadlock, LRQ_scanned, victim, pc>>

maybe ==
  /\ pc = "walk"
  /\ None \in todo[Top]
  /\ maybe_deadlock' = TRUE
  /\ todo' = [todo EXCEPT ![Top] = @ \ {None}]
  /\ UNCHANGED <<request, graph, path, LRQ_deadlock, LRQ_scanned, victim, pc>>

\* The next target was scanned before.
skip(q) ==
  /\ pc = "walk"
  /\ q \in todo[Top] /\ q \in LRQ_scanned
  /\ todo' = [todo EXCEPT ![Top] = @ \ {q}]
  /\ UNCHANGED <<request, graph, path, LRQ_deadlock, LRQ_scanned, victim, maybe_deadlock, pc>>

\* The next target is on the way already: a cycle.  All calls return it.
found(q) ==
  /\ pc = "walk"
  /\ q \in todo[Top] /\ q \notin LRQ_scanned /\ q \in LRQ_deadlock
  /\ victim' = q
  /\ pc' = "done"
  /\ UNCHANGED <<request, graph, path, todo, LRQ_deadlock, LRQ_scanned, maybe_deadlock>>

\* The next target is new: deadlock_walk calls itself.
descend(q) ==
  /\ pc = "walk"
  /\ q \in todo[Top] \ {None} /\ q \notin LRQ_scanned /\ q \notin LRQ_deadlock
  /\ LRQ_deadlock' = LRQ_deadlock \cup {q}
  /\ path' = Append(path, q)
  /\ todo' = [todo EXCEPT ![Top] = @ \ {q}, ![q] = Blocks(q)]
  /\ UNCHANGED <<request, graph, LRQ_scanned, victim, maybe_deadlock, pc>>

\* This branch is exhausted: the call returns NULL.
exhausted ==
  /\ pc = "walk"
  /\ todo[Top] = {}
  /\ LRQ_deadlock' = LRQ_deadlock \ {Top}
  /\ LRQ_scanned' = LRQ_scanned \cup {Top}
  /\ path' = SubSeq(path, 1, Len(path) - 1)
  /\ pc' = IF Len(path) = 1 THEN "done" ELSE "walk"
  /\ UNCHANGED <<request, graph, todo, victim, maybe_deadlock>>

Walk == maybe \/ exhausted \/ \E q \in Requests : skip(q) \/ found(q) \/ descend(q)

Next == (\E r \in Requests : deadlock_scan(r)) \/ Walk

Spec == Init /\ [][Next]_vars /\ WF_vars(Walk)
-----------------------------------------------------------------------------
(* Properties.                                                               *)

\* Every variable has its type.
TypeOK ==
  /\ request \in Requests \cup {None}
  /\ waits \in [Requests -> SUBSET Requests]
  /\ undecided \subseteq Requests
  /\ path \in Seq(Requests)
  /\ todo \in [Requests -> SUBSET (Requests \cup {None})]
  /\ LRQ_deadlock \subseteq Requests
  /\ LRQ_scanned \subseteq Requests
  /\ victim \in Requests \cup {None}
  /\ maybe_deadlock \in BOOLEAN
  /\ pc \in {"start", "walk", "done"}

\* C is a deadlock: every request of C waits for one of C.
Deadlock(C) == C # {} /\ \A c \in C : waits[c] \cap C # {}

\* A victim is part of a deadlock: nobody is rejected in vain, whatever marks
\* earlier scans left and in whatever order the queues are looked at.
VictimDeadlocked ==
  victim # None => \E C \in SUBSET Requests : victim \in C /\ Deadlock(C)

\* When the walk finds nothing, it has seen all that the request waits for,
\* directly or not, and there is no deadlock among it: deadlock_scan may mark
\* the owner as scanned.  Only an owner that may still act, which it then
\* reports, makes that uncertain.
NothingMissed ==
  pc = "done" /\ victim = None =>
    /\ request \in LRQ_scanned
    /\ \A r \in LRQ_scanned : waits[r] \subseteq LRQ_scanned
    /\ \A C \in SUBSET LRQ_scanned : ~Deadlock(C)
    /\ maybe_deadlock <=> undecided \cap LRQ_scanned # {}

\* The walk ends, cycles or not: no request is visited twice.
WalkEnds == pc = "walk" ~> pc = "done"
=============================================================================
