-------------------------------- MODULE Srq --------------------------------
(* The self-relative queues of the lock table (insert_tail and remove_que of *)
(* lock/lock.cpp), one store at a time, and what acquire_shmem does about an *)
(* update that a process left unfinished when it died inside the table.  The *)
(* mutex is robust: the next thread gets it and finds lhb_active_owner set.  *)
EXTENDS Naturals, Sequences, SequencesExt

CONSTANTS
  Queues,        \* heads of queues
  Nodes,         \* entries
  Nil,           \* offset 0
  Mortal,        \* who may die in the table: "owner", "dummy" or both
  CrashAt,       \* the steps before which the process may die
  MaxCrashes,    \* bound on the number of deaths
  PurgeUndone    \* does the purge of a dead owner meet entries not inserted?

\* A thread works for an owner (its offset) or for nobody in particular
\* (DUMMY_OWNER).
Actors == {"owner", "dummy"}

InsertSteps == {"insert_que", "insert_prior", "node_forward", "node_backward", "prior_forward",
                "que_backward", "clear_que", "clear_prior"}
RemoveSteps == {"remove_node", "next_backward", "back_forward", "clear_node", "init_node"}
UndoSteps == {"undo_backward", "undo_forward", "undo_que", "undo_prior"}
Steps == InsertSteps \cup RemoveSteps \cup UndoSteps

ASSUME SrqAssumption ==
  /\ Queues \cap Nodes = {} /\ Nil \notin Queues \cup Nodes
  /\ Mortal \subseteq Actors
  /\ CrashAt \subseteq Steps
  /\ MaxCrashes \in Nat
  /\ PurgeUndone \in BOOLEAN

VARIABLES
  srq_forward, srq_backward,
  shb_insert_que, shb_insert_prior, shb_remove_node,   \* the secondary header
  lhb_active_owner,
  pc,            \* the next step of the thread in the table, "idle" if there is none
  que, node,     \* the parameters of the routine it is in
  content,       \* content[q]: the entries that queue q should have
  lost,          \* entries whose insertion or removal was cut short
  again,         \* those of them that the purge of the dead owner removes again
  crashes

shb == <<shb_insert_que, shb_insert_prior, shb_remove_node>>
vars == <<srq_forward, srq_backward, shb, lhb_active_owner, pc, que, node, content, lost, again, crashes>>

Cells == Queues \cup Nodes

\* All queues are empty and all entries linked to themselves (SRQ_INIT).
Init ==
  /\ srq_forward = [c \in Cells |-> c]
  /\ srq_backward = [c \in Cells |-> c]
  /\ shb_insert_que = Nil /\ shb_insert_prior = Nil /\ shb_remove_node = Nil
  /\ lhb_active_owner = "none"
  /\ pc = "idle"
  /\ que = Nil /\ node = Nil
  /\ content = [q \in Queues |-> <<>>]
  /\ lost = {}
  /\ again = {}
  /\ crashes = 0
-----------------------------------------------------------------------------
\* What acquire_shmem takes for an insertion that was under way.
InsertionUnderWay == shb_insert_que # Nil /\ shb_insert_prior # Nil

\* acquire_shmem: an owner that is still marked as active died in the table;
\* its removal is completed by remove_que, its insertion undone.
acquire_shmem(a) ==
  /\ pc = "idle"
  /\ lhb_active_owner' = a
  /\ \/ /\ lhb_active_owner = "owner" /\ shb_remove_node # Nil
        /\ node' = shb_remove_node /\ que' = Nil
        /\ pc' = "next_backward"
     \/ /\ lhb_active_owner = "owner" /\ shb_remove_node = Nil
        /\ InsertionUnderWay
        /\ pc' = "undo_backward"
        /\ UNCHANGED <<node, que>>
     \/ /\ lhb_active_owner = "owner" =>
             shb_remove_node = Nil /\ ~InsertionUnderWay
        /\ pc' = "ready"
        /\ UNCHANGED <<node, que>>
  /\ UNCHANGED <<srq_forward, srq_backward, shb, content, lost, again, crashes>>

\* LockTableGuard::setOwner: the thread has found out which owner it works for.
setOwner ==
  /\ pc = "ready" /\ lhb_active_owner = "dummy"
  /\ lhb_active_owner' = "owner"
  /\ UNCHANGED <<srq_forward, srq_backward, shb, pc, que, node, content, lost, again, crashes>>

release_shmem ==
  /\ pc = "ready"
  /\ lhb_active_owner' = "none"
  /\ pc' = "idle"
  /\ UNCHANGED <<srq_forward, srq_backward, shb, que, node, content, lost, again, crashes>>

Linked(n) == \E q \in Queues : n \in ToSet(content[q])

\* A store to one of the links, the next step and nothing else.
Store(step, forward, backward, then) ==
  /\ pc = step
  /\ srq_forward' = forward
  /\ srq_backward' = backward
  /\ pc' = then
  /\ UNCHANGED <<shb, lhb_active_owner, que, node, content, lost, again, crashes>>

\* A store to the secondary header, after which the queues count as holding c.
Note(step, insert_que, insert_prior, remove_node, c, then) ==
  /\ pc = step
  /\ shb_insert_que' = insert_que
  /\ shb_insert_prior' = insert_prior
  /\ shb_remove_node' = remove_node
  /\ content' = c
  /\ pc' = then
  /\ UNCHANGED <<srq_forward, srq_backward, lhb_active_owner, que, node, lost, again, crashes>>
-----------------------------------------------------------------------------
\* insert_tail: the entry n is put at the end of queue q, in eight stores.
insert_tail(q, n) ==
  /\ pc = "ready"
  /\ ~Linked(n) /\ n \notin lost
  /\ que' = q /\ node' = n
  /\ pc' = "insert_que"
  /\ UNCHANGED <<srq_forward, srq_backward, shb, lhb_active_owner, content, lost, again, crashes>>

\* From the moment that shb_insert_que is reset the insertion is not undone.
insert_steps ==
  LET prior == srq_backward[que]
  IN \/ Note("insert_que", que, shb_insert_prior, shb_remove_node, content, "insert_prior")
     \/ Note("insert_prior", shb_insert_que, prior, shb_remove_node, content, "node_forward")
     \/ Store("node_forward", [srq_forward EXCEPT ![node] = que], srq_backward, "node_backward")
     \/ Store("node_backward", srq_forward, [srq_backward EXCEPT ![node] = prior],
              "prior_forward")
     \/ Store("prior_forward", [srq_forward EXCEPT ![prior] = node], srq_backward,
              "que_backward")
     \/ Store("que_backward", srq_forward, [srq_backward EXCEPT ![que] = node], "clear_que")
     \/ Note("clear_que", Nil, shb_insert_prior, shb_remove_node,
             [content EXCEPT ![que] = Append(@, node)], "clear_prior")
     \/ Note("clear_prior", shb_insert_que, Nil, shb_remove_node, content, "ready")

\* remove_que: an entry of a queue, or one whose removal was cut short and that
\* the purge of the dead owner removes once more.
remove_que(n) ==
  /\ pc = "ready"
  /\ Linked(n) \/ n \in again
  /\ que' = Nil /\ node' = n
  /\ pc' = "remove_node"
  /\ UNCHANGED <<srq_forward, srq_backward, shb, lhb_active_owner, content, lost, again, crashes>>

Without(n) == [q \in Queues |-> RemoveFirst(content[q], n)]

\* From the moment that shb_remove_node is set the removal will be completed.
\* Mutant: the mark is reset before the queue is closed behind the entry.
remove_steps_early ==
  LET next == srq_forward[node]
      back == srq_backward[node]
  IN \/ Note("remove_node", shb_insert_que, shb_insert_prior, node, Without(node),
             "next_backward")
     \/ Store("next_backward", srq_forward, [srq_backward EXCEPT ![next] = back], "clear_node")
     \/ Note("clear_node", shb_insert_que, shb_insert_prior, Nil, content, "back_forward")
     \/ Store("back_forward", [srq_forward EXCEPT ![back] = next], srq_backward, "init_node")
     \/ Store("init_node", [srq_forward EXCEPT ![node] = node],
              [srq_backward EXCEPT ![node] = node], "ready")

remove_steps ==
  LET next == srq_forward[node]
      back == srq_backward[node]
  IN \/ Note("remove_node", shb_insert_que, shb_insert_prior, node, Without(node),
             "next_backward")
     \/ Store("next_backward", srq_forward, [srq_backward EXCEPT ![next] = back],
              "back_forward")
     \/ Store("back_forward", [srq_forward EXCEPT ![back] = next], srq_backward, "clear_node")
     \/ Note("clear_node", shb_insert_que, shb_insert_prior, Nil, content, "init_node")
     \/ Store("init_node", [srq_forward EXCEPT ![node] = node],
              [srq_backward EXCEPT ![node] = node], "ready")

\* acquire_shmem, the insertion that was under way is undone.
undo_steps ==
  \/ Store("undo_backward", srq_forward,
           [srq_backward EXCEPT ![shb_insert_que] = shb_insert_prior], "undo_forward")
  \/ Store("undo_forward", [srq_forward EXCEPT ![shb_insert_prior] = shb_insert_que],
           srq_backward, "undo_que")
  \/ Note("undo_que", Nil, shb_insert_prior, shb_remove_node, content, "undo_prior")
  \/ Note("undo_prior", shb_insert_que, Nil, shb_remove_node, content, "ready")

\* The process dies before its next step; lhb_active_owner and the secondary
\* header stay as they are.  An entry that it was working on is not inserted
\* again; the purge of the dead owner removes it once more if its removal was
\* under way (and, with PurgeUndone, also if its insertion was: enqueue puts a
\* request into own_requests before it puts it into lbl_requests).
die ==
  /\ pc \in CrashAt /\ lhb_active_owner \in Mortal
  /\ crashes < MaxCrashes
  /\ crashes' = crashes + 1
  /\ pc' = "idle"
  /\ LET undone == pc \in InsertSteps \ {"clear_prior"}
         removed == pc \in RemoveSteps \ {"remove_node"}
     IN /\ lost' = IF undone \/ removed THEN lost \cup {node} ELSE lost
        /\ again' = IF removed \/ (undone /\ PurgeUndone) THEN again \cup {node} ELSE again
  /\ UNCHANGED <<srq_forward, srq_backward, shb, lhb_active_owner, que, node, content>>

Next ==
  \/ \E a \in Actors : acquire_shmem(a)
  \/ setOwner \/ release_shmem
  \/ \E q \in Queues, n \in Nodes : insert_tail(q, n)
  \/ \E n \in Nodes : remove_que(n)
  \/ insert_steps \/ remove_steps \/ undo_steps
  \/ die

Spec == Init /\ [][Next]_vars
-----------------------------------------------------------------------------
\* Every variable has its type.
TypeOK ==
  /\ srq_forward \in [Cells -> Cells]
  /\ srq_backward \in [Cells -> Cells]
  /\ shb_insert_que \in Queues \cup {Nil}
  /\ shb_insert_prior \in Cells \cup {Nil}
  /\ shb_remove_node \in Nodes \cup {Nil}
  /\ lhb_active_owner \in {"none", "owner", "dummy"}
  /\ pc \in Steps \cup {"idle", "ready"}
  /\ que \in Queues \cup {Nil}
  /\ node \in Nodes \cup {Nil}
  /\ content \in [Queues -> Seq(Nodes)]
  /\ lost \subseteq Nodes
  /\ again \subseteq lost
  /\ crashes \in 0 .. MaxCrashes

\* Whoever is in the table and not in the middle of an update of its own finds
\* every queue linked, in both directions, through exactly the entries whose
\* insertion took effect and whose removal did not begin: what the comments of
\* insert_tail and remove_que promise of an update that a death cut short.
Recovered ==
  pc = "ready" =>
    \A q \in Queues :
      LET ring == <<q>> \o content[q]
          n == Len(ring)
      IN \A i \in 1 .. n :
           LET j == IF i = n THEN 1 ELSE i + 1
           IN srq_forward[ring[i]] = ring[j] /\ srq_backward[ring[j]] = ring[i]
=============================================================================
