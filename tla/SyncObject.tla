----------------------------- MODULE SyncObject -----------------------------
(* The read-write lock of common/classes/SyncObject.cpp: a word that threads *)
(* change by compare-and-swap (lockState), a word that counts who waits      *)
(* (waiters), and a queue of waiting threads under a mutex.                  *)
(*                                                                           *)
(* An action is the code between two accesses to what other threads may see: *)
(* lockState, waiters and exclusiveThread at any time, the queue under the   *)
(* mutex only.  A compare-and-swap that fails goes back and reads again, as  *)
(* if it had not read before; an action is the attempt that succeeds or the  *)
(* read that ends the loop.  Words changed together under the mutex are      *)
(* changed in one action where a thread that saw them apart would only have  *)
(* to queue for the mutex.                                                   *)
EXTENDS Integers, SequencesExt

CONSTANTS
  Threads,
  TimeOuts,     \* what clients ask for: subset of {"none", "limited", "forever"}
  MaxMonitor,   \* bound on monitorCount
  NoThread

ASSUME SyncAssumption ==
  /\ IsFiniteSet(Threads) /\ NoThread \notin Threads
  /\ TimeOuts \subseteq {"none", "limited", "forever"}
  /\ MaxMonitor \in Nat

VARIABLES
  lockState,        \* -1: exclusive, n >= 0: n readers
  waiters,          \* the two halves of the counter: readers and writers
  monitorCount,     \* how often the exclusive holder has locked again
  exclusiveThread,
  waitingThreads,   \* the queue
  mutex,            \* who holds SyncObject::mutex
  cntWake, granted, \* locals of grantLocks: readers yet to be granted, who was granted last
  pc,               \* what each thread does next
  type,             \* how it holds or wants the lock (Sync::state, ThreadSync::lockType)
  timeOut,          \* what is left of its time
  lockGranted, wakeup  \* the fields of its ThreadSync

object == <<lockState, waiters, monitorCount, exclusiveThread, waitingThreads, mutex, cntWake, granted>>
local == <<pc, type, timeOut, lockGranted, wakeup>>
vars == <<object, local>>


Idle == [shared |-> 0, exclusive |-> 0]

Init ==
  /\ lockState = 0 /\ waiters = Idle /\ monitorCount = 0 /\ exclusiveThread = NoThread
  /\ waitingThreads = <<>> /\ mutex = NoThread /\ cntWake = 0 /\ granted = NoThread
  /\ pc = [t \in Threads |-> "free"]
  /\ type = [t \in Threads |-> "none"]
  /\ timeOut = [t \in Threads |-> "none"]
  /\ lockGranted = [t \in Threads |-> FALSE]
  /\ wakeup = [t \in Threads |-> FALSE]

GoTo(t, label) == pc' = [pc EXCEPT ![t] = label]

Compatible(ty) == IF ty = "shared" THEN lockState >= 0 ELSE lockState = 0

Taken(ty) == IF ty = "shared" THEN lockState + 1 ELSE -1

\* The call returns true, or false; its parameter is gone.
Hold(t, label) == GoTo(t, label) /\ timeOut' = [timeOut EXCEPT ![t] = "none"] /\ UNCHANGED type

Refuse(t) ==
  /\ GoTo(t, "free")
  /\ type' = [type EXCEPT ![t] = "none"]
  /\ timeOut' = [timeOut EXCEPT ![t] = "none"]

-----------------------------------------------------------------------------
(* lock and lockConditional *)

\* The exclusive holder is let in again, before anything else is looked at.
Start(t, ty, time, label) ==
  /\ pc[t] = "free"
  /\ type' = [type EXCEPT ![t] = ty]
  /\ IF ty = "exclusive" /\ exclusiveThread = t
     THEN monitorCount' = monitorCount + 1 /\ GoTo(t, "held") /\ UNCHANGED timeOut
     ELSE /\ GoTo(t, label)
          /\ timeOut' = [timeOut EXCEPT ![t] = time]
          /\ UNCHANGED monitorCount
  /\ UNCHANGED <<lockState, waiters, exclusiveThread, waitingThreads, mutex, cntWake, granted,
                 lockGranted, wakeup>>

lock(t, ty, time) == Start(t, ty, time, "fast")

lockConditional(t, ty) ==
  /\ waitingThreads = <<>>
  /\ Start(t, ty, "none", IF ty = "shared" THEN "swap" ELSE "fast")

\* lock, called by a thread that holds the lock exclusively.
lockAgain(t) ==
  /\ pc[t] = "held" /\ type[t] = "exclusive" /\ exclusiveThread = t
  /\ monitorCount < MaxMonitor
  /\ monitorCount' = monitorCount + 1
  /\ UNCHANGED <<lockState, waiters, exclusiveThread, waitingThreads, mutex, cntWake, granted, local>>

\* Without a lock to be had at once.
Queue(t) ==
  IF timeOut[t] = "none" THEN Refuse(t) ELSE GoTo(t, "slow") /\ UNCHANGED <<type, timeOut>>

\* while (waiters == 0)
fast(t) ==
  /\ pc[t] = "fast"
  /\ IF waiters = Idle THEN GoTo(t, "swap") /\ UNCHANGED <<type, timeOut>> ELSE Queue(t)
  /\ UNCHANGED <<object, lockGranted, wakeup>>

\* compareExchange without the mutex
swap(t) ==
  /\ pc[t] = "swap"
  /\ IF Compatible(type[t])
     THEN lockState' = Taken(type[t]) /\ Hold(t, IF type[t] = "shared" THEN "held" ELSE "mark")
     ELSE Queue(t) /\ UNCHANGED lockState
  /\ UNCHANGED <<waiters, monitorCount, exclusiveThread, waitingThreads, mutex, cntWake, granted,
                 lockGranted, wakeup>>

mark(t) ==
  /\ pc[t] = "mark"
  /\ exclusiveThread' = t
  /\ GoTo(t, "held")
  /\ UNCHANGED <<lockState, waiters, monitorCount, waitingThreads, mutex, cntWake, granted,
                 type, timeOut, lockGranted, wakeup>>

\* mutex.enter(), ++waiters or waiters += WRITER_INCR
slow(t) ==
  /\ pc[t] = "slow" /\ mutex = NoThread
  /\ mutex' = t
  /\ waiters' = [waiters EXCEPT ![type[t]] = @ + 1]
  /\ GoTo(t, "fair")
  /\ UNCHANGED <<lockState, monitorCount, exclusiveThread, waitingThreads, cntWake, granted,
                 type, timeOut, lockGranted, wakeup>>

\* while (!waitingThreads), and the head of wait()
fair(t) ==
  /\ pc[t] = "fair"
  /\ IF waitingThreads = <<>> /\ Compatible(type[t])
     THEN /\ lockState' = Taken(type[t])
          /\ exclusiveThread' = IF type[t] = "shared" THEN exclusiveThread ELSE t
          /\ waiters' = [waiters EXCEPT ![type[t]] = @ - 1]
          /\ Hold(t, "held")
          /\ UNCHANGED <<waitingThreads, lockGranted>>
     ELSE /\ waitingThreads' = Append(waitingThreads, t)
          /\ lockGranted' = [lockGranted EXCEPT ![t] = FALSE]
          /\ GoTo(t, "wait")
          /\ UNCHANGED <<lockState, exclusiveThread, waiters, type, timeOut>>
  /\ mutex' = NoThread
  /\ UNCHANGED <<monitorCount, cntWake, granted, wakeup>>

-----------------------------------------------------------------------------
(* wait *)

\* while (timeOut && !thread->lockGranted)
wait(t) ==
  /\ pc[t] = "wait"
  /\ IF lockGranted[t]
     THEN Hold(t, "held")
     ELSE GoTo(t, IF timeOut[t] = "none" THEN "late" ELSE "sleep") /\ UNCHANGED <<type, timeOut>>
  /\ UNCHANGED <<object, lockGranted, wakeup>>

\* thread->sleep().  timeOut -= wait, whether it was woken or not; more than
\* ten seconds take several turns.
sleep(t) ==
  /\ pc[t] = "sleep"
  /\ wakeup[t] \/ timeOut[t] = "limited"
  /\ wakeup' = [wakeup EXCEPT ![t] = FALSE]
  /\ \E left \in IF timeOut[t] = "limited" THEN {"limited", "none"} ELSE {timeOut[t]} :
       timeOut' = [timeOut EXCEPT ![t] = left]
  /\ GoTo(t, "wait")
  /\ UNCHANGED <<object, type, lockGranted>>

\* Mutant: a thread whose time is up does not look again once it has the mutex.
late_unchecked(t) ==
  /\ pc[t] = "late" /\ mutex = NoThread
  /\ waitingThreads' = RemoveFirst(waitingThreads, t)
  /\ waiters' = [waiters EXCEPT ![type[t]] = @ - 1]
  /\ Refuse(t)
  /\ UNCHANGED <<lockState, monitorCount, exclusiveThread, mutex, cntWake, granted,
                 lockGranted, wakeup>>

\* Time is up, unless the lock was granted while the thread came for the mutex.
late(t) ==
  /\ pc[t] = "late" /\ mutex = NoThread
  /\ IF lockGranted[t]
     THEN Hold(t, "held") /\ UNCHANGED <<waitingThreads, waiters>>
     ELSE /\ waitingThreads' = RemoveFirst(waitingThreads, t)
          /\ waiters' = [waiters EXCEPT ![type[t]] = @ - 1]
          /\ Refuse(t)
  /\ UNCHANGED <<lockState, monitorCount, exclusiveThread, mutex, cntWake, granted,
                 lockGranted, wakeup>>

-----------------------------------------------------------------------------
(* unlock, downgrade and grantLocks *)

unlock(t) ==
  /\ pc[t] = "held"
  /\ IF monitorCount > 0
     THEN monitorCount' = monitorCount - 1 /\ UNCHANGED <<exclusiveThread, pc>>
     ELSE exclusiveThread' = NoThread /\ GoTo(t, "unlock") /\ UNCHANGED monitorCount
  /\ UNCHANGED <<lockState, waiters, waitingThreads, mutex, cntWake, granted,
                 type, timeOut, lockGranted, wakeup>>

unlock_swap(t) ==
  /\ pc[t] = "unlock"
  /\ lockState' = IF type[t] = "shared" THEN lockState - 1 ELSE 0
  /\ GoTo(t, IF lockState' = 0 THEN "look" ELSE "free")
  /\ type' = [type EXCEPT ![t] = "none"]
  /\ UNCHANGED <<waiters, monitorCount, exclusiveThread, waitingThreads, mutex, cntWake, granted,
                 timeOut, lockGranted, wakeup>>

\* Mutant: the thread remains the one that may lock again.
downgrade_forgotten(t) ==
  /\ pc[t] = "held" /\ type[t] = "exclusive" /\ monitorCount = 0
  /\ GoTo(t, "lower")
  /\ UNCHANGED <<object, type, timeOut, lockGranted, wakeup>>

downgrade(t) ==
  /\ pc[t] = "held" /\ type[t] = "exclusive" /\ monitorCount = 0
  /\ exclusiveThread' = NoThread
  /\ GoTo(t, "lower")
  /\ UNCHANGED <<lockState, waiters, monitorCount, waitingThreads, mutex, cntWake, granted,
                 type, timeOut, lockGranted, wakeup>>

downgrade_swap(t) ==
  /\ pc[t] = "lower" /\ lockState = -1
  /\ lockState' = 1
  /\ type' = [type EXCEPT ![t] = "shared"]
  /\ GoTo(t, "look")
  /\ UNCHANGED <<waiters, monitorCount, exclusiveThread, waitingThreads, mutex, cntWake, granted,
                 timeOut, lockGranted, wakeup>>

\* unlock and downgrade return.
Return(t) == GoTo(t, IF type[t] = "none" THEN "free" ELSE "held")

\* Mutant: unlock too looks at waiting readers only.
look_readers(t) ==
  /\ pc[t] = "look"
  /\ IF waiters.shared > 0 THEN GoTo(t, "grant") ELSE Return(t)
  /\ UNCHANGED <<object, type, timeOut, lockGranted, wakeup>>

\* unlock: if (waiters); downgrade: if (waiters & READERS_MASK)
look(t) ==
  /\ pc[t] = "look"
  /\ IF waiters.shared > 0 \/ (type[t] = "none" /\ waiters.exclusive > 0)
     THEN GoTo(t, "grant") ELSE Return(t)
  /\ UNCHANGED <<object, type, timeOut, lockGranted, wakeup>>

\* Mutant: grantLocks takes the lock to be free of writers.
grantLocks_unchecked(t) ==
  /\ pc[t] = "grant" /\ mutex = NoThread
  /\ IF waitingThreads = <<>> \/ (type[Head(waitingThreads)] = "exclusive" /\ lockState # 0)
     THEN Return(t) /\ UNCHANGED <<lockState, waiters, cntWake, mutex>>
     ELSE /\ mutex' = t
          /\ IF type[Head(waitingThreads)] = "shared"
             THEN /\ lockState' = lockState + waiters.shared
                  /\ cntWake' = waiters.shared
                  /\ waiters' = [waiters EXCEPT !.shared = 0]
                  /\ GoTo(t, "share")
             ELSE /\ lockState' = -1
                  /\ GoTo(t, "crown")
                  /\ UNCHANGED <<cntWake, waiters>>
  /\ UNCHANGED <<monitorCount, exclusiveThread, waitingThreads, granted,
                 type, timeOut, lockGranted, wakeup>>

\* The first in the queue decides: all readers are let in, or one writer.
grantLocks(t) ==
  /\ pc[t] = "grant" /\ mutex = NoThread
  /\ IF waitingThreads = <<>> \/ ~Compatible(type[Head(waitingThreads)])
     THEN Return(t) /\ UNCHANGED <<lockState, waiters, cntWake, mutex>>
     ELSE /\ mutex' = t
          /\ IF type[Head(waitingThreads)] = "shared"
             THEN /\ lockState' = lockState + waiters.shared
                  /\ cntWake' = waiters.shared
                  /\ waiters' = [waiters EXCEPT !.shared = 0]
                  /\ GoTo(t, "share")
             ELSE /\ lockState' = -1
                  /\ GoTo(t, "crown")
                  /\ UNCHANGED <<cntWake, waiters>>
  /\ UNCHANGED <<monitorCount, exclusiveThread, waitingThreads, granted,
                 type, timeOut, lockGranted, wakeup>>

\* dequeThread(u), and u->lockGranted = true in grantLock
Grant(t, u) ==
  /\ waitingThreads' = RemoveFirst(waitingThreads, u)
  /\ lockGranted' = [lockGranted EXCEPT ![u] = TRUE]
  /\ granted' = u
  /\ GoTo(t, "wake")

FirstReader == waitingThreads[SelectInSeq(waitingThreads, LAMBDA u : type[u] = "shared")]

\* One turn of the loop over the readers in the queue, and its end.
share(t) ==
  /\ pc[t] = "share"
  /\ IF cntWake > 0
     THEN /\ Grant(t, FirstReader)
          /\ cntWake' = cntWake - 1
          /\ UNCHANGED mutex
     ELSE /\ mutex' = NoThread /\ Return(t)
          /\ UNCHANGED <<waitingThreads, lockGranted, granted, cntWake>>
  /\ UNCHANGED <<lockState, waiters, monitorCount, exclusiveThread, type, timeOut, wakeup>>

\* Mutant: a writer that is let in is still counted among those who wait.
crown_counted(t) ==
  /\ pc[t] = "crown"
  /\ exclusiveThread' = Head(waitingThreads)
  /\ GoTo(t, "give")
  /\ UNCHANGED <<lockState, waiters, monitorCount, waitingThreads, mutex, cntWake, granted,
                 type, timeOut, lockGranted, wakeup>>

crown(t) ==
  /\ pc[t] = "crown"
  /\ exclusiveThread' = Head(waitingThreads)
  /\ waiters' = [waiters EXCEPT !.exclusive = @ - 1]
  /\ GoTo(t, "give")
  /\ UNCHANGED <<lockState, monitorCount, waitingThreads, mutex, cntWake, granted,
                 type, timeOut, lockGranted, wakeup>>

\* Mutant: the writer is told, and not woken.
give_silent(t) ==
  /\ pc[t] = "give"
  /\ waitingThreads' = Tail(waitingThreads)
  /\ lockGranted' = [lockGranted EXCEPT ![Head(waitingThreads)] = TRUE]
  /\ GoTo(t, "share")
  /\ UNCHANGED <<lockState, waiters, monitorCount, exclusiveThread, mutex, cntWake, granted,
                 type, timeOut, wakeup>>

give(t) ==
  /\ pc[t] = "give"
  /\ Grant(t, Head(waitingThreads))
  /\ UNCHANGED <<lockState, waiters, monitorCount, exclusiveThread, mutex, cntWake,
                 type, timeOut, wakeup>>

\* wake(), the last step of grantLock
wake(t) ==
  /\ pc[t] = "wake"
  /\ wakeup' = [wakeup EXCEPT ![granted] = TRUE]
  /\ granted' = NoThread
  /\ GoTo(t, "share")
  /\ UNCHANGED <<lockState, waiters, monitorCount, exclusiveThread, waitingThreads, mutex, cntWake,
                 type, timeOut, lockGranted>>

-----------------------------------------------------------------------------
Next ==
  \E t \in Threads :
    \/ \E ty \in {"shared", "exclusive"} :
         (\E time \in TimeOuts : lock(t, ty, time)) \/ lockConditional(t, ty)
    \/ lockAgain(t) \/ fast(t) \/ swap(t) \/ mark(t) \/ slow(t) \/ fair(t)
    \/ wait(t) \/ sleep(t) \/ late(t)
    \/ unlock(t) \/ unlock_swap(t) \/ downgrade(t) \/ downgrade_swap(t) \/ look(t)
    \/ grantLocks(t) \/ share(t) \/ crown(t) \/ give(t) \/ wake(t)

Spec == Init /\ [][Next]_vars

-----------------------------------------------------------------------------
(* How the threads hold the lock. *)

\* A waiting thread holds the lock from the moment it is granted, a thread in
\* unlock until it has changed lockState.
Held ==
  [t \in Threads |->
     IF pc[t] \in {"free", "fast", "swap", "slow", "fair"}
          \/ (pc[t] \in {"wait", "sleep", "late"} /\ ~lockGranted[t])
     THEN "none" ELSE type[t]]

RW == INSTANCE ReadWriteLock WITH held <- Held

TypeOK ==
  /\ lockState \in Int
  /\ waiters \in [shared : Nat, exclusive : Nat]
  /\ monitorCount \in Nat /\ cntWake \in Nat
  /\ exclusiveThread \in Threads \cup {NoThread}
  /\ mutex \in Threads \cup {NoThread}
  /\ granted \in Threads \cup {NoThread}
  /\ waitingThreads \in Seq(Threads)
  /\ pc \in [Threads -> {"free", "fast", "swap", "mark", "slow", "fair", "wait", "sleep", "late",
                         "held", "unlock", "lower", "look", "grant", "share", "crown", "give", "wake"}]
  /\ type \in [Threads -> {"none", "shared", "exclusive"}]
  /\ timeOut \in [Threads -> {"none", "limited", "forever"}]
  /\ lockGranted \in [Threads -> BOOLEAN]
  /\ wakeup \in [Threads -> BOOLEAN]

\* lockState says how the lock is held, counting the readers that grantLocks
\* has yet to tell, and the writer it is about to tell (SyncObject.cpp:373-415).
StateMatchesHolders ==
  lockState =
    IF \E t \in Threads : Held[t] = "exclusive" \/ pc[t] \in {"crown", "give"}
    THEN -1
    ELSE Cardinality({t \in Threads : Held[t] = "shared"}) + cntWake

\* Re-entry is decided from exclusiveThread alone, without the mutex: it names a
\* thread only while that thread holds the lock exclusively, or waits and is
\* about to be told so (SyncObject.cpp:100, 185, 224, 250, 409).
ReentryIsOwn ==
  /\ \A t \in Threads :
       exclusiveThread = t =>
         \/ Held[t] = "exclusive"
         \/ waitingThreads # <<>> /\ t = Head(waitingThreads) /\ \E g \in Threads : pc[g] = "give"
  /\ monitorCount > 0 => exclusiveThread # NoThread

\* The count of waiters agrees with the queue whenever the mutex is free
\* (the assertion at SyncObject.cpp:365).
WaitersMatchQueue ==
  mutex = NoThread =>
    \A ty \in {"shared", "exclusive"} :
      waiters[ty] = Cardinality({t \in ToSet(waitingThreads) : type[t] = ty})

\* Nobody is left in the queue of a lock that is free: whoever made it free is
\* on the way to grantLocks (SyncObject.cpp:234, 257, 73-90).
NoneForgotten ==
  waitingThreads # <<>> /\ lockState = 0 => \E t \in Threads : pc[t] \in {"look", "grant"}

\* Each step takes, gives back or downgrades the lock of one thread, as a
\* read-write lock does, or changes nothing of that.
ReadWrite == RW!Spec

\* A thread that was granted the lock does not sleep on: it has been woken, or
\* is about to be (SyncObject.cpp:293-304, Synchronize.cpp:77-108, 239-247).
GrantedAreWoken ==
  \A t \in Threads : pc[t] = "sleep" /\ lockGranted[t] => wakeup[t] \/ granted = t
=============================================================================
