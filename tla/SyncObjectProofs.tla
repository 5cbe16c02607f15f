-------------------------- MODULE SyncObjectProofs --------------------------
(* Proofs about SyncObject, for any number of threads: it is a read-write    *)
(* lock, and nobody is left in its queue while it is free.                   *)
EXTENDS SyncObject, Integers, SequencesExt, FiniteSetTheorems, SequenceTheorems, TLAPS

-----------------------------------------------------------------------------
(* The queue of waiting threads: removal of an element, and elements that    *)
(* occur once, as in LockManagerProofs.                                      *)

\* A set of natural numbers that is not empty has a least element.
LEMMA MinNat ==
  ASSUME NEW T, T \subseteq Nat, T # {}
  PROVE  Min(T) \in T /\ \A y \in T : Min(T) <= y
<1>1. \E x \in T : \A y \in T : ~(<<y, x>> \in OpToRel(<, Nat))
  BY NatLessThanWellFounded, WFMin
<1>2. PICK x \in T : \A y \in T : ~(<<y, x>> \in OpToRel(<, Nat))
  BY <1>1
<1>3. \A y \in T : x <= y
  <2> SUFFICES ASSUME NEW y \in T, y < x PROVE FALSE
    OBVIOUS
  <2>1. <<y, x>> \in Nat \X Nat /\ <<y, x>>[1] < <<y, x>>[2]
    OBVIOUS
  <2> QED
    BY <1>2, <2>1, Zenon DEF OpToRel
<1> QED
  BY <1>3 DEF Min

\* RemoveFirst takes one element out of a sequence.
LEMMA RemoveFirstIs ==
  ASSUME NEW S, NEW s \in Seq(S), NEW e, NEW k \in 1 .. Len(s), s[k] = e
  PROVE  \E i \in 1 .. Len(s) : s[i] = e /\ RemoveFirst(s, e) = RemoveAt(s, i)
<1> DEFINE I == {i \in 1 .. Len(s) : s[i] = e}
<1>1. I \subseteq Nat /\ I # {}
  OBVIOUS
<1>2. Min(I) \in I
  BY <1>1, MinNat
<1>3. RemoveFirst(s, e) = RemoveAt(s, Min(I))
  BY <1>1 DEF RemoveFirst, SelectInSeq
<1> QED
  BY <1>2, <1>3

\* What is left is a sequence of the other elements, each at most one place
\* further to the front.
LEMMA RemoveAtIs ==
  ASSUME NEW S, NEW s \in Seq(S), NEW k \in 1 .. Len(s)
  PROVE  /\ RemoveAt(s, k) \in Seq(S)
         /\ Len(RemoveAt(s, k)) = Len(s) - 1
         /\ \A i \in 1 .. Len(s) - 1 : RemoveAt(s, k)[i] = IF i < k THEN s[i] ELSE s[i + 1]
<1> DEFINE a == SubSeq(s, 1, k - 1)
           b == SubSeq(s, k + 1, Len(s))
<1>1. a \in Seq(S) /\ b \in Seq(S)
  OBVIOUS
<1>2. Len(a) = k - 1 /\ \A i \in 1 .. k - 1 : a[i] = s[i]
  OBVIOUS
<1>3. Len(b) = Len(s) - k /\ \A i \in 1 .. Len(s) - k : b[i] = s[k + i]
  OBVIOUS
<1>4. RemoveAt(s, k) = a \o b
  BY DEF RemoveAt
<1> HIDE DEF a, b
<1>5. Len(a \o b) = Len(s) - 1
  BY <1>1, <1>2, <1>3
<1>6. a \o b \in Seq(S)
  BY <1>1
<1>7. \A i \in 1 .. Len(s) - 1 : (a \o b)[i] = IF i < k THEN s[i] ELSE s[i + 1]
  BY <1>1, <1>2, <1>3
<1> QED
  BY <1>4, <1>5, <1>6, <1>7

\* RemoveFirst gives a sequence of the same elements.
LEMMA RemoveFirstType ==
  ASSUME NEW S, NEW s \in Seq(S), NEW e
  PROVE  RemoveFirst(s, e) \in Seq(S)
<1>1. CASE \E i \in 1 .. Len(s) : s[i] = e
  BY <1>1, RemoveFirstIs, RemoveAtIs
<1>2. CASE ~\E i \in 1 .. Len(s) : s[i] = e
  BY <1>2 DEF RemoveFirst
<1> QED
  BY <1>1, <1>2

\* Each element of the sequence occurs once.
Distinct(s) == \A i, j \in 1 .. Len(s) : s[i] = s[j] => i = j

\* x is an element of the sequence.
In(x, s) == \E i \in 1 .. Len(s) : s[i] = x

\* Taken out of a sequence without repetitions, an element is gone; the others
\* are still there, and still without repetitions.
LEMMA RemoveFirstElements ==
  ASSUME NEW S, NEW s \in Seq(S), NEW e, Distinct(s), In(e, s)
  PROVE  /\ RemoveFirst(s, e) \in Seq(S)
         /\ Distinct(RemoveFirst(s, e))
         /\ \A x : In(x, RemoveFirst(s, e)) <=> (In(x, s) /\ x # e)
<1>1. PICK k \in 1 .. Len(s) : s[k] = e /\ RemoveFirst(s, e) = RemoveAt(s, k)
  BY RemoveFirstIs DEF In
<1> DEFINE t == RemoveAt(s, k)
           n == Len(s)
<1>2. t \in Seq(S) /\ Len(t) = n - 1 /\ \A i \in 1 .. n - 1 : t[i] = IF i < k THEN s[i] ELSE s[i + 1]
  BY RemoveAtIs
<1>3. n \in Nat /\ k \in 1 .. n
  OBVIOUS
<1> HIDE DEF t, n
<1>4. Distinct(t)
  <2> SUFFICES ASSUME NEW i \in 1 .. n - 1, NEW j \in 1 .. n - 1, t[i] = t[j] PROVE i = j
    BY <1>2 DEF Distinct
  <2>1. \A a, b \in 1 .. n : s[a] = s[b] => a = b
    BY DEF Distinct, n
  <2>2. i \in 1 .. n /\ i + 1 \in 1 .. n /\ j \in 1 .. n /\ j + 1 \in 1 .. n
    BY <1>3
  <2> QED
    BY <1>2, <1>3, <2>1, <2>2
<1>5. ASSUME NEW x PROVE In(x, t) <=> (In(x, s) /\ x # e)
  <2>1. ASSUME NEW i \in 1 .. n - 1, t[i] = x PROVE In(x, s) /\ x # e
    <3>1. i \in 1 .. n /\ i + 1 \in 1 .. n /\ (i < k => i # k) /\ (~(i < k) => i + 1 # k)
      BY <1>3
    <3>2. \A a \in 1 .. n : s[a] = e => a = k
      BY <1>1, <1>3 DEF Distinct, n
    <3> QED
      BY <1>2, <2>1, <3>1, <3>2 DEF In, n
  <2>2. ASSUME NEW i \in 1 .. n, s[i] = x, x # e PROVE In(x, t)
    <3>1. i # k
      BY <1>1, <2>2
    <3>2. CASE i < k
      <4>1. i \in 1 .. n - 1
        BY <1>3, <3>2
      <4> QED
        BY <1>2, <2>2, <3>2, <4>1 DEF In
    <3>3. CASE i > k
      <4>1. i - 1 \in 1 .. n - 1 /\ ~(i - 1 < k) /\ i - 1 + 1 = i
        BY <1>3, <3>3
      <4> QED
        BY <1>2, <2>2, <3>3, <4>1 DEF In
    <3> QED
      BY <1>3, <3>1, <3>2, <3>3
  <2> QED
    BY <1>2, <2>1, <2>2 DEF In, n
<1> QED
  BY <1>1, <1>2, <1>4, <1>5 DEF t

\* So is one that is put at the end.
LEMMA AppendElements ==
  ASSUME NEW S, NEW s \in Seq(S), NEW e \in S, Distinct(s), ~In(e, s)
  PROVE  /\ Append(s, e) \in Seq(S)
         /\ Distinct(Append(s, e))
         /\ \A x : In(x, Append(s, e)) <=> (In(x, s) \/ x = e)
<1> DEFINE t == Append(s, e)
           n == Len(s)
<1>1. /\ t \in Seq(S) /\ Len(t) = n + 1
      /\ \A i \in 1 .. n : t[i] = s[i]
      /\ t[n + 1] = e
  BY AppendProperties
<1>2. n \in Nat /\ \A i \in 1 .. n + 1 : i \in 1 .. n \/ i = n + 1
  OBVIOUS
<1> HIDE DEF t
<1>3. Distinct(t)
  BY <1>1, <1>2 DEF Distinct, In
<1>4. \A x : In(x, t) <=> (In(x, s) \/ x = e)
  BY <1>1, <1>2 DEF In
<1> QED
  BY <1>1, <1>3, <1>4 DEF t

-----------------------------------------------------------------------------
(* The invariant.                                                            *)

\* The positions of a thread that waits, that holds the mutex, that has found
\* the lock free for the writer at the head of the queue.
Waiting == {"wait", "sleep", "late"}
Inside == {"fair", "share", "crown", "give", "wake"}
Crowning == {"crown", "give"}

MutexInv == \A t \in Threads : pc[t] \in Inside => mutex = t

\* What a thread wants or holds, at each position.
ModeInv ==
  \A t \in Threads :
    /\ pc[t] = "free" => type[t] = "none"
    /\ pc[t] \in {"fast", "swap", "slow", "fair", "wait", "sleep", "late", "held", "unlock"} =>
         type[t] # "none"
    /\ pc[t] \in {"mark", "lower"} => type[t] = "exclusive"
    /\ pc[t] \in {"look", "grant", "share", "crown", "give", "wake"} => type[t] # "exclusive"

Queued(t) == pc[t] \in Waiting /\ ~lockGranted[t]

\* The queue holds those who wait and have not been granted the lock, each once.
QueueInv ==
  /\ Distinct(waitingThreads)
  /\ \A t \in Threads : In(t, waitingThreads) <=> Queued(t)
  /\ \A t \in Threads : pc[t] \in Crowning =>
       waitingThreads # <<>> /\ type[Head(waitingThreads)] = "exclusive"

Counted(t) == Queued(t) \/ pc[t] = "fair"

\* The writer that crown has taken out of the count, not yet out of the queue.
Crowned(t) == (\E g \in Threads : pc[g] = "give") /\ t = Head(waitingThreads)

Readers == {t \in Threads : Counted(t) /\ type[t] = "shared"}
Writers == {t \in Threads : Counted(t) /\ type[t] = "exclusive" /\ ~Crowned(t)}

\* waiters counts the queue and the thread that is about to join it.
CountInv ==
  /\ waiters.shared + cntWake = Cardinality(Readers)
  /\ waiters.exclusive = Cardinality(Writers)
  /\ cntWake > 0 => \E t \in Threads : pc[t] \in {"share", "wake"}

Sharing == {t \in Threads : Held[t] = "shared"}
Excluding == {t \in Threads : Held[t] = "exclusive"}
Crowners == {t \in Threads : pc[t] \in Crowning}

Exclusive ==
  /\ lockState = -1 /\ Sharing = {} /\ cntWake = 0
  /\ \E t \in Threads : \/ Excluding = {t} /\ Crowners = {}
                        \/ Excluding = {} /\ Crowners = {t}

StateInv ==
  \/ Exclusive
  \/ Excluding = {} /\ Crowners = {} /\ lockState = Cardinality(Sharing) + cntWake

\* exclusiveThread names the thread that holds the lock exclusively and does
\* nothing with it, or is about to be granted it.
Owns(t) ==
  /\ type[t] = "exclusive"
  /\ \/ pc[t] = "held"
     \/ pc[t] \in Waiting /\ lockGranted[t]
     \/ waitingThreads # <<>> /\ Crowned(t)

OwnerInv ==
  /\ \A t \in Threads : exclusiveThread = t => Owns(t)
  /\ monitorCount > 0 => exclusiveThread # NoThread

SyncInv == TypeOK /\ MutexInv /\ ModeInv /\ QueueInv /\ CountInv /\ StateInv /\ OwnerInv

-----------------------------------------------------------------------------
(* What the invariant says of one state.                                     *)

\* The thread in the mutex is alone there; nobody is there while it is free.
LEMMA Alone ==
  ASSUME SyncInv, NEW t \in Threads, pc[t] \in Inside \/ mutex = NoThread
  PROVE  \A u \in Threads : pc[u] \in Inside => u = t /\ mutex # NoThread
BY SyncAssumption DEF SyncInv, MutexInv

\* Grants under way belong to the thread in the mutex.
LEMMA NoGrants ==
  ASSUME SyncInv, NEW t \in Threads,
         mutex = NoThread \/ pc[t] \in {"fair", "crown", "give"}
  PROVE  cntWake = 0
<1>1. cntWake \in Nat /\ (cntWake > 0 => \E u \in Threads : pc[u] \in {"share", "wake"})
  BY DEF SyncInv, TypeOK, CountInv
<1>2. \A u \in Threads : pc[u] \notin {"share", "wake"}
  BY Alone DEF Inside
<1> QED
  BY <1>1, <1>2

\* The threads counted in waiters are finitely many.
LEMMA CountedFinite == IsFiniteSet(Readers) /\ IsFiniteSet(Writers)
<1>1. Readers \subseteq Threads /\ Writers \subseteq Threads
  BY DEF Readers, Writers
<1> QED
  BY <1>1, SyncAssumption, FS_Subset

\* Who is counted keeps its half of waiters above zero.
LEMMA CountedPositive ==
  ASSUME SyncInv, NEW t \in Threads, Counted(t), ~Crowned(t), cntWake = 0
  PROVE  /\ type[t] \in {"shared", "exclusive"}
         /\ waiters[type[t]] \in Nat /\ waiters[type[t]] > 0
<1>1. type[t] \in {"shared", "exclusive"}
  BY DEF SyncInv, TypeOK, ModeInv, Counted, Queued, Waiting
<1>2. CASE type[t] = "shared"
  <2>1. t \in Readers
    BY <1>2 DEF Readers
  <2>2. Cardinality(Readers) \in Nat /\ Cardinality(Readers) # 0
    BY <2>1, CountedFinite, FS_EmptySet, FS_CardinalityType
  <2> QED
    BY <1>2, <2>2 DEF SyncInv, CountInv, TypeOK
<1>3. CASE type[t] = "exclusive"
  <2>1. t \in Writers
    BY <1>3 DEF Writers
  <2>2. Cardinality(Writers) \in Nat /\ Cardinality(Writers) # 0
    BY <2>1, CountedFinite, FS_EmptySet, FS_CardinalityType
  <2> QED
    BY <1>3, <2>2 DEF SyncInv, CountInv, TypeOK
<1> QED
  BY <1>1, <1>2, <1>3

\* The head of the queue is a thread that waits.
LEMMA HeadWaits ==
  ASSUME SyncInv, waitingThreads # <<>>
  PROVE  /\ Head(waitingThreads) \in Threads
         /\ In(Head(waitingThreads), waitingThreads)
         /\ Queued(Head(waitingThreads))
<1>1. waitingThreads \in Seq(Threads)
  BY DEF SyncInv, TypeOK
<1>2. Len(waitingThreads) \in Nat /\ Len(waitingThreads) # 0
  BY <1>1, EmptySeq
<1>3. 1 \in 1 .. Len(waitingThreads) /\ Head(waitingThreads) = waitingThreads[1]
  BY <1>1, <1>2
<1>4. waitingThreads[1] \in Threads
  BY <1>1, <1>3, ElementOfSeq
<1> QED
  BY <1>3, <1>4 DEF In, SyncInv, QueueInv

\* So is the first reader in the queue, while readers are still to be granted.
LEMMA FirstReaderWaits ==
  ASSUME SyncInv, cntWake > 0
  PROVE  /\ FirstReader \in Threads
         /\ In(FirstReader, waitingThreads)
         /\ Queued(FirstReader)
         /\ type[FirstReader] = "shared"
<1> DEFINE I == {i \in 1 .. Len(waitingThreads) : type[waitingThreads[i]] = "shared"}
<1>1. PICK g \in Threads : pc[g] \in {"share", "wake"}
  BY DEF SyncInv, CountInv
<1>2. \A u \in Threads : pc[u] # "fair"
  BY <1>1, Alone DEF Inside
<1>3. waiters.shared \in Nat /\ cntWake \in Nat /\ waiters.shared + cntWake = Cardinality(Readers)
  BY DEF SyncInv, TypeOK, CountInv
<1>4. Readers # {}
  <2> SUFFICES ASSUME Readers = {} PROVE FALSE
    OBVIOUS
  <2>1. Cardinality(Readers) = 0
    BY CountedFinite, FS_EmptySet
  <2> QED
    BY <1>3, <2>1
<1>5. PICK u \in Threads : Queued(u) /\ type[u] = "shared"
  BY <1>2, <1>4 DEF Readers, Counted
<1>6. waitingThreads \in Seq(Threads) /\ In(u, waitingThreads)
  BY <1>5 DEF SyncInv, TypeOK, QueueInv
<1>7. I # {} /\ I \subseteq Nat
  BY <1>5, <1>6 DEF In
<1>8. Min(I) \in I
  BY <1>7, MinNat
<1>9. FirstReader = waitingThreads[Min(I)]
  BY <1>7 DEF FirstReader, SelectInSeq
<1> HIDE DEF I
<1>10. Min(I) \in 1 .. Len(waitingThreads) /\ type[waitingThreads[Min(I)]] = "shared"
  BY <1>8 DEF I
<1>11. FirstReader \in Threads
  BY <1>6, <1>9, <1>10, ElementOfSeq
<1> QED
  BY <1>9, <1>10, <1>11 DEF In, SyncInv, QueueInv

-----------------------------------------------------------------------------
(* The steps: every variable keeps its type.                                 *)

\* waiters is the delicate part: who leaves the count is in it.
LEMMA TypeStep ==
  ASSUME SyncInv, [Next]_vars
  PROVE  TypeOK'
<1> USE DEF TypeOK, GoTo, Hold, Refuse, Queue, Return, Grant
<1>0. TypeOK
  BY DEF SyncInv
<1>1. ASSUME NEW t \in Threads, NEW ty \in {"shared", "exclusive"},
             NEW time \in {"none", "limited", "forever"}, NEW label \in {"fast", "swap"},
             Start(t, ty, time, label)
      PROVE TypeOK'
  <2>1. CASE ty = "exclusive" /\ exclusiveThread = t
    BY <1>0, <1>1, <2>1 DEF Start
  <2>2. CASE ~(ty = "exclusive" /\ exclusiveThread = t)
    BY <1>0, <1>1, <2>2 DEF Start
  <2> QED
    BY <2>1, <2>2
<1>2. ASSUME NEW t \in Threads, lockAgain(t) \/ fast(t) \/ mark(t) \/ wait(t) \/ sleep(t)
      PROVE TypeOK'
  <2>1. CASE lockAgain(t) \/ mark(t)
    BY <1>0, <2>1 DEF lockAgain, mark, object, local
  <2>2. CASE fast(t)
    BY <1>0, <2>2 DEF fast, object
  <2>3. CASE wait(t)
    BY <1>0, <2>3 DEF wait, object
  <2>4. CASE sleep(t)
    BY <1>0, <2>4 DEF sleep, object
  <2> QED
    BY <1>2, <2>1, <2>2, <2>3, <2>4
<1>3. ASSUME NEW t \in Threads, swap(t)
      PROVE TypeOK'
  <2>1. CASE Compatible(type[t])
    BY <1>0, <1>3, <2>1 DEF swap, Taken
  <2>2. CASE ~Compatible(type[t])
    BY <1>0, <1>3, <2>2 DEF swap
  <2> QED
    BY <2>1, <2>2
<1>4. ASSUME NEW t \in Threads, slow(t)
      PROVE TypeOK'
  <2>1. type[t] \in {"shared", "exclusive"}
    BY <1>0, <1>4 DEF slow, SyncInv, ModeInv
  <2> QED
    BY <1>0, <1>4, <2>1 DEF slow
<1>5. ASSUME NEW t \in Threads, fair(t)
      PROVE TypeOK'
  <2>1. CASE waitingThreads = <<>> /\ Compatible(type[t])
    <3>1. cntWake = 0 /\ Counted(t) /\ ~Crowned(t)
      BY <1>5, NoGrants, Alone DEF fair, Counted, Crowned, Inside
    <3>2. type[t] \in {"shared", "exclusive"} /\ waiters[type[t]] - 1 \in Nat
      BY <3>1, CountedPositive
    <3>3. waiters' \in [shared : Nat, exclusive : Nat]
      BY <1>0, <1>5, <2>1, <3>2 DEF fair
    <3>4. lockState' \in Int /\ exclusiveThread' \in Threads \cup {NoThread} /\ mutex' = NoThread
      BY <1>0, <1>5, <2>1 DEF fair, Taken
    <3>5. pc' = [pc EXCEPT ![t] = "held"] /\ timeOut' = [timeOut EXCEPT ![t] = "none"]
      BY <1>5, <2>1 DEF fair
    <3> QED
      BY <1>0, <1>5, <2>1, <3>3, <3>4, <3>5 DEF fair
  <2>2. CASE ~(waitingThreads = <<>> /\ Compatible(type[t]))
    <3>1. Append(waitingThreads, t) \in Seq(Threads)
      BY <1>0
    <3>2. /\ waitingThreads' = Append(waitingThreads, t)
          /\ lockGranted' = [lockGranted EXCEPT ![t] = FALSE]
          /\ pc' = [pc EXCEPT ![t] = "wait"]
          /\ UNCHANGED <<lockState, exclusiveThread, waiters, type, timeOut, monitorCount, cntWake,
                         granted, wakeup>>
          /\ mutex' = NoThread
      BY <1>5, <2>2 DEF fair
    <3> QED
      BY <1>0, <3>1, <3>2
  <2> QED
    BY <2>1, <2>2
<1>6. ASSUME NEW t \in Threads, late(t)
      PROVE TypeOK'
  <2>1. CASE lockGranted[t]
    BY <1>0, <1>6, <2>1 DEF late
  <2>2. CASE ~lockGranted[t]
    <3>1. cntWake = 0 /\ Counted(t) /\ ~Crowned(t)
      BY <1>6, <2>2, NoGrants, Alone DEF late, Counted, Queued, Waiting, Crowned, Inside
    <3>2. type[t] \in {"shared", "exclusive"} /\ waiters[type[t]] - 1 \in Nat
      BY <3>1, CountedPositive
    <3>3. waiters' \in [shared : Nat, exclusive : Nat]
      BY <1>0, <1>6, <2>2, <3>2 DEF late
    <3>4. waitingThreads' \in Seq(Threads)
      BY <1>0, <1>6, <2>2, RemoveFirstType DEF late
    <3> QED
      BY <1>0, <1>6, <2>2, <3>3, <3>4 DEF late
  <2> QED
    BY <2>1, <2>2
<1>7. ASSUME NEW t \in Threads, unlock(t) \/ unlock_swap(t) \/ downgrade(t) \/ downgrade_swap(t) \/ look(t)
      PROVE TypeOK'
  BY <1>0, <1>7 DEF unlock, unlock_swap, downgrade, downgrade_swap, look, object
<1>8. ASSUME NEW t \in Threads, grantLocks(t)
      PROVE TypeOK'
  BY <1>0, <1>8 DEF grantLocks
<1>9. ASSUME NEW t \in Threads, share(t)
      PROVE TypeOK'
  <2>1. CASE cntWake > 0
    <3>1. FirstReader \in Threads /\ RemoveFirst(waitingThreads, FirstReader) \in Seq(Threads)
      BY <1>0, <2>1, FirstReaderWaits, RemoveFirstType
    <3>2. cntWake - 1 \in Nat
      BY <1>0, <2>1
    <3> QED
      BY <1>0, <1>9, <2>1, <3>1, <3>2 DEF share
  <2>2. CASE ~(cntWake > 0)
    BY <1>0, <1>9, <2>2 DEF share
  <2> QED
    BY <2>1, <2>2
<1>10. ASSUME NEW t \in Threads, crown(t)
       PROVE TypeOK'
  <2>1. waitingThreads # <<>> /\ type[Head(waitingThreads)] = "exclusive"
    BY <1>10 DEF crown, SyncInv, QueueInv, Crowning
  <2>2. Head(waitingThreads) \in Threads /\ Queued(Head(waitingThreads))
    BY <2>1, HeadWaits
  <2>3. cntWake = 0 /\ ~Crowned(Head(waitingThreads)) /\ Counted(Head(waitingThreads))
    BY <1>10, <2>2, NoGrants, Alone DEF crown, Crowned, Counted, Inside
  <2>4. waiters.exclusive - 1 \in Nat
    BY <2>1, <2>2, <2>3, CountedPositive
  <2> QED
    BY <1>0, <1>10, <2>2, <2>4 DEF crown
<1>11. ASSUME NEW t \in Threads, give(t)
       PROVE TypeOK'
  <2>1. waitingThreads # <<>>
    BY <1>11 DEF give, SyncInv, QueueInv, Crowning
  <2>2. Head(waitingThreads) \in Threads
    BY <2>1, HeadWaits
  <2>3. RemoveFirst(waitingThreads, Head(waitingThreads)) \in Seq(Threads)
    BY <1>0, RemoveFirstType
  <2> QED
    BY <1>0, <1>11, <2>2, <2>3 DEF give
<1>12. ASSUME NEW t \in Threads, wake(t)
       PROVE TypeOK'
  BY <1>0, <1>12 DEF wake
<1>13. CASE UNCHANGED vars
  BY <1>0, <1>13 DEF vars, object, local
<1> QED
  <2>1. TimeOuts \subseteq {"none", "limited", "forever"}
    BY SyncAssumption
  <2> QED
    BY <1>1, <1>2, <1>3, <1>4, <1>5, <1>6, <1>7, <1>8, <1>9, <1>10, <1>11, <1>12, <1>13, <2>1
    DEF Next, lock, lockConditional

\* The steps, the calls that start together.
LEMMA Steps ==
  ASSUME [Next]_vars
  PROVE  \/ UNCHANGED vars
         \/ \E t \in Threads :
              \/ \E ty \in {"shared", "exclusive"}, time \in {"none", "limited", "forever"},
                    label \in {"fast", "swap"} : Start(t, ty, time, label)
              \/ lockAgain(t) \/ fast(t) \/ swap(t) \/ mark(t) \/ slow(t) \/ fair(t)
              \/ wait(t) \/ sleep(t) \/ late(t)
              \/ unlock(t) \/ unlock_swap(t) \/ downgrade(t) \/ downgrade_swap(t) \/ look(t)
              \/ grantLocks(t) \/ share(t) \/ crown(t) \/ give(t) \/ wake(t)
BY SyncAssumption DEF Next, lock, lockConditional

\* One thread at a time is inside the mutex.
LEMMA MutexStep ==
  ASSUME SyncInv, [Next]_vars
  PROVE  MutexInv'
<1> USE DEF MutexInv, Inside, GoTo, Hold, Refuse, Queue, Return, Grant
<1>0. MutexInv /\ pc = [u \in Threads |-> pc[u]] /\ NoThread \notin Threads
  BY SyncAssumption DEF SyncInv, TypeOK
<1>1. ASSUME NEW t \in Threads, NEW ty \in {"shared", "exclusive"},
             NEW time \in {"none", "limited", "forever"}, NEW label \in {"fast", "swap"},
             Start(t, ty, time, label)
      PROVE MutexInv'
  BY <1>0, <1>1 DEF Start
<1>2. ASSUME NEW t \in Threads, lockAgain(t) \/ mark(t) \/ wait(t) \/ sleep(t)
      PROVE MutexInv'
  BY <1>0, <1>2 DEF lockAgain, mark, wait, sleep, object, local
<1>3. ASSUME NEW t \in Threads, fast(t) \/ swap(t)
      PROVE MutexInv'
  BY <1>0, <1>3 DEF fast, swap, object
<1>4. ASSUME NEW t \in Threads, slow(t) \/ fair(t)
      PROVE MutexInv'
  BY <1>0, <1>4 DEF slow, fair
<1>5. ASSUME NEW t \in Threads, late(t)
      PROVE MutexInv'
  BY <1>0, <1>5 DEF late
<1>6. ASSUME NEW t \in Threads,
             unlock(t) \/ unlock_swap(t) \/ downgrade(t) \/ downgrade_swap(t) \/ look(t)
      PROVE MutexInv'
  BY <1>0, <1>6 DEF unlock, unlock_swap, downgrade, downgrade_swap, look, object
<1>7. ASSUME NEW t \in Threads, grantLocks(t) \/ share(t)
      PROVE MutexInv'
  BY <1>0, <1>7 DEF grantLocks, share
<1>8. ASSUME NEW t \in Threads, crown(t) \/ give(t) \/ wake(t)
      PROVE MutexInv'
  BY <1>0, <1>8 DEF crown, give, wake
<1>9. CASE UNCHANGED vars
  BY <1>0, <1>9 DEF vars, object, local
<1> QED
  BY <1>1, <1>2, <1>3, <1>4, <1>5, <1>6, <1>7, <1>8, <1>9, Steps

\* What a thread wants or holds fits where it is.
LEMMA ModeStep ==
  ASSUME SyncInv, [Next]_vars
  PROVE  ModeInv'
<1> USE DEF ModeInv, GoTo, Hold, Refuse, Queue, Return, Grant
<1>0. /\ ModeInv /\ pc = [u \in Threads |-> pc[u]]
      /\ type \in [Threads -> {"none", "shared", "exclusive"}]
  BY DEF SyncInv, TypeOK
<1>1. ASSUME NEW t \in Threads, NEW ty \in {"shared", "exclusive"},
             NEW time \in {"none", "limited", "forever"}, NEW label \in {"fast", "swap"},
             Start(t, ty, time, label)
      PROVE ModeInv'
  BY <1>0, <1>1 DEF Start
<1>2. ASSUME NEW t \in Threads, lockAgain(t) \/ mark(t) \/ wait(t) \/ sleep(t)
      PROVE ModeInv'
  BY <1>0, <1>2 DEF lockAgain, mark, wait, sleep, object, local
<1>3. ASSUME NEW t \in Threads, fast(t) \/ swap(t)
      PROVE ModeInv'
  BY <1>0, <1>3 DEF fast, swap, object
<1>4. ASSUME NEW t \in Threads, slow(t) \/ fair(t)
      PROVE ModeInv'
  BY <1>0, <1>4 DEF slow, fair
<1>5. ASSUME NEW t \in Threads, late(t)
      PROVE ModeInv'
  BY <1>0, <1>5 DEF late
<1>6. ASSUME NEW t \in Threads,
             unlock(t) \/ unlock_swap(t) \/ downgrade(t) \/ downgrade_swap(t) \/ look(t)
      PROVE ModeInv'
  BY <1>0, <1>6 DEF unlock, unlock_swap, downgrade, downgrade_swap, look, object
<1>7. ASSUME NEW t \in Threads, grantLocks(t) \/ share(t)
      PROVE ModeInv'
  BY <1>0, <1>7 DEF grantLocks, share
<1>8. ASSUME NEW t \in Threads, crown(t) \/ give(t) \/ wake(t)
      PROVE ModeInv'
  BY <1>0, <1>8 DEF crown, give, wake
<1>9. CASE UNCHANGED vars
  BY <1>0, <1>9 DEF vars, object, local
<1> QED
  BY <1>1, <1>2, <1>3, <1>4, <1>5, <1>6, <1>7, <1>8, <1>9, Steps

\* Steps that leave the queue alone, and who waits in it.
SameQueue ==
  /\ waitingThreads' = waitingThreads
  /\ \A u \in Threads : Queued(u)' <=> Queued(u)
  /\ \A u \in Threads : Queued(u) => type'[u] = type[u]

\* Steps that leave the queue, and who is in it, as they are.
LEMMA SameQueueKeeps ==
  ASSUME SyncInv, SameQueue, \A u \in Threads : pc'[u] \in Crowning => pc[u] \in Crowning
  PROVE  QueueInv'
<1>1. QueueInv
  BY DEF SyncInv
<1>2. \A u \in Threads : In(u, waitingThreads') <=> Queued(u)'
  BY <1>1 DEF SameQueue, QueueInv
<1>3. ASSUME NEW u \in Threads, pc'[u] \in Crowning
      PROVE  waitingThreads' # <<>> /\ type'[Head(waitingThreads')] = "exclusive"
  <2>1. waitingThreads # <<>> /\ type[Head(waitingThreads)] = "exclusive"
    BY <1>1, <1>3 DEF QueueInv
  <2> QED
    BY <2>1, HeadWaits DEF SameQueue
<1> QED
  BY <1>1, <1>2, <1>3 DEF QueueInv, SameQueue, Distinct, In

\* The queue holds those who wait.
LEMMA QueueStep ==
  ASSUME SyncInv, [Next]_vars
  PROVE  QueueInv'
<1> USE DEF GoTo, Hold, Refuse, Queue, Return
<1>0. /\ pc = [u \in Threads |-> pc[u]]
      /\ type = [u \in Threads |-> type[u]]
      /\ lockGranted \in [Threads -> BOOLEAN]
      /\ waitingThreads \in Seq(Threads)
      /\ QueueInv
  BY DEF SyncInv, TypeOK
<1>1. ASSUME NEW t \in Threads, NEW ty \in {"shared", "exclusive"},
             NEW time \in {"none", "limited", "forever"}, NEW label \in {"fast", "swap"},
             Start(t, ty, time, label)
      PROVE QueueInv'
  <2>1. SameQueue
    BY <1>0, <1>1 DEF Start, SameQueue, Queued, Waiting
  <2>2. \A u \in Threads : pc'[u] \in Crowning => pc[u] \in Crowning
    BY <1>0, <1>1 DEF Start, Crowning
  <2> QED
    BY <2>1, <2>2, SameQueueKeeps
<1>2. ASSUME NEW t \in Threads, lockAgain(t) \/ fast(t) \/ swap(t) \/ mark(t) \/ slow(t)
      PROVE QueueInv'
  <2>1. SameQueue
    BY <1>0, <1>2 DEF lockAgain, fast, swap, mark, slow, SameQueue, Queued, Waiting, object, local
  <2>2. \A u \in Threads : pc'[u] \in Crowning => pc[u] \in Crowning
    BY <1>0, <1>2 DEF lockAgain, fast, swap, mark, slow, Crowning, object, local
  <2> QED
    BY <2>1, <2>2, SameQueueKeeps
<1>3. ASSUME NEW t \in Threads, fair(t)
      PROVE QueueInv'
  <2>1. CASE waitingThreads = <<>> /\ Compatible(type[t])
    <3>1. SameQueue
      BY <1>0, <1>3, <2>1 DEF fair, SameQueue, Queued, Waiting
    <3>2. \A u \in Threads : pc'[u] \in Crowning => pc[u] \in Crowning
      BY <1>0, <1>3, <2>1 DEF fair, Crowning
    <3> QED
      BY <3>1, <3>2, SameQueueKeeps
  <2>2. CASE ~(waitingThreads = <<>> /\ Compatible(type[t]))
    <3>1. ~Queued(t) /\ ~In(t, waitingThreads)
      BY <1>0, <1>3 DEF fair, Queued, Waiting, QueueInv
    <3>2. waitingThreads' = Append(waitingThreads, t)
      BY <1>3, <2>2 DEF fair
    <3>3. /\ Distinct(waitingThreads')
          /\ \A u : In(u, waitingThreads') <=> (In(u, waitingThreads) \/ u = t)
      BY <1>0, <3>1, <3>2, AppendElements DEF QueueInv
    <3>4. \A u \in Threads : Queued(u)' <=> (Queued(u) \/ u = t)
      BY <1>0, <1>3, <2>2 DEF fair, Queued, Waiting
    <3>5. \A u \in Threads : pc'[u] \notin Crowning
      BY <1>0, <1>3, <2>2, Alone DEF fair, Crowning, Inside
    <3> QED
      BY <1>0, <3>3, <3>4, <3>5 DEF QueueInv
  <2> QED
    BY <2>1, <2>2
<1>4. ASSUME NEW t \in Threads, wait(t) \/ sleep(t)
      PROVE QueueInv'
  <2>1. SameQueue
    BY <1>0, <1>4 DEF wait, sleep, SameQueue, Queued, Waiting, object
  <2>2. \A u \in Threads : pc'[u] \in Crowning => pc[u] \in Crowning
    BY <1>0, <1>4 DEF wait, sleep, Crowning, object
  <2> QED
    BY <2>1, <2>2, SameQueueKeeps
<1>5. ASSUME NEW t \in Threads, late(t)
      PROVE QueueInv'
  <2>1. CASE lockGranted[t]
    <3>1. SameQueue
      BY <1>0, <1>5, <2>1 DEF late, SameQueue, Queued, Waiting
    <3>2. \A u \in Threads : pc'[u] \in Crowning => pc[u] \in Crowning
      BY <1>0, <1>5, <2>1 DEF late, Crowning
    <3> QED
      BY <3>1, <3>2, SameQueueKeeps
  <2>2. CASE ~lockGranted[t]
    <3>1. Queued(t) /\ In(t, waitingThreads)
      BY <1>0, <1>5, <2>2 DEF late, Queued, Waiting, QueueInv
    <3>2. waitingThreads' = RemoveFirst(waitingThreads, t)
      BY <1>5, <2>2 DEF late
    <3>3. /\ Distinct(waitingThreads')
          /\ \A u : In(u, waitingThreads') <=> (In(u, waitingThreads) /\ u # t)
      BY <1>0, <3>1, <3>2, RemoveFirstElements DEF QueueInv
    <3>4. \A u \in Threads : Queued(u)' <=> (Queued(u) /\ u # t)
      BY <1>0, <1>5, <2>2 DEF late, Queued, Waiting
    <3>5. \A u \in Threads : pc'[u] \notin Crowning
      BY <1>0, <1>5, <2>2, Alone DEF late, Crowning, Inside
    <3> QED
      BY <1>0, <3>3, <3>4, <3>5 DEF QueueInv
  <2> QED
    BY <2>1, <2>2
<1>6. ASSUME NEW t \in Threads,
             unlock(t) \/ unlock_swap(t) \/ downgrade(t) \/ downgrade_swap(t) \/ look(t)
      PROVE QueueInv'
  <2>1. SameQueue
    BY <1>0, <1>6
    DEF unlock, unlock_swap, downgrade, downgrade_swap, look, SameQueue, Queued, Waiting, object
  <2>2. \A u \in Threads : pc'[u] \in Crowning => pc[u] \in Crowning
    BY <1>0, <1>6 DEF unlock, unlock_swap, downgrade, downgrade_swap, look, Crowning, object
  <2> QED
    BY <2>1, <2>2, SameQueueKeeps
<1>7. ASSUME NEW t \in Threads, grantLocks(t)
      PROVE QueueInv'
  <2>1. SameQueue
    BY <1>0, <1>7 DEF grantLocks, SameQueue, Queued, Waiting
  <2>2. \A u \in Threads : pc'[u] \in Crowning =>
          waitingThreads # <<>> /\ type[Head(waitingThreads)] = "exclusive"
    <3>1. waitingThreads # <<>> => type[Head(waitingThreads)] \in {"shared", "exclusive"}
      BY HeadWaits DEF Queued, Waiting, SyncInv, ModeInv, TypeOK
    <3> QED
      BY <1>0, <1>7, <3>1 DEF grantLocks, Crowning, QueueInv
  <2>3. waitingThreads' = waitingThreads /\ type' = type
    BY <1>7 DEF grantLocks
  <2> QED
    BY <1>0, <2>1, <2>2, <2>3 DEF QueueInv, SameQueue
<1>8. ASSUME NEW t \in Threads, crown(t) \/ wake(t)
      PROVE QueueInv'
  <2>1. SameQueue
    BY <1>0, <1>8 DEF crown, wake, SameQueue, Queued, Waiting
  <2>2. \A u \in Threads : pc'[u] \in Crowning => pc[u] \in Crowning
    BY <1>0, <1>8 DEF crown, wake, Crowning
  <2> QED
    BY <2>1, <2>2, SameQueueKeeps
<1>9. ASSUME NEW t \in Threads, NEW g \in Threads, pc[t] \in {"share", "give"},
             Queued(g), In(g, waitingThreads), Grant(t, g)
      PROVE QueueInv'
  <2>1. waitingThreads' = RemoveFirst(waitingThreads, g)
    BY <1>9 DEF Grant
  <2>2. /\ Distinct(waitingThreads')
        /\ \A u : In(u, waitingThreads') <=> (In(u, waitingThreads) /\ u # g)
    BY <1>0, <1>9, <2>1, RemoveFirstElements DEF QueueInv
  <2>3. \A u \in Threads : Queued(u)' <=> (Queued(u) /\ u # g)
    BY <1>0, <1>9 DEF Grant, Queued, Waiting
  <2>4. \A u \in Threads : pc'[u] \notin Crowning
    BY <1>0, <1>9, Alone DEF Grant, Crowning, Inside
  <2> QED
    BY <1>0, <2>2, <2>3, <2>4 DEF QueueInv
<1>10. ASSUME NEW t \in Threads, share(t)
       PROVE QueueInv'
  <2>1. CASE cntWake > 0
    BY <1>9, <1>10, <2>1, FirstReaderWaits DEF share
  <2>2. CASE ~(cntWake > 0)
    <3>1. SameQueue
      BY <1>0, <1>10, <2>2 DEF share, SameQueue, Queued, Waiting
    <3>2. \A u \in Threads : pc'[u] \in Crowning => pc[u] \in Crowning
      BY <1>0, <1>10, <2>2 DEF share, Crowning
    <3> QED
      BY <3>1, <3>2, SameQueueKeeps
  <2> QED
    BY <2>1, <2>2
<1>11. ASSUME NEW t \in Threads, give(t)
       PROVE QueueInv'
  <2>1. waitingThreads # <<>>
    BY <1>0, <1>11 DEF give, QueueInv, Crowning
  <2> QED
    BY <1>9, <1>11, <2>1, HeadWaits DEF give
<1>12. CASE UNCHANGED vars
  <2>1. SameQueue
    BY <1>12 DEF vars, object, local, SameQueue, Queued
  <2>2. \A u \in Threads : pc'[u] \in Crowning => pc[u] \in Crowning
    BY <1>12 DEF vars, local
  <2> QED
    BY <2>1, <2>2, SameQueueKeeps
<1> QED
  BY <1>1, <1>2, <1>3, <1>4, <1>5, <1>6, <1>7, <1>8, <1>10, <1>11, <1>12, Steps

\* Steps that change neither the counts nor who is counted.
SameCount ==
  /\ waiters' = waiters /\ cntWake' = cntWake
  /\ \A u \in Threads : /\ Counted(u)' <=> Counted(u)
                        /\ Counted(u) => type'[u] = type[u] /\ (Crowned(u)' <=> Crowned(u))

\* Steps that leave waiters, and who is counted, as they are.
LEMMA SameCountKeeps ==
  ASSUME SyncInv, SameCount,
         (\E u \in Threads : pc[u] \in {"share", "wake"}) =>
           \E u \in Threads : pc'[u] \in {"share", "wake"}
  PROVE  CountInv'
<1>1. Readers' = Readers /\ Writers' = Writers
  BY DEF SameCount, Readers, Writers
<1> QED
  BY <1>1 DEF SameCount, SyncInv, CountInv

\* One thread joins or leaves one half of those who are counted.
LEMMA CountOne ==
  ASSUME NEW S, NEW T, NEW t, IsFiniteSet(S), t \notin S, T = S \cup {t}
  PROVE  /\ IsFiniteSet(T)
         /\ Cardinality(S) \in Nat /\ Cardinality(T) = Cardinality(S) + 1
BY FS_AddElement, FS_CardinalityType

\* waiters counts those who wait.
LEMMA CountStep ==
  ASSUME SyncInv, [Next]_vars
  PROVE  CountInv'
<1> USE DEF GoTo, Hold, Refuse, Queue, Return
<1>0. /\ pc = [u \in Threads |-> pc[u]]
      /\ type \in [Threads -> {"none", "shared", "exclusive"}]
      /\ lockGranted \in [Threads -> BOOLEAN]
      /\ waiters \in [shared : Nat, exclusive : Nat] /\ cntWake \in Nat
      /\ CountInv
  BY DEF SyncInv, TypeOK
<1>1. ASSUME NEW t \in Threads, NEW ty \in {"shared", "exclusive"},
             NEW time \in {"none", "limited", "forever"}, NEW label \in {"fast", "swap"},
             Start(t, ty, time, label)
      PROVE CountInv'
  <2>1. SameCount
    BY <1>0, <1>1 DEF Start, SameCount, Counted, Queued, Waiting, Crowned
  <2> QED
    BY <1>0, <1>1, <2>1, SameCountKeeps DEF Start
<1>2. ASSUME NEW t \in Threads, lockAgain(t) \/ fast(t) \/ swap(t) \/ mark(t)
      PROVE CountInv'
  <2>1. SameCount
    BY <1>0, <1>2
    DEF lockAgain, fast, swap, mark, SameCount, Counted, Queued, Waiting, Crowned, object, local
  <2>2. \A u \in Threads : pc[u] \in {"share", "wake"} => pc'[u] = pc[u]
    BY <1>0, <1>2 DEF lockAgain, fast, swap, mark, object, local
  <2> QED
    BY <2>1, <2>2, SameCountKeeps
<1>3. ASSUME NEW t \in Threads, slow(t)
      PROVE CountInv'
  <2>1. /\ \A u \in Threads : Counted(u)' <=> (Counted(u) \/ u = t)
        /\ \A u \in Threads : ~Crowned(u) /\ ~Crowned(u)'
        /\ ~Counted(t)
    BY <1>0, <1>3, Alone DEF slow, Counted, Queued, Waiting, Crowned, Inside
  <2>2. cntWake' = 0 /\ cntWake = 0 /\ type' = type /\ type[t] \in {"shared", "exclusive"}
    BY <1>0, <1>3, NoGrants DEF slow, SyncInv, ModeInv
  <2>3. CASE type[t] = "shared"
    <3>1. Readers' = Readers \cup {t} /\ t \notin Readers /\ Writers' = Writers
      BY <2>1, <2>2, <2>3 DEF Readers, Writers
    <3>2. waiters'.shared = waiters.shared + 1 /\ waiters'.exclusive = waiters.exclusive
      BY <1>0, <1>3, <2>3 DEF slow
    <3>3. Cardinality(Readers') = Cardinality(Readers) + 1
      BY <3>1, CountOne, CountedFinite
    <3> QED
      BY <1>0, <2>2, <3>1, <3>2, <3>3 DEF CountInv
  <2>4. CASE type[t] = "exclusive"
    <3>1. Writers' = Writers \cup {t} /\ t \notin Writers /\ Readers' = Readers
      BY <2>1, <2>2, <2>4 DEF Readers, Writers
    <3>2. waiters'.exclusive = waiters.exclusive + 1 /\ waiters'.shared = waiters.shared
      BY <1>0, <1>3, <2>4 DEF slow
    <3>3. Cardinality(Writers') = Cardinality(Writers) + 1
      BY <3>1, CountOne, CountedFinite
    <3> QED
      BY <1>0, <2>2, <3>1, <3>2, <3>3 DEF CountInv
  <2> QED
    BY <2>2, <2>3, <2>4
<1>4. ASSUME NEW t \in Threads, Counted(t), cntWake = 0, cntWake' = 0, ~Counted(t)',
             type[t] \in {"shared", "exclusive"},
             \A u \in Threads \ {t} : (Counted(u)' <=> Counted(u)) /\ type'[u] = type[u],
             \A u \in Threads : ~Crowned(u) /\ ~Crowned(u)',
             waiters' = [waiters EXCEPT ![type[t]] = @ - 1]
      PROVE CountInv'
  <2>1. CASE type[t] = "shared"
    <3>1. Readers = Readers' \cup {t} /\ t \notin Readers' /\ Writers' = Writers
      BY <1>4, <2>1 DEF Readers, Writers
    <3>2. waiters'.shared = waiters.shared - 1 /\ waiters'.exclusive = waiters.exclusive
      BY <1>0, <1>4, <2>1
    <3>3. IsFiniteSet(Readers')
      BY <3>1, CountedFinite, FS_Subset
    <3>4. Cardinality(Readers') \in Nat /\ Cardinality(Readers) = Cardinality(Readers') + 1
      BY <3>1, <3>3, CountOne
    <3> QED
      BY <1>0, <1>4, <3>1, <3>2, <3>4 DEF CountInv
  <2>2. CASE type[t] = "exclusive"
    <3>1. Writers = Writers' \cup {t} /\ t \notin Writers' /\ Readers' = Readers
      BY <1>4, <2>2 DEF Readers, Writers
    <3>2. waiters'.exclusive = waiters.exclusive - 1 /\ waiters'.shared = waiters.shared
      BY <1>0, <1>4, <2>2
    <3>3. IsFiniteSet(Writers')
      BY <3>1, CountedFinite, FS_Subset
    <3>4. Cardinality(Writers') \in Nat /\ Cardinality(Writers) = Cardinality(Writers') + 1
      BY <3>1, <3>3, CountOne
    <3> QED
      BY <1>0, <1>4, <3>1, <3>2, <3>4 DEF CountInv
  <2> QED
    BY <1>4, <2>1, <2>2
<1>5. ASSUME NEW t \in Threads, fair(t)
      PROVE CountInv'
  <2>1. \A u \in Threads : ~Crowned(u) /\ ~Crowned(u)'
    BY <1>0, <1>5, Alone DEF fair, Crowned, Inside
  <2>2. Counted(t) /\ type[t] \in {"shared", "exclusive"} /\ type' = type
    BY <1>0, <1>5 DEF fair, Counted, SyncInv, ModeInv
  <2>3. cntWake = 0 /\ cntWake' = 0
    BY <1>5, NoGrants DEF fair
  <2>4. CASE waitingThreads = <<>> /\ Compatible(type[t])
    <3>1. /\ ~Counted(t)'
          /\ \A u \in Threads \ {t} : Counted(u)' <=> Counted(u)
          /\ waiters' = [waiters EXCEPT ![type[t]] = @ - 1]
      BY <1>0, <1>5, <2>4 DEF fair, Counted, Queued, Waiting
    <3> QED
      BY <1>4, <2>1, <2>2, <2>3, <3>1
  <2>5. CASE ~(waitingThreads = <<>> /\ Compatible(type[t]))
    <3>1. \A u \in Threads : Counted(u)' <=> Counted(u)
      BY <1>0, <1>5, <2>5 DEF fair, Counted, Queued, Waiting
    <3>2. waiters' = waiters
      BY <1>5, <2>5 DEF fair
    <3>3. SameCount
      BY <2>1, <2>2, <2>3, <3>1, <3>2 DEF SameCount
    <3>4. \A u \in Threads : pc[u] \notin {"share", "wake"}
      BY <1>5, Alone DEF fair, Inside
    <3> QED
      BY <3>3, <3>4, SameCountKeeps
  <2> QED
    BY <2>4, <2>5
<1>6. ASSUME NEW t \in Threads, wait(t) \/ sleep(t)
      PROVE CountInv'
  <2>1. SameCount
    BY <1>0, <1>6 DEF wait, sleep, SameCount, Counted, Queued, Waiting, Crowned, object
  <2>2. \A u \in Threads : pc[u] \in {"share", "wake"} => pc'[u] = pc[u]
    BY <1>0, <1>6 DEF wait, sleep, object
  <2> QED
    BY <2>1, <2>2, SameCountKeeps
<1>7. ASSUME NEW t \in Threads, late(t)
      PROVE CountInv'
  <2>1. \A u \in Threads : ~Crowned(u) /\ ~Crowned(u)'
    BY <1>0, <1>7, Alone DEF late, Crowned, Inside
  <2>2. cntWake = 0 /\ cntWake' = 0
    BY <1>7, NoGrants DEF late
  <2>3. CASE lockGranted[t]
    <3>1. SameCount
      BY <1>0, <1>7, <2>1, <2>3 DEF late, SameCount, Counted, Queued, Waiting
    <3>2. \A u \in Threads : pc[u] \notin {"share", "wake"}
      BY <1>7, Alone DEF late, Inside
    <3> QED
      BY <3>1, <3>2, SameCountKeeps
  <2>4. CASE ~lockGranted[t]
    <3>1. /\ Counted(t) /\ ~Counted(t)'
          /\ \A u \in Threads \ {t} : (Counted(u)' <=> Counted(u)) /\ type'[u] = type[u]
          /\ waiters' = [waiters EXCEPT ![type[t]] = @ - 1]
      BY <1>0, <1>7, <2>4 DEF late, Counted, Queued, Waiting
    <3>2. type[t] \in {"shared", "exclusive"}
      BY <1>0, <1>7 DEF late, SyncInv, ModeInv
    <3> QED
      BY <1>4, <2>1, <2>2, <3>1, <3>2
  <2> QED
    BY <2>3, <2>4
<1>8. ASSUME NEW t \in Threads,
             unlock(t) \/ unlock_swap(t) \/ downgrade(t) \/ downgrade_swap(t) \/ look(t)
      PROVE CountInv'
  <2>1. SameCount
    BY <1>0, <1>8
    DEF unlock, unlock_swap, downgrade, downgrade_swap, look, SameCount, Counted, Queued, Waiting,
        Crowned, object
  <2>2. \A u \in Threads : pc[u] \in {"share", "wake"} => pc'[u] = pc[u]
    BY <1>0, <1>8 DEF unlock, unlock_swap, downgrade, downgrade_swap, look, object
  <2> QED
    BY <2>1, <2>2, SameCountKeeps
<1>9. ASSUME NEW t \in Threads, grantLocks(t)
      PROVE CountInv'
  <2>1. /\ \A u \in Threads : (Counted(u)' <=> Counted(u)) /\ type'[u] = type[u]
        /\ \A u \in Threads : ~Crowned(u) /\ ~Crowned(u)'
    BY <1>0, <1>9, Alone DEF grantLocks, Counted, Queued, Waiting, Crowned, Inside
  <2>2. Readers' = Readers /\ Writers' = Writers
    BY <2>1 DEF Readers, Writers
  <2>3. cntWake = 0
    BY <1>9, NoGrants DEF grantLocks
  <2>4. \/ waiters' = waiters /\ cntWake' = cntWake
        \/ /\ waiters'.shared = 0 /\ waiters'.exclusive = waiters.exclusive
           /\ cntWake' = waiters.shared /\ pc'[t] = "share"
    BY <1>0, <1>9 DEF grantLocks
  <2> QED
    BY <1>0, <2>2, <2>3, <2>4 DEF CountInv
<1>10. ASSUME NEW t \in Threads, share(t)
       PROVE CountInv'
  <2>1. \A u \in Threads : ~Crowned(u) /\ ~Crowned(u)'
    BY <1>0, <1>10, Alone DEF share, Grant, Crowned, Inside
  <2>2. CASE cntWake > 0
    <3>1. PICK g \in Threads : g = FirstReader /\ Queued(g) /\ type[g] = "shared"
      BY <2>2, FirstReaderWaits
    <3>2. /\ Grant(t, g) /\ cntWake' = cntWake - 1 /\ waiters' = waiters /\ type' = type
          /\ pc[t] = "share"
      BY <1>10, <2>2, <3>1 DEF share
    <3>3. /\ Counted(g) /\ ~Counted(g)'
          /\ \A u \in Threads \ {g} : Counted(u)' <=> Counted(u)
      BY <1>0, <3>1, <3>2 DEF Grant, Counted, Queued, Waiting
    <3>4. Readers = Readers' \cup {g} /\ g \notin Readers' /\ Writers' = Writers
      BY <2>1, <3>1, <3>2, <3>3 DEF Readers, Writers
    <3>5. IsFiniteSet(Readers')
      BY <3>4, CountedFinite, FS_Subset
    <3>6. Cardinality(Readers') \in Nat /\ Cardinality(Readers) = Cardinality(Readers') + 1
      BY <3>4, <3>5, CountOne
    <3>7. pc'[t] = "wake"
      BY <1>0, <3>2 DEF Grant
    <3> QED
      BY <1>0, <3>2, <3>4, <3>6, <3>7 DEF CountInv
  <2>3. CASE ~(cntWake > 0)
    <3>1. SameCount
      BY <1>0, <1>10, <2>1, <2>3 DEF share, SameCount, Counted, Queued, Waiting
    <3>2. Readers' = Readers /\ Writers' = Writers /\ waiters' = waiters /\ cntWake' = cntWake
      BY <3>1 DEF SameCount, Readers, Writers
    <3> QED
      BY <1>0, <2>3, <3>2 DEF CountInv
  <2> QED
    BY <2>2, <2>3
<1>11. ASSUME NEW t \in Threads, crown(t)
       PROVE CountInv'
  <2> DEFINE h == Head(waitingThreads)
  <2>1. waitingThreads # <<>> /\ type[h] = "exclusive"
    BY <1>11 DEF crown, SyncInv, QueueInv, Crowning
  <2>2. h \in Threads /\ Queued(h)
    BY <2>1, HeadWaits
  <2>3. \A u \in Threads : /\ (Counted(u)' <=> Counted(u)) /\ type'[u] = type[u]
                           /\ ~Crowned(u) /\ (Crowned(u)' <=> u = h)
    BY <1>0, <1>11, Alone DEF crown, Counted, Queued, Waiting, Crowned, Inside
  <2>4. waiters'.exclusive = waiters.exclusive - 1 /\ waiters'.shared = waiters.shared
        /\ cntWake' = 0 /\ cntWake = 0
    BY <1>0, <1>11, NoGrants DEF crown
  <2> HIDE DEF h
  <2>5. Writers = Writers' \cup {h} /\ h \notin Writers' /\ Readers' = Readers
    BY <2>1, <2>2, <2>3 DEF Readers, Writers, Counted
  <2>6. IsFiniteSet(Writers')
    BY <2>5, CountedFinite, FS_Subset
  <2>7. Cardinality(Writers') \in Nat /\ Cardinality(Writers) = Cardinality(Writers') + 1
    BY <2>5, <2>6, CountOne
  <2> QED
    BY <1>0, <2>4, <2>5, <2>7 DEF CountInv
<1>12. ASSUME NEW t \in Threads, give(t)
       PROVE CountInv'
  <2> DEFINE h == Head(waitingThreads)
  <2>1. waitingThreads # <<>> /\ type[h] = "exclusive"
    BY <1>12 DEF give, SyncInv, QueueInv, Crowning
  <2>2. h \in Threads /\ Queued(h)
    BY <2>1, HeadWaits
  <2>3. \A u \in Threads : ~Crowned(u)'
    BY <1>0, <1>12, Alone DEF give, Grant, Crowned, Inside
  <2>4. \A u \in Threads : Crowned(u) <=> u = h
    BY <1>12 DEF give, Crowned
  <2>5. \A u \in Threads : (Counted(u)' <=> (Counted(u) /\ u # h)) /\ type'[u] = type[u]
    BY <1>0, <1>12, <2>2 DEF give, Grant, Counted, Queued, Waiting
  <2>6. waiters' = waiters /\ cntWake' = 0 /\ cntWake = 0
    BY <1>12, NoGrants DEF give
  <2> HIDE DEF h
  <2>7. Readers' = Readers /\ Writers' = Writers
    BY <2>1, <2>3, <2>4, <2>5 DEF Readers, Writers
  <2> QED
    BY <1>0, <2>6, <2>7 DEF CountInv
<1>13. ASSUME NEW t \in Threads, wake(t)
       PROVE CountInv'
  <2>1. SameCount
    BY <1>0, <1>13 DEF wake, SameCount, Counted, Queued, Waiting, Crowned
  <2>2. pc'[t] = "share"
    BY <1>0, <1>13 DEF wake
  <2> QED
    BY <2>1, <2>2, SameCountKeeps
<1>14. CASE UNCHANGED vars
  <2>1. SameCount
    BY <1>14 DEF vars, object, local, SameCount, Counted, Queued, Crowned
  <2> QED
    BY <1>14, <2>1, SameCountKeeps DEF vars, local
<1> QED
  BY <1>1, <1>2, <1>3, <1>5, <1>6, <1>7, <1>8, <1>9, <1>10, <1>11, <1>12, <1>13, <1>14, Steps

-----------------------------------------------------------------------------
(* The steps, as changes of who holds the lock.                              *)

Quiet == UNCHANGED <<Held, lockState, cntWake, Crowners>>

Takes(t, ty) ==
  /\ Held[t] = "none" /\ Compatible(ty)
  /\ Held' = [Held EXCEPT ![t] = ty] /\ lockState' = Taken(ty)
  /\ UNCHANGED <<cntWake, Crowners>>

Leaves(t) ==
  /\ Held[t] # "none"
  /\ Held' = [Held EXCEPT ![t] = "none"]
  /\ lockState' = IF Held[t] = "shared" THEN lockState - 1 ELSE 0
  /\ UNCHANGED <<cntWake, Crowners>>

Lowers(t) ==
  /\ Held[t] = "exclusive"
  /\ Held' = [Held EXCEPT ![t] = "shared"] /\ lockState' = 1
  /\ UNCHANGED <<cntWake, Crowners>>

\* grantLocks takes the lock for those it is going to grant it to.
AdmitsReaders ==
  /\ cntWake = 0 /\ lockState >= 0
  /\ cntWake' \in Nat /\ lockState' = lockState + cntWake'
  /\ UNCHANGED <<Held, Crowners>>

AdmitsWriter(t) ==
  /\ lockState = 0 /\ Crowners = {}
  /\ lockState' = -1 /\ Crowners' = {t}
  /\ UNCHANGED <<Held, cntWake>>

GrantsReader(g) ==
  /\ cntWake > 0 /\ Held[g] = "none"
  /\ Held' = [Held EXCEPT ![g] = "shared"] /\ cntWake' = cntWake - 1
  /\ UNCHANGED <<lockState, Crowners>>

GrantsWriter(t, h) ==
  /\ Crowners = {t} /\ Held[h] = "none"
  /\ Held' = [Held EXCEPT ![h] = "exclusive"] /\ Crowners' = {}
  /\ UNCHANGED <<lockState, cntWake>>

\* A thread holds the lock in one of the two ways, or not at all.
LEMMA HeldType ==
  ASSUME SyncInv
  PROVE  Held \in [Threads -> {"none", "shared", "exclusive"}]
BY DEF SyncInv, TypeOK, Held

\* Every step is one of these.
LEMMA HeldStep ==
  ASSUME SyncInv, [Next]_vars
  PROVE  \/ Quiet \/ AdmitsReaders
         \/ \E t \in Threads : \/ Takes(t, "shared") \/ Takes(t, "exclusive")
                               \/ Leaves(t) \/ Lowers(t)
                               \/ AdmitsWriter(t) \/ GrantsReader(t)
                               \/ \E h \in Threads : GrantsWriter(t, h)
<1> USE DEF GoTo, Hold, Refuse, Queue, Return
<1>0. /\ pc = [u \in Threads |-> pc[u]]
      /\ type \in [Threads -> {"none", "shared", "exclusive"}]
      /\ lockGranted \in [Threads -> BOOLEAN]
      /\ waiters \in [shared : Nat, exclusive : Nat] /\ cntWake \in Nat /\ lockState \in Int
      /\ ModeInv
  BY DEF SyncInv, TypeOK
<1>1. ASSUME NEW t \in Threads, NEW ty \in {"shared", "exclusive"},
             NEW time \in {"none", "limited", "forever"}, NEW label \in {"fast", "swap"},
             Start(t, ty, time, label)
      PROVE Quiet
  <2>1. exclusiveThread # t
    <3>1. waitingThreads # <<>> => Queued(Head(waitingThreads))
      BY HeadWaits
    <3> QED
      BY <1>1, <3>1 DEF Start, SyncInv, OwnerInv, Owns, Crowned, Queued, Waiting
  <2> QED
    BY <1>0, <1>1, <2>1 DEF Start, Quiet, Held, Crowners, Crowning
<1>2. ASSUME NEW t \in Threads, lockAgain(t) \/ mark(t) \/ slow(t)
      PROVE Quiet
  BY <1>0, <1>2 DEF lockAgain, mark, slow, Quiet, Held, Crowners, Crowning, local
<1>3. ASSUME NEW t \in Threads, fast(t)
      PROVE Quiet
  BY <1>0, <1>3 DEF fast, Quiet, Held, Crowners, Crowning, object
<1>4. ASSUME NEW t \in Threads, swap(t)
      PROVE Quiet \/ Takes(t, "shared") \/ Takes(t, "exclusive")
  <2>1. type[t] \in {"shared", "exclusive"}
    BY <1>0, <1>4 DEF swap, ModeInv
  <2>2. CASE Compatible(type[t])
    <3>1. Held[t] = "none" /\ Held' = [Held EXCEPT ![t] = type[t]] /\ Crowners' = Crowners
      BY <1>0, <1>4, <2>1, <2>2 DEF swap, Held, Crowners, Crowning
    <3> QED
      BY <1>4, <2>1, <2>2, <3>1 DEF swap, Takes
  <2>3. CASE ~Compatible(type[t])
    BY <1>0, <1>4, <2>3 DEF swap, Quiet, Held, Crowners, Crowning
  <2> QED
    BY <2>2, <2>3
<1>5. ASSUME NEW t \in Threads, fair(t)
      PROVE Quiet \/ Takes(t, "shared") \/ Takes(t, "exclusive")
  <2>1. type[t] \in {"shared", "exclusive"}
    BY <1>0, <1>5 DEF fair, ModeInv
  <2>2. CASE waitingThreads = <<>> /\ Compatible(type[t])
    <3>1. /\ pc[t] = "fair" /\ pc' = [pc EXCEPT ![t] = "held"]
          /\ UNCHANGED <<type, lockGranted, cntWake>>
          /\ lockState' = Taken(type[t])
      BY <1>5, <2>2 DEF fair
    <3>2. Held[t] = "none" /\ Held' = [Held EXCEPT ![t] = type[t]]
      BY <1>0, <3>1 DEF Held
    <3>3. Crowners' = Crowners
      BY <1>0, <3>1 DEF Crowners, Crowning
    <3> QED
      BY <2>1, <2>2, <3>1, <3>2, <3>3 DEF Takes
  <2>3. CASE ~(waitingThreads = <<>> /\ Compatible(type[t]))
    BY <1>0, <1>5, <2>3 DEF fair, Quiet, Held, Crowners, Crowning
  <2> QED
    BY <2>2, <2>3
<1>6. ASSUME NEW t \in Threads, wait(t) \/ sleep(t)
      PROVE Quiet
  BY <1>0, <1>6 DEF wait, sleep, Quiet, Held, Crowners, Crowning, object
<1>7. ASSUME NEW t \in Threads, late(t)
      PROVE Quiet
  BY <1>0, <1>7 DEF late, Quiet, Held, Crowners, Crowning
<1>8. ASSUME NEW t \in Threads, unlock(t) \/ downgrade(t) \/ look(t)
      PROVE Quiet
  BY <1>0, <1>8 DEF unlock, downgrade, look, Quiet, Held, Crowners, Crowning, object
<1>9. ASSUME NEW t \in Threads, unlock_swap(t)
      PROVE Leaves(t)
  <2>1. Held[t] = type[t] /\ type[t] # "none"
    BY <1>0, <1>9 DEF unlock_swap, Held, ModeInv
  <2>2. Held' = [Held EXCEPT ![t] = "none"] /\ Crowners' = Crowners
    BY <1>0, <1>9 DEF unlock_swap, Held, Crowners, Crowning
  <2> QED
    BY <1>9, <2>1, <2>2 DEF unlock_swap, Leaves
<1>10. ASSUME NEW t \in Threads, downgrade_swap(t)
       PROVE Lowers(t)
  <2>1. Held[t] = "exclusive"
    BY <1>0, <1>10 DEF downgrade_swap, Held, ModeInv
  <2>2. Held' = [Held EXCEPT ![t] = "shared"] /\ Crowners' = Crowners
    BY <1>0, <1>10 DEF downgrade_swap, Held, Crowners, Crowning
  <2> QED
    BY <1>10, <2>1, <2>2 DEF downgrade_swap, Lowers
<1>11. ASSUME NEW t \in Threads, grantLocks(t)
       PROVE Quiet \/ AdmitsReaders \/ AdmitsWriter(t)
  <2>1. Held' = Held
    BY <1>0, <1>11 DEF grantLocks, Held
  <2>2. cntWake = 0 /\ Crowners = {}
    BY <1>11, NoGrants, Alone DEF grantLocks, Crowners, Crowning, Inside
  <2>3. CASE waitingThreads = <<>> \/ ~Compatible(type[Head(waitingThreads)])
    BY <1>0, <1>11, <2>1, <2>3 DEF grantLocks, Quiet, Crowners, Crowning
  <2>4. CASE /\ ~(waitingThreads = <<>> \/ ~Compatible(type[Head(waitingThreads)]))
             /\ type[Head(waitingThreads)] = "shared"
    <3>1. /\ cntWake' = waiters.shared /\ lockState' = lockState + waiters.shared
          /\ lockState >= 0
      BY <1>11, <2>4 DEF grantLocks, Compatible
    <3>2. Crowners' = Crowners
      BY <1>0, <1>11, <2>4 DEF grantLocks, Crowners, Crowning
    <3> QED
      BY <1>0, <2>1, <2>2, <3>1, <3>2 DEF AdmitsReaders
  <2>5. CASE /\ ~(waitingThreads = <<>> \/ ~Compatible(type[Head(waitingThreads)]))
             /\ type[Head(waitingThreads)] # "shared"
    <3>1. lockState = 0 /\ lockState' = -1 /\ cntWake' = cntWake
      BY <1>11, <2>5 DEF grantLocks, Compatible
    <3>2. Crowners' = {t}
      BY <1>0, <1>11, <2>2, <2>5 DEF grantLocks, Crowners, Crowning
    <3> QED
      BY <2>1, <2>2, <3>1, <3>2 DEF AdmitsWriter
  <2> QED
    BY <2>3, <2>4, <2>5
<1>12. ASSUME NEW t \in Threads, share(t)
       PROVE Quiet \/ \E g \in Threads : GrantsReader(g)
  <2>1. CASE cntWake > 0
    <3>1. PICK g \in Threads : g = FirstReader /\ Queued(g) /\ type[g] = "shared"
      BY <2>1, FirstReaderWaits
    <3>2. /\ Grant(t, g) /\ cntWake' = cntWake - 1 /\ type' = type /\ lockState' = lockState
          /\ pc[t] = "share"
      BY <1>12, <2>1, <3>1 DEF share
    <3>3. Held[g] = "none" /\ Held' = [Held EXCEPT ![g] = "shared"]
      BY <1>0, <3>1, <3>2 DEF Grant, Held, Queued, Waiting
    <3>4. Crowners' = Crowners
      BY <1>0, <3>2 DEF Grant, Crowners, Crowning
    <3> QED
      BY <2>1, <3>2, <3>3, <3>4 DEF GrantsReader
  <2>2. CASE ~(cntWake > 0)
    BY <1>0, <1>12, <2>2 DEF share, Quiet, Held, Crowners, Crowning
  <2> QED
    BY <2>1, <2>2
<1>13. ASSUME NEW t \in Threads, crown(t) \/ wake(t)
       PROVE Quiet
  BY <1>0, <1>13 DEF crown, wake, Quiet, Held, Crowners, Crowning
<1>14. ASSUME NEW t \in Threads, give(t)
       PROVE \E h \in Threads : GrantsWriter(t, h)
  <2>1. waitingThreads # <<>> /\ type[Head(waitingThreads)] = "exclusive"
    BY <1>14 DEF give, SyncInv, QueueInv, Crowning
  <2>2. PICK h \in Threads : h = Head(waitingThreads) /\ Queued(h) /\ type[h] = "exclusive"
    BY <2>1, HeadWaits
  <2>3. /\ Grant(t, h) /\ cntWake' = cntWake /\ type' = type /\ lockState' = lockState
        /\ pc[t] = "give"
    BY <1>14, <2>2 DEF give
  <2>4. Held[h] = "none" /\ Held' = [Held EXCEPT ![h] = "exclusive"]
    BY <1>0, <2>2, <2>3 DEF Grant, Held, Queued, Waiting
  <2>5. \A u \in Threads : pc[u] \in Crowning => u = t
    BY <2>3, Alone DEF Inside, Crowning
  <2>6. Crowners = {t} /\ Crowners' = {}
    BY <1>0, <2>3, <2>5 DEF Grant, Crowners, Crowning
  <2> QED
    BY <2>2, <2>3, <2>4, <2>6 DEF GrantsWriter
<1>15. CASE UNCHANGED vars
  BY <1>15 DEF vars, object, local, Quiet, Held, Crowners
<1> QED
  BY <1>1, <1>2, <1>3, <1>4, <1>5, <1>6, <1>7, <1>8, <1>9, <1>10, <1>11, <1>12, <1>13, <1>14, <1>15,
     Steps

\* lockState follows who holds the lock.
LEMMA StateStep ==
  ASSUME SyncInv, [Next]_vars
  PROVE  StateInv'
<1>0. /\ Held \in [Threads -> {"none", "shared", "exclusive"}]
      /\ cntWake \in Nat /\ lockState \in Int /\ StateInv
  BY HeldType DEF SyncInv, TypeOK
<1>1. IsFiniteSet(Sharing) /\ Cardinality(Sharing) \in Nat
  BY SyncAssumption, FS_Subset, FS_CardinalityType DEF Sharing
<1>2. Cardinality(Sharing) = 0 => Sharing = {}
  BY <1>1, FS_EmptySet
<1>3. Cardinality({}) = 0
  BY FS_EmptySet
<1>4. CASE Quiet
  BY <1>0, <1>4 DEF Quiet, StateInv, Exclusive, Sharing, Excluding
<1>5. CASE AdmitsReaders
  <2>1. ~Exclusive
    BY <1>5 DEF AdmitsReaders, Exclusive
  <2>2. Sharing' = Sharing /\ Excluding' = Excluding
    BY <1>5 DEF AdmitsReaders, Sharing, Excluding
  <2> QED
    BY <1>0, <1>1, <1>5, <2>1, <2>2 DEF AdmitsReaders, StateInv
<1>6. ASSUME NEW t \in Threads, Takes(t, "shared")
      PROVE StateInv'
  <2>1. ~Exclusive
    BY <1>6 DEF Takes, Compatible, Exclusive
  <2>2. Sharing' = Sharing \cup {t} /\ t \notin Sharing /\ Excluding' = Excluding
    BY <1>0, <1>6 DEF Takes, Sharing, Excluding
  <2>3. Cardinality(Sharing') = Cardinality(Sharing) + 1
    BY <1>1, <2>2, CountOne
  <2>4. Excluding = {} /\ Crowners = {} /\ lockState = Cardinality(Sharing) + cntWake
    BY <1>0, <2>1 DEF StateInv
  <2>5. lockState' = lockState + 1 /\ cntWake' = cntWake /\ Crowners' = Crowners
    BY <1>6 DEF Takes, Taken
  <2>6. lockState' = Cardinality(Sharing') + cntWake'
    BY <1>0, <1>1, <2>3, <2>4, <2>5
  <2> QED
    BY <2>2, <2>4, <2>5, <2>6 DEF StateInv
<1>7. ASSUME NEW t \in Threads, Takes(t, "exclusive")
      PROVE StateInv'
  <2>1. lockState = 0 /\ lockState' = -1 /\ ~Exclusive
    BY <1>7 DEF Takes, Compatible, Taken, Exclusive
  <2>2. Excluding = {} /\ Crowners = {} /\ Cardinality(Sharing) + cntWake = 0
    BY <1>0, <2>1 DEF StateInv
  <2>3. Cardinality(Sharing) = 0 /\ cntWake = 0
    BY <1>0, <1>1, <2>2
  <2>4. Sharing' = {} /\ Excluding' = {t}
    BY <1>0, <1>2, <1>7, <2>2, <2>3 DEF Takes, Sharing, Excluding
  <2> QED
    BY <1>7, <2>1, <2>2, <2>3, <2>4 DEF Takes, StateInv, Exclusive
<1>8. ASSUME NEW t \in Threads, Leaves(t)
      PROVE StateInv'
  <2>1. CASE Held[t] = "shared"
    <3>1. t \in Sharing /\ ~Exclusive
      BY <2>1 DEF Sharing, Exclusive
    <3>2. Sharing = Sharing' \cup {t} /\ t \notin Sharing' /\ Excluding' = Excluding
      BY <1>0, <1>8, <2>1 DEF Leaves, Sharing, Excluding
    <3>3. IsFiniteSet(Sharing')
      BY <1>1, <3>2, FS_Subset
    <3>4. Cardinality(Sharing') \in Nat /\ Cardinality(Sharing) = Cardinality(Sharing') + 1
      BY <3>2, <3>3, CountOne
    <3> QED
      BY <1>0, <1>8, <2>1, <3>1, <3>2, <3>4 DEF Leaves, StateInv
  <2>2. CASE Held[t] = "exclusive"
    <3>1. t \in Excluding
      BY <2>2 DEF Excluding
    <3>2. Excluding = {t} /\ Crowners = {} /\ Sharing = {} /\ cntWake = 0
      BY <1>0, <3>1 DEF StateInv, Exclusive
    <3>3. Sharing' = {} /\ Excluding' = {}
      BY <1>0, <1>8, <3>2 DEF Leaves, Sharing, Excluding
    <3> QED
      BY <1>3, <1>8, <2>2, <3>2, <3>3 DEF Leaves, StateInv
  <2> QED
    BY <1>0, <1>8, <2>1, <2>2 DEF Leaves
<1>9. ASSUME NEW t \in Threads, Lowers(t)
      PROVE StateInv'
  <2>1. t \in Excluding
    BY <1>9 DEF Lowers, Excluding
  <2>2. Excluding = {t} /\ Crowners = {} /\ Sharing = {} /\ cntWake = 0
    BY <1>0, <2>1 DEF StateInv, Exclusive
  <2>3. Sharing' = {t} /\ Excluding' = {}
    BY <1>0, <1>9, <2>2 DEF Lowers, Sharing, Excluding
  <2>4. Cardinality(Sharing') = 1
    BY <2>3, FS_Singleton
  <2> QED
    BY <1>9, <2>2, <2>3, <2>4 DEF Lowers, StateInv
<1>10. ASSUME NEW t \in Threads, AdmitsWriter(t)
       PROVE StateInv'
  <2>1. Excluding = {} /\ Cardinality(Sharing) + cntWake = 0
    BY <1>0, <1>10 DEF AdmitsWriter, StateInv, Exclusive
  <2>2. Cardinality(Sharing) = 0 /\ cntWake = 0
    BY <1>0, <1>1, <2>1
  <2>3. Sharing' = Sharing /\ Excluding' = Excluding
    BY <1>10 DEF AdmitsWriter, Sharing, Excluding
  <2> QED
    BY <1>2, <1>10, <2>1, <2>2, <2>3 DEF AdmitsWriter, StateInv, Exclusive
<1>11. ASSUME NEW g \in Threads, GrantsReader(g)
       PROVE StateInv'
  <2>1. ~Exclusive
    BY <1>11 DEF GrantsReader, Exclusive
  <2>2. Sharing' = Sharing \cup {g} /\ g \notin Sharing /\ Excluding' = Excluding
    BY <1>0, <1>11 DEF GrantsReader, Sharing, Excluding
  <2>3. Cardinality(Sharing') = Cardinality(Sharing) + 1
    BY <1>1, <2>2, CountOne
  <2> QED
    BY <1>0, <1>1, <1>11, <2>1, <2>2, <2>3 DEF GrantsReader, StateInv
<1>12. ASSUME NEW t \in Threads, NEW h \in Threads, GrantsWriter(t, h)
       PROVE StateInv'
  <2>1. t \in Crowners
    BY <1>12 DEF GrantsWriter
  <2>2. lockState = -1 /\ Sharing = {} /\ cntWake = 0 /\ Excluding = {}
    BY <1>0, <2>1 DEF StateInv, Exclusive
  <2>3. Sharing' = {} /\ Excluding' = {h}
    BY <1>0, <1>12, <2>2 DEF GrantsWriter, Sharing, Excluding
  <2> QED
    BY <1>12, <2>2, <2>3 DEF GrantsWriter, StateInv, Exclusive
<1> QED
  BY <1>4, <1>5, <1>6, <1>7, <1>8, <1>9, <1>10, <1>11, <1>12, HeldStep

-----------------------------------------------------------------------------
(* exclusiveThread.                                                          *)

\* The thread it names waits for nothing, or was or is being granted the lock.
LEMMA OwnerPlace ==
  ASSUME SyncInv, NEW u \in Threads, exclusiveThread = u
  PROVE  /\ type[u] = "exclusive"
         /\ \/ pc[u] = "held"
            \/ pc[u] \in Waiting /\ lockGranted[u]
            \/ waitingThreads # <<>> /\ Crowned(u) /\ Queued(u)
BY HeadWaits DEF SyncInv, OwnerInv, Owns, Crowned

\* Steps that leave exclusiveThread alone, and the thread it names in its place.
LEMMA SameOwnerKeeps ==
  ASSUME SyncInv, UNCHANGED <<exclusiveThread, monitorCount>>,
         \A u \in Threads : exclusiveThread = u => Owns(u)'
  PROVE  OwnerInv'
BY DEF SyncInv, OwnerInv

\* exclusiveThread is set by who takes the lock, or for who is about to get it.
LEMMA OwnerStep ==
  ASSUME SyncInv, [Next]_vars
  PROVE  OwnerInv'
<1> USE DEF GoTo, Hold, Refuse, Queue, Return
<1>0. /\ pc = [u \in Threads |-> pc[u]]
      /\ type \in [Threads -> {"none", "shared", "exclusive"}]
      /\ lockGranted \in [Threads -> BOOLEAN]
      /\ monitorCount \in Nat /\ NoThread \notin Threads
      /\ ModeInv
  BY SyncAssumption DEF SyncInv, TypeOK
<1> DEFINE o == exclusiveThread
<1>1. ASSUME NEW t \in Threads, NEW ty \in {"shared", "exclusive"},
             NEW time \in {"none", "limited", "forever"}, NEW label \in {"fast", "swap"},
             Start(t, ty, time, label)
      PROVE OwnerInv'
  <2>1. o # t
    BY <1>1, OwnerPlace DEF Start, Queued, Waiting
  <2>2. /\ UNCHANGED <<exclusiveThread, monitorCount, waitingThreads, lockGranted>>
        /\ \A u \in Threads \ {t} : pc'[u] = pc[u] /\ type'[u] = type[u]
        /\ \A u \in Threads : pc'[u] = "give" <=> pc[u] = "give"
    BY <1>0, <1>1, <2>1 DEF Start
  <2>3. \A u \in Threads : o = u => Owns(u)'
    BY <2>1, <2>2, OwnerPlace DEF Owns, Crowned
  <2> QED
    BY <2>2, <2>3, SameOwnerKeeps
<1>2. ASSUME NEW t \in Threads, lockAgain(t)
      PROVE OwnerInv'
  BY <1>0, <1>2 DEF lockAgain, local, SyncInv, OwnerInv, Owns, Crowned
<1>3. ASSUME NEW t \in Threads, fast(t) \/ swap(t) \/ slow(t) \/ look(t) \/ unlock_swap(t) \/ downgrade_swap(t)
      PROVE OwnerInv'
  <2>1. o # t
    BY <1>3, OwnerPlace
    DEF fast, swap, slow, look, unlock_swap, downgrade_swap, Queued, Waiting
  <2>2. /\ UNCHANGED <<exclusiveThread, monitorCount, waitingThreads, lockGranted>>
        /\ \A u \in Threads \ {t} : pc'[u] = pc[u] /\ type'[u] = type[u]
        /\ \A u \in Threads : pc'[u] = "give" <=> pc[u] = "give"
    BY <1>0, <1>3 DEF fast, swap, slow, look, unlock_swap, downgrade_swap, object
  <2>3. \A u \in Threads : o = u => Owns(u)'
    BY <2>1, <2>2, OwnerPlace DEF Owns, Crowned
  <2> QED
    BY <2>2, <2>3, SameOwnerKeeps
<1>4. ASSUME NEW t \in Threads, mark(t)
      PROVE OwnerInv'
  BY <1>0, <1>4 DEF mark, ModeInv, OwnerInv, Owns
<1>5. ASSUME NEW t \in Threads, fair(t)
      PROVE OwnerInv'
  <2>1. o # t /\ type[t] # "none" /\ pc[t] = "fair"
    BY <1>0, <1>5, OwnerPlace DEF fair, Queued, Waiting, ModeInv
  <2>2. \A u \in Threads : ~Crowned(u)
    BY <1>5, Alone DEF fair, Crowned, Inside
  <2>3. CASE /\ waitingThreads = <<>> /\ Compatible(type[t]) /\ type[t] # "shared"
    <3>1. /\ exclusiveThread' = t /\ type' = type /\ pc' = [pc EXCEPT ![t] = "held"]
      BY <1>5, <2>3 DEF fair
    <3>2. type[t] = "exclusive"
      BY <1>0, <2>1, <2>3
    <3> QED
      BY <1>0, <3>1, <3>2 DEF OwnerInv, Owns
  <2>4. CASE ~(waitingThreads = <<>> /\ Compatible(type[t]) /\ type[t] # "shared")
    <3>1. /\ UNCHANGED <<exclusiveThread, monitorCount, type>>
          /\ \A u \in Threads \ {t} : pc'[u] = pc[u] /\ lockGranted'[u] = lockGranted[u]
      BY <1>0, <1>5, <2>4 DEF fair
    <3>2. \A u \in Threads : o = u => Owns(u)'
      BY <2>1, <2>2, <3>1, OwnerPlace DEF Owns
    <3> QED
      BY <3>1, <3>2, SameOwnerKeeps
  <2> QED
    BY <2>3, <2>4
<1>6. ASSUME NEW t \in Threads, wait(t) \/ sleep(t)
      PROVE OwnerInv'
  <2>1. /\ UNCHANGED <<exclusiveThread, monitorCount, waitingThreads, lockGranted, type>>
        /\ \A u \in Threads \ {t} : pc'[u] = pc[u]
        /\ pc[t] \in Waiting /\ pc'[t] \in Waiting \cup {"held"}
        /\ \A u \in Threads : pc'[u] = "give" <=> pc[u] = "give"
    BY <1>0, <1>6 DEF wait, sleep, object, Waiting
  <2>2. \A u \in Threads : o = u => Owns(u)'
    BY <2>1, OwnerPlace DEF Owns, Crowned, Waiting
  <2> QED
    BY <2>1, <2>2, SameOwnerKeeps
<1>7. ASSUME NEW t \in Threads, late(t)
      PROVE OwnerInv'
  <2>1. \A u \in Threads : ~Crowned(u)
    BY <1>7, Alone DEF late, Crowned, Inside
  <2>2. /\ UNCHANGED <<exclusiveThread, monitorCount, lockGranted>>
        /\ \A u \in Threads \ {t} : pc'[u] = pc[u] /\ type'[u] = type[u]
        /\ pc[t] = "late" /\ (lockGranted[t] => pc'[t] = "held" /\ type'[t] = type[t])
    BY <1>0, <1>7 DEF late
  <2>3. \A u \in Threads : o = u => Owns(u)'
    BY <2>1, <2>2, OwnerPlace DEF Owns
  <2> QED
    BY <2>2, <2>3, SameOwnerKeeps
<1>8. ASSUME NEW t \in Threads, unlock(t)
      PROVE OwnerInv'
  <2>1. CASE monitorCount > 0
    BY <1>0, <1>8, <2>1 DEF unlock, SyncInv, OwnerInv, Owns, Crowned
  <2>2. CASE ~(monitorCount > 0)
    BY <1>0, <1>8, <2>2 DEF unlock, OwnerInv
  <2> QED
    BY <2>1, <2>2
<1>9. ASSUME NEW t \in Threads, downgrade(t)
      PROVE OwnerInv'
  BY <1>0, <1>9 DEF downgrade, OwnerInv
<1>10. ASSUME NEW t \in Threads, grantLocks(t) \/ wake(t)
       PROVE OwnerInv'
  <2>1. \A u \in Threads : ~Crowned(u)
    BY <1>10, Alone DEF grantLocks, wake, Crowned, Inside
  <2>2. o # t
    BY <1>10, OwnerPlace DEF grantLocks, wake, Queued, Waiting
  <2>3. /\ UNCHANGED <<exclusiveThread, monitorCount, lockGranted, type>>
        /\ \A u \in Threads \ {t} : pc'[u] = pc[u]
    BY <1>0, <1>10 DEF grantLocks, wake
  <2>4. \A u \in Threads : o = u => Owns(u)'
    BY <2>1, <2>2, <2>3, OwnerPlace DEF Owns
  <2> QED
    BY <2>3, <2>4, SameOwnerKeeps
<1>11. ASSUME NEW t \in Threads, share(t)
       PROVE OwnerInv'
  <2>1. \A u \in Threads : ~Crowned(u)
    BY <1>11, Alone DEF share, Crowned, Inside
  <2>2. o # t
    BY <1>11, OwnerPlace DEF share, Queued, Waiting
  <2>3. /\ UNCHANGED <<exclusiveThread, monitorCount, type>>
        /\ \A u \in Threads \ {t} : pc'[u] = pc[u]
        /\ \A u \in Threads : lockGranted[u] => lockGranted'[u]
    BY <1>0, <1>11 DEF share, Grant
  <2>4. \A u \in Threads : o = u => Owns(u)'
    BY <2>1, <2>2, <2>3, OwnerPlace DEF Owns
  <2> QED
    BY <2>3, <2>4, SameOwnerKeeps
<1>12. ASSUME NEW t \in Threads, crown(t)
       PROVE OwnerInv'
  <2> DEFINE h == Head(waitingThreads)
  <2>1. waitingThreads # <<>> /\ type[h] = "exclusive"
    BY <1>12 DEF crown, SyncInv, QueueInv, Crowning
  <2>2. h \in Threads
    BY <2>1, HeadWaits
  <2>3. /\ exclusiveThread' = h /\ UNCHANGED <<waitingThreads, type>>
        /\ pc'[t] = "give"
    BY <1>0, <1>12 DEF crown
  <2>4. Owns(h)'
    BY <2>1, <2>3 DEF Owns, Crowned
  <2> QED
    BY <1>0, <2>2, <2>3, <2>4 DEF OwnerInv
<1>13. ASSUME NEW t \in Threads, give(t)
       PROVE OwnerInv'
  <2>1. o # t
    BY <1>13, OwnerPlace DEF give, Queued, Waiting
  <2>2. /\ UNCHANGED <<exclusiveThread, monitorCount, type>>
        /\ \A u \in Threads \ {t} : pc'[u] = pc[u]
        /\ lockGranted' = [lockGranted EXCEPT ![Head(waitingThreads)] = TRUE]
    BY <1>0, <1>13 DEF give, Grant
  <2>3. \A u \in Threads : lockGranted[u] \/ u = Head(waitingThreads) => lockGranted'[u]
    BY <1>0, <2>2
  <2>4. \A u \in Threads : o = u =>
          /\ type[u] = "exclusive"
          /\ pc[u] = "held" \/ (pc[u] \in Waiting /\ (lockGranted[u] \/ u = Head(waitingThreads)))
    BY OwnerPlace DEF Crowned, Queued
  <2>5. \A u \in Threads : o = u => Owns(u)'
    BY <2>1, <2>2, <2>3, <2>4 DEF Owns
  <2> QED
    BY <2>2, <2>5, SameOwnerKeeps
<1>14. CASE UNCHANGED vars
  BY <1>14 DEF vars, object, local, SyncInv, OwnerInv, Owns, Crowned
<1> QED
  BY <1>1, <1>2, <1>3, <1>4, <1>5, <1>6, <1>7, <1>8, <1>9, <1>10, <1>11, <1>12, <1>13, <1>14, Steps

-----------------------------------------------------------------------------
(* The theorems.                                                             *)

\* The lock starts free, with an empty queue.
LEMMA SyncInvInit == Init => SyncInv
<1> SUFFICES ASSUME Init PROVE SyncInv
  OBVIOUS
<1>1. /\ pc = [t \in Threads |-> "free"] /\ type = [t \in Threads |-> "none"]
      /\ lockState = 0 /\ waiters = Idle /\ cntWake = 0 /\ waitingThreads = <<>>
      /\ mutex = NoThread /\ exclusiveThread = NoThread /\ monitorCount = 0 /\ granted = NoThread
      /\ timeOut = [t \in Threads |-> "none"]
      /\ lockGranted = [t \in Threads |-> FALSE] /\ wakeup = [t \in Threads |-> FALSE]
  BY DEF Init
<1>2. Held = [t \in Threads |-> "none"]
  BY <1>1 DEF Held
<1>3. Sharing = {} /\ Excluding = {} /\ Crowners = {} /\ Readers = {} /\ Writers = {}
  BY <1>1, <1>2 DEF Sharing, Excluding, Crowners, Crowning, Readers, Writers, Counted, Queued, Waiting
<1>4. Cardinality({}) = 0
  BY FS_EmptySet
<1>5. waitingThreads \in Seq(Threads) /\ Len(waitingThreads) = 0
  BY <1>1
<1>6. Distinct(waitingThreads) /\ \A t \in Threads : ~In(t, waitingThreads)
  BY <1>5 DEF Distinct, In
<1>7. TypeOK
  BY <1>1, <1>5 DEF TypeOK, Idle
<1>8. MutexInv /\ ModeInv /\ QueueInv
  BY <1>1, <1>6 DEF MutexInv, ModeInv, QueueInv, Queued, Waiting, Inside, Crowning
<1>9. CountInv
  BY <1>1, <1>3, <1>4 DEF CountInv, Idle
<1>10. StateInv
  BY <1>1, <1>3, <1>4 DEF StateInv
<1>11. OwnerInv
  BY <1>1, SyncAssumption DEF OwnerInv
<1> QED
  BY <1>7, <1>8, <1>9, <1>10, <1>11 DEF SyncInv

\* The parts of the invariant are kept by every step of the code.
THEOREM Invariance == Spec => []SyncInv
<1>1. ASSUME SyncInv, [Next]_vars
      PROVE SyncInv'
  BY <1>1, TypeStep, MutexStep, ModeStep, QueueStep, CountStep, StateStep, OwnerStep DEF SyncInv
<1> QED
  BY <1>1, SyncInvInit, PTL DEF Spec

\* Every variable of SyncObject.cpp keeps its type: neither half of waiters,
\* nor cntWake, nor monitorCount falls below zero.
THEOREM TypeCorrect == Spec => []TypeOK
BY Invariance, PTL DEF SyncInv

\* lockState tells how the lock is held (SyncObject.cpp:373-415).
THEOREM StateMatches == Spec => []StateMatchesHolders
<1>1. SyncInv => StateMatchesHolders
  <2> SUFFICES ASSUME SyncInv PROVE StateMatchesHolders
    OBVIOUS
  <2>1. Sharing = {t \in Threads : Held[t] = "shared"}
    BY DEF Sharing
  <2>2. (\E t \in Threads : Held[t] = "exclusive" \/ pc[t] \in Crowning)
          <=> Excluding \cup Crowners # {}
    BY DEF Excluding, Crowners
  <2>3. StateInv
    BY DEF SyncInv
  <2>4. CASE Exclusive
    BY <2>2, <2>4 DEF Exclusive, StateMatchesHolders, Crowning
  <2>5. CASE ~Exclusive
    BY <2>1, <2>2, <2>3, <2>5 DEF StateInv, StateMatchesHolders, Crowning
  <2> QED
    BY <2>4, <2>5
<1> QED
  BY <1>1, Invariance, PTL

\* Only the thread that holds the lock exclusively, or is being granted it,
\* is let in again without a look at lockState (SyncObject.cpp:100, 185).
THEOREM Reentry == Spec => []ReentryIsOwn
<1>1. SyncInv => ReentryIsOwn
  <2> SUFFICES ASSUME SyncInv PROVE ReentryIsOwn
    OBVIOUS
  <2>1. ASSUME NEW t \in Threads, exclusiveThread = t, ~(waitingThreads # <<>> /\ Crowned(t))
        PROVE Held[t] = "exclusive"
    <3>1. type[t] = "exclusive" /\ (pc[t] = "held" \/ (pc[t] \in Waiting /\ lockGranted[t]))
      BY <2>1 DEF SyncInv, OwnerInv, Owns
    <3> QED
      BY <3>1 DEF Held, Waiting
  <2>2. monitorCount > 0 => exclusiveThread # NoThread
    BY DEF SyncInv, OwnerInv
  <2> QED
    BY <2>1, <2>2 DEF ReentryIsOwn, Crowned
<1> QED
  BY <1>1, Invariance, PTL

\* The count of waiters is the length of the queue, readers and writers apart,
\* while nobody is in the mutex (the assertion at SyncObject.cpp:365).
THEOREM CountMatches == Spec => []WaitersMatchQueue
<1>1. SyncInv => WaitersMatchQueue
  <2> SUFFICES ASSUME SyncInv, mutex = NoThread PROVE
        \A ty \in {"shared", "exclusive"} :
          waiters[ty] = Cardinality({t \in ToSet(waitingThreads) : type[t] = ty})
    BY DEF WaitersMatchQueue
  <2>1. cntWake = 0 /\ \A t \in Threads : pc[t] \notin Inside
    <3>1. ASSUME NEW t \in Threads PROVE cntWake = 0 /\ pc[t] \notin Inside
      BY NoGrants, Alone
    <3>2. CASE Threads = {}
      <4>1. Readers = {}
        BY <3>2 DEF Readers
      <4> QED
        BY <3>2, <4>1, FS_EmptySet DEF SyncInv, CountInv, TypeOK
    <3> QED
      BY <3>1, <3>2
  <2>2. \A t \in Threads : ~Crowned(t) /\ (Counted(t) <=> In(t, waitingThreads))
    BY <2>1 DEF Crowned, Counted, Inside, SyncInv, QueueInv
  <2>3. waitingThreads \in Seq(Threads)
    BY DEF SyncInv, TypeOK
  <2>4. \A t : t \in ToSet(waitingThreads) <=> t \in Threads /\ In(t, waitingThreads)
    <3>1. \A i \in 1 .. Len(waitingThreads) : waitingThreads[i] \in Threads
      BY <2>3, ElementOfSeq
    <3> QED
      BY <3>1 DEF ToSet, In
  <2>5. /\ {t \in ToSet(waitingThreads) : type[t] = "shared"} = Readers
        /\ {t \in ToSet(waitingThreads) : type[t] = "exclusive"} = Writers
    BY <2>2, <2>4 DEF Readers, Writers
  <2>6. waiters.shared = Cardinality(Readers) /\ waiters.exclusive = Cardinality(Writers)
    <3>1. waiters.shared \in Nat /\ waiters.shared + cntWake = Cardinality(Readers)
      BY DEF SyncInv, CountInv, TypeOK
    <3> QED
      BY <2>1, <3>1 DEF SyncInv, CountInv
  <2> QED
    BY <2>5, <2>6
<1> QED
  BY <1>1, Invariance, PTL

\* Each step takes, gives back or downgrades the lock of one thread, as a
\* read-write lock does, or changes nothing of that: the detailed lock
\* implements the abstract one.
THEOREM Refinement == Spec => ReadWrite
<1>1. Init => RW!Init
  BY DEF Init, RW!Init, Held
<1>2. ASSUME SyncInv, [Next]_vars
      PROVE [RW!Next]_Held
  <2>1. /\ Held \in [Threads -> {"none", "shared", "exclusive"}]
        /\ cntWake \in Nat /\ lockState \in Int /\ StateInv
    BY <1>2, HeldType DEF SyncInv, TypeOK
  <2>2. IsFiniteSet(Sharing) /\ Cardinality(Sharing) \in Nat
    BY SyncAssumption, FS_Subset, FS_CardinalityType DEF Sharing
  <2>3. ASSUME lockState >= 0 \/ cntWake > 0
        PROVE  \A u \in Threads : Held[u] # "exclusive"
    BY <2>1, <2>3 DEF StateInv, Exclusive, Excluding
  <2>4. ASSUME lockState = 0
        PROVE  \A u \in Threads : Held[u] = "none"
    <3>1. Cardinality(Sharing) = 0
      BY <2>1, <2>2, <2>4 DEF StateInv, Exclusive
    <3>2. Sharing = {}
      BY <2>2, <3>1, FS_EmptySet
    <3> QED
      BY <2>1, <2>3, <2>4, <3>2 DEF Sharing
  <2>5. CASE Quiet \/ AdmitsReaders \/ \E t \in Threads : AdmitsWriter(t)
    BY <2>5 DEF Quiet, AdmitsReaders, AdmitsWriter
  <2>6. ASSUME NEW t \in Threads, Takes(t, "shared") \/ GrantsReader(t)
        PROVE  RW!Share(t)
    BY <2>3, <2>6 DEF Takes, GrantsReader, Compatible, RW!Share
  <2>7. ASSUME NEW t \in Threads, Takes(t, "exclusive")
        PROVE  RW!Exclude(t)
    BY <2>4, <2>7 DEF Takes, Compatible, RW!Exclude
  <2>8. ASSUME NEW t \in Threads, NEW h \in Threads, GrantsWriter(t, h)
        PROVE  RW!Exclude(h)
    <3>1. Sharing = {} /\ Excluding = {}
      BY <2>1, <2>8 DEF GrantsWriter, StateInv, Exclusive
    <3> QED
      BY <2>1, <2>8, <3>1 DEF GrantsWriter, Sharing, Excluding, RW!Exclude
  <2>9. ASSUME NEW t \in Threads, Leaves(t) \/ Lowers(t)
        PROVE  RW!Release(t) \/ RW!Downgrade(t)
    BY <2>9 DEF Leaves, Lowers, RW!Release, RW!Downgrade
  <2> QED
    BY <1>2, <2>5, <2>6, <2>7, <2>8, <2>9, HeldStep DEF RW!Next
<1> QED
  BY <1>1, <1>2, Invariance, PTL DEF Spec, ReadWrite, RW!Spec

\* Whoever holds the lock exclusively holds it alone.
THEOREM HoldersExclude == Spec => []RW!Exclusion
<1>1. SyncInv => RW!Exclusion
  <2> SUFFICES ASSUME SyncInv, NEW t \in Threads, NEW u \in Threads,
                      Held[t] = "exclusive", Held[u] # "none"
               PROVE  t = u
    BY DEF RW!Exclusion
  <2>1. t \in Excluding /\ u \in Excluding \cup Sharing
    BY HeldType DEF Excluding, Sharing
  <2>2. StateInv
    BY DEF SyncInv
  <2> QED
    BY <2>1, <2>2 DEF StateInv, Exclusive
<1> QED
  BY <1>1, Invariance, PTL

-----------------------------------------------------------------------------
(* Nobody is forgotten in the queue, and nobody is left asleep.              *)

\* While the lock is free a queue means waiters, and readers at its head mean
\* waiting readers: look and grantLocks do not turn away.
LEMMA FreeIsCounted ==
  ASSUME SyncInv, waitingThreads # <<>>, lockState = 0
  PROVE  /\ type[Head(waitingThreads)] \in {"shared", "exclusive"}
         /\ waiters[type[Head(waitingThreads)]] > 0
<1> DEFINE h == Head(waitingThreads)
<1>1. h \in Threads /\ Counted(h)
  BY HeadWaits DEF Counted
<1>2. IsFiniteSet(Sharing) /\ Cardinality(Sharing) \in Nat
  BY SyncAssumption, FS_Subset, FS_CardinalityType DEF Sharing
<1>3. cntWake \in Nat /\ Crowners = {} /\ Cardinality(Sharing) + cntWake = 0
  BY DEF SyncInv, TypeOK, StateInv, Exclusive
<1>4. cntWake = 0 /\ ~Crowned(h)
  BY <1>2, <1>3 DEF Crowned, Crowners, Crowning
<1> QED
  BY <1>1, <1>4, CountedPositive

\* A lock that is free and has a queue is being looked at.
LEMMA ForgottenStep ==
  ASSUME SyncInv, NoneForgotten, [Next]_vars
  PROVE  NoneForgotten'
<1> USE DEF GoTo, Hold, Refuse, Queue, Return
<1>0. /\ pc = [u \in Threads |-> pc[u]]
      /\ type \in [Threads -> {"none", "shared", "exclusive"}]
      /\ waiters \in [shared : Nat, exclusive : Nat] /\ lockState \in Int
      /\ waitingThreads \in Seq(Threads)
      /\ ModeInv
  BY DEF SyncInv, TypeOK
<1> DEFINE Looks(u) == pc[u] \in {"look", "grant"}
<1>1. ASSUME waitingThreads' # <<>> => waitingThreads # <<>>,
             UNCHANGED lockState,
             \A u \in Threads : Looks(u) => Looks(u)'
      PROVE  NoneForgotten'
  BY <1>1 DEF NoneForgotten
<1>2. ASSUME NEW t \in Threads, NEW ty \in {"shared", "exclusive"},
             NEW time \in {"none", "limited", "forever"}, NEW label \in {"fast", "swap"},
             Start(t, ty, time, label)
      PROVE NoneForgotten'
  BY <1>0, <1>1, <1>2 DEF Start
<1>3. ASSUME NEW t \in Threads,
             lockAgain(t) \/ fast(t) \/ mark(t) \/ slow(t) \/ wait(t) \/ sleep(t) \/ unlock(t) \/ downgrade(t)
      PROVE NoneForgotten'
  BY <1>0, <1>1, <1>3 DEF lockAgain, fast, mark, slow, wait, sleep, unlock, downgrade, object, local
<1>4. ASSUME NEW t \in Threads, swap(t)
      PROVE NoneForgotten'
  <2>1. CASE Compatible(type[t])
    <3>1. lockState' # 0
      BY <1>0, <1>4, <2>1 DEF swap, Compatible, Taken
    <3> QED
      BY <3>1 DEF NoneForgotten
  <2>2. CASE ~Compatible(type[t])
    BY <1>0, <1>1, <1>4, <2>2 DEF swap
  <2> QED
    BY <2>1, <2>2
<1>5. ASSUME NEW t \in Threads, fair(t)
      PROVE NoneForgotten'
  <2>1. CASE waitingThreads = <<>> /\ Compatible(type[t])
    <3>1. lockState' # 0
      BY <1>0, <1>5, <2>1 DEF fair, Compatible, Taken
    <3> QED
      BY <3>1 DEF NoneForgotten
  <2>2. CASE waitingThreads = <<>> /\ ~Compatible(type[t])
    <3>1. lockState # 0 /\ lockState' = lockState
      BY <1>0, <1>5, <2>2 DEF fair, Compatible
    <3> QED
      BY <3>1 DEF NoneForgotten
  <2>3. CASE waitingThreads # <<>>
    BY <1>0, <1>1, <1>5, <2>3 DEF fair
  <2> QED
    BY <2>1, <2>2, <2>3
<1>6. ASSUME NEW t \in Threads, late(t)
      PROVE NoneForgotten'
  <2>1. waitingThreads' # <<>> => waitingThreads # <<>>
    BY <1>0, <1>6 DEF late, RemoveFirst
  <2> QED
    BY <1>0, <1>1, <1>6, <2>1 DEF late
<1>7. ASSUME NEW t \in Threads, unlock_swap(t) \/ downgrade_swap(t)
      PROVE NoneForgotten'
  <2>1. lockState' = 0 => pc'[t] = "look"
    BY <1>0, <1>7 DEF unlock_swap, downgrade_swap
  <2> QED
    BY <2>1 DEF NoneForgotten
<1>8. ASSUME NEW t \in Threads, look(t)
      PROVE NoneForgotten'
  <2>1. CASE waitingThreads # <<>> /\ lockState = 0
    <3>1. waiters.shared > 0 \/ waiters.exclusive > 0
      BY <2>1, FreeIsCounted
    <3>2. type[t] = "none"
      <4>1. t \notin Sharing
        <5>1. IsFiniteSet(Sharing) /\ Cardinality(Sharing) \in Nat
          BY SyncAssumption, FS_Subset, FS_CardinalityType DEF Sharing
        <5>2. Cardinality(Sharing) = 0
          BY <2>1, <5>1 DEF SyncInv, TypeOK, StateInv, Exclusive
        <5> QED
          BY <5>1, <5>2, FS_EmptySet
      <4> QED
        BY <1>0, <1>8, <4>1 DEF look, ModeInv, Sharing, Held
    <3>3. pc'[t] = "grant"
      BY <1>0, <1>8, <3>1, <3>2 DEF look
    <3> QED
      BY <3>3 DEF NoneForgotten
  <2>2. CASE ~(waitingThreads # <<>> /\ lockState = 0)
    BY <1>8, <2>2 DEF look, object, NoneForgotten
  <2> QED
    BY <2>1, <2>2
<1>9. ASSUME NEW t \in Threads, grantLocks(t)
      PROVE NoneForgotten'
  <2>1. waitingThreads' = waitingThreads
    BY <1>9 DEF grantLocks
  <2>2. CASE waitingThreads # <<>> /\ lockState = 0
    <3>1. /\ type[Head(waitingThreads)] \in {"shared", "exclusive"}
          /\ waiters[type[Head(waitingThreads)]] > 0
      BY <2>2, FreeIsCounted
    <3>2. lockState' # 0
      BY <1>0, <1>9, <2>2, <3>1 DEF grantLocks, Compatible
    <3> QED
      BY <3>2 DEF NoneForgotten
  <2>3. CASE waitingThreads # <<>> /\ lockState # 0
    <3>1. lockState' # 0
      BY <1>0, <1>9, <2>3 DEF grantLocks, Compatible
    <3> QED
      BY <3>1 DEF NoneForgotten
  <2> QED
    BY <2>1, <2>2, <2>3 DEF NoneForgotten
<1>10. ASSUME NEW t \in Threads, share(t) \/ give(t)
       PROVE NoneForgotten'
  <2>1. waitingThreads' # <<>> => waitingThreads # <<>>
    BY <1>0, <1>10 DEF share, give, Grant, RemoveFirst
  <2> QED
    BY <1>0, <1>1, <1>10, <2>1 DEF share, give, Grant
<1>11. ASSUME NEW t \in Threads, crown(t) \/ wake(t)
       PROVE NoneForgotten'
  BY <1>0, <1>1, <1>11 DEF crown, wake
<1>12. CASE UNCHANGED vars
  BY <1>12 DEF vars, object, local, NoneForgotten
<1> QED
  BY <1>2, <1>3, <1>4, <1>5, <1>6, <1>7, <1>8, <1>9, <1>10, <1>11, <1>12, Steps

\* Nobody stays in the queue of a free lock without a thread on the way to
\* grantLocks (SyncObject.cpp:234, 257, 73-90).
THEOREM NobodyForgotten == Spec => []NoneForgotten
<1>1. Init => NoneForgotten
  BY DEF Init, NoneForgotten
<1> QED
  BY <1>1, ForgottenStep, Invariance, PTL DEF Spec

\* While grantLock has a wake-up to deliver its caller is about to do so.
WakeInv ==
  /\ GrantedAreWoken
  /\ \A t \in Threads : granted = t => \E g \in Threads : pc[g] = "wake"
  /\ \A g \in Threads : pc[g] = "wake" => granted \in Threads

\* Each grant is followed by its wake-up.
LEMMA WakeStep ==
  ASSUME SyncInv, WakeInv, [Next]_vars
  PROVE  WakeInv'
<1> USE DEF GoTo, Hold, Refuse, Queue, Return
<1>0. /\ pc = [u \in Threads |-> pc[u]]
      /\ lockGranted \in [Threads -> BOOLEAN] /\ wakeup \in [Threads -> BOOLEAN]
      /\ granted \in Threads \cup {NoThread} /\ NoThread \notin Threads
  BY SyncAssumption DEF SyncInv, TypeOK
\* Most steps neither grant nor wake, and put nobody to sleep who is granted.
<1>1. ASSUME UNCHANGED <<granted, wakeup>>,
             \A u \in Threads : /\ pc'[u] = "wake" <=> pc[u] = "wake"
                                /\ pc'[u] = "sleep" /\ lockGranted'[u] =>
                                     pc[u] = "sleep" /\ lockGranted[u]
      PROVE  WakeInv'
  BY <1>1 DEF WakeInv, GrantedAreWoken
<1>2. ASSUME NEW t \in Threads, NEW ty \in {"shared", "exclusive"},
             NEW time \in {"none", "limited", "forever"}, NEW label \in {"fast", "swap"},
             Start(t, ty, time, label)
      PROVE WakeInv'
  BY <1>0, <1>1, <1>2 DEF Start
<1>3. ASSUME NEW t \in Threads,
             lockAgain(t) \/ fast(t) \/ swap(t) \/ mark(t) \/ slow(t) \/ fair(t)
      PROVE WakeInv'
  <2>1. CASE lockAgain(t) \/ fast(t) \/ swap(t) \/ mark(t)
    BY <1>0, <1>1, <2>1 DEF lockAgain, fast, swap, mark, object, local
  <2>2. CASE slow(t) \/ fair(t)
    BY <1>0, <1>1, <2>2 DEF slow, fair
  <2> QED
    BY <1>3, <2>1, <2>2
<1>4. ASSUME NEW t \in Threads, wait(t)
      PROVE WakeInv'
  <2>1. /\ UNCHANGED <<granted, wakeup, lockGranted>>
        /\ \A u \in Threads \ {t} : pc'[u] = pc[u]
        /\ pc[t] = "wait" /\ pc'[t] # "wake" /\ (pc'[t] = "sleep" => ~lockGranted[t])
    BY <1>0, <1>4 DEF wait, object
  <2> QED
    BY <1>1, <2>1
<1>5. ASSUME NEW t \in Threads, sleep(t)
      PROVE WakeInv'
  <2>1. /\ UNCHANGED <<granted, lockGranted>>
        /\ \A u \in Threads \ {t} : pc'[u] = pc[u] /\ wakeup'[u] = wakeup[u]
        /\ pc[t] = "sleep" /\ pc'[t] = "wait"
    BY <1>0, <1>5 DEF sleep, object
  <2> QED
    BY <2>1 DEF WakeInv, GrantedAreWoken
<1>6. ASSUME NEW t \in Threads, late(t)
      PROVE WakeInv'
  BY <1>0, <1>1, <1>6 DEF late
<1>7. ASSUME NEW t \in Threads,
             unlock(t) \/ unlock_swap(t) \/ downgrade(t) \/ downgrade_swap(t) \/ look(t)
      PROVE WakeInv'
  BY <1>0, <1>1, <1>7 DEF unlock, unlock_swap, downgrade, downgrade_swap, look, object
<1>8. ASSUME NEW t \in Threads, grantLocks(t) \/ crown(t)
      PROVE WakeInv'
  BY <1>0, <1>1, <1>8 DEF grantLocks, crown
\* The thread in the mutex has nothing to deliver when it grants.
<1>9. ASSUME NEW t \in Threads, NEW u \in Threads, pc[t] \in {"share", "give"}, Grant(t, u),
             UNCHANGED wakeup
      PROVE WakeInv'
  <2>1. \A g \in Threads : pc[g] # "wake"
    BY <1>9, Alone DEF Inside
  <2>2. \A v \in Threads : granted # v
    BY <2>1 DEF WakeInv
  <2>3. \A v \in Threads : pc[v] = "sleep" /\ lockGranted[v] => wakeup[v]
    BY <2>2 DEF WakeInv, GrantedAreWoken
  <2>4. /\ granted' = u /\ pc'[t] = "wake"
        /\ \A v \in Threads \ {u} : lockGranted'[v] = lockGranted[v]
        /\ \A v \in Threads \ {t} : pc'[v] = pc[v]
    BY <1>0, <1>9 DEF Grant
  <2> QED
    BY <1>9, <2>3, <2>4 DEF WakeInv, GrantedAreWoken
<1>10. ASSUME NEW t \in Threads, share(t)
       PROVE WakeInv'
  <2>1. CASE cntWake > 0
    <3>1. FirstReader \in Threads
      BY <2>1, FirstReaderWaits
    <3> QED
      BY <1>9, <1>10, <2>1, <3>1 DEF share
  <2>2. CASE ~(cntWake > 0)
    BY <1>0, <1>1, <1>10, <2>2 DEF share
  <2> QED
    BY <2>1, <2>2
<1>11. ASSUME NEW t \in Threads, give(t)
       PROVE WakeInv'
  <2>1. Head(waitingThreads) \in Threads
    BY <1>11, HeadWaits DEF give, SyncInv, QueueInv, Crowning
  <2> QED
    BY <1>9, <1>11, <2>1 DEF give
<1>12. ASSUME NEW t \in Threads, wake(t)
       PROVE WakeInv'
  <2>1. granted \in Threads
    BY <1>12 DEF wake, WakeInv
  <2>2. \A g \in Threads : pc[g] = "wake" => g = t
    BY <1>12, Alone DEF wake, Inside
  <2>3. /\ wakeup'[granted] /\ granted' = NoThread /\ lockGranted' = lockGranted
        /\ \A v \in Threads : wakeup[v] => wakeup'[v]
        /\ \A v \in Threads : pc'[v] # "wake" /\ (pc'[v] = "sleep" => pc[v] = "sleep")
    BY <1>0, <1>12, <2>1, <2>2 DEF wake
  <2> QED
    BY <1>0, <2>1, <2>3 DEF WakeInv, GrantedAreWoken
<1>13. CASE UNCHANGED vars
  BY <1>13 DEF vars, object, local, WakeInv, GrantedAreWoken
<1> QED
  BY <1>2, <1>3, <1>4, <1>5, <1>6, <1>7, <1>8, <1>10, <1>11, <1>12, <1>13, Steps

\* A thread that was granted the lock does not sleep on
\* (SyncObject.cpp:293-304, Synchronize.cpp:239-247).
THEOREM NobodyAsleep == Spec => []GrantedAreWoken
<1>1. Init => WakeInv
  BY SyncAssumption DEF Init, WakeInv, GrantedAreWoken
<1>2. WakeInv => GrantedAreWoken
  BY DEF WakeInv
<1> QED
  BY <1>1, <1>2, WakeStep, Invariance, PTL DEF Spec
=============================================================================
