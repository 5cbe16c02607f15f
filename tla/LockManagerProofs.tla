------------------------- MODULE LockManagerProofs -------------------------
(* Proofs about LockManager, for any number of owners, processes, locks and  *)
(* requests: every variable keeps its type; no two requests ever hold        *)
(* incompatible levels of one lock; counters and blocking queues agree with  *)
(* the requests; signals are served.  Live processes keep their locks, their *)
(* owners stay under AST routines and who sleeps is woken, if no process     *)
(* takes the block of a dead one that post_blockage has still to purge.      *)
(* Module LockWaitProofs goes on from here.                                  *)
EXTENDS LockManager, Integers, SequencesExt, FiniteSetTheorems, SequenceTheorems, TLAPS

-----------------------------------------------------------------------------
(* Queues: removal of an element, and elements that occur once.              *)

\* A set of natural numbers that is not empty has a least element.
LEMMA MinNat ==
  ASSUME NEW T, T \subseteq Nat, T # {}
  PROVE  Min(T) \in T /\ \A y \in T : Min(T) <= y
<1>1. \E x \in T : \A y \in T : ~(<<y, x>> \in OpToRel(<, Nat))
  BY NatLessThanWellFounded, WFMin
<1>2. PICK x \in T : \A y \in T : ~(<<y, x>> \in OpToRel(<, Nat))
  BY <1>1
<1>3. \A y \in T : x <= y
  <2> SUFFICES ASSUME NEW y \in T, y < x PROVE FALSE
    OBVIOUS
  <2>1. <<y, x>> \in Nat \X Nat /\ <<y, x>>[1] < <<y, x>>[2]
    OBVIOUS
  <2> QED
    BY <1>2, <2>1, Zenon DEF OpToRel
<1> QED
  BY <1>3 DEF Min

\* RemoveFirst takes one element out of a sequence.
LEMMA RemoveFirstIs ==
  ASSUME NEW S, NEW s \in Seq(S), NEW e, NEW k \in 1 .. Len(s), s[k] = e
  PROVE  \E i \in 1 .. Len(s) : s[i] = e /\ RemoveFirst(s, e) = RemoveAt(s, i)
<1> DEFINE I == {i \in 1 .. Len(s) : s[i] = e}
<1>1. I \subseteq Nat /\ I # {}
  OBVIOUS
<1>2. Min(I) \in I
  BY <1>1, MinNat
<1>3. RemoveFirst(s, e) = RemoveAt(s, Min(I))
  BY <1>1 DEF RemoveFirst, SelectInSeq
<1> QED
  BY <1>2, <1>3

\* What is left is a sequence of the other elements, each at most one place
\* further to the front.
LEMMA RemoveAtIs ==
  ASSUME NEW S, NEW s \in Seq(S), NEW k \in 1 .. Len(s)
  PROVE  /\ RemoveAt(s, k) \in Seq(S)
         /\ Len(RemoveAt(s, k)) = Len(s) - 1
         /\ \A i \in 1 .. Len(s) - 1 : RemoveAt(s, k)[i] = IF i < k THEN s[i] ELSE s[i + 1]
<1> DEFINE a == SubSeq(s, 1, k - 1)
           b == SubSeq(s, k + 1, Len(s))
<1>1. a \in Seq(S) /\ b \in Seq(S)
  OBVIOUS
<1>2. Len(a) = k - 1 /\ \A i \in 1 .. k - 1 : a[i] = s[i]
  OBVIOUS
<1>3. Len(b) = Len(s) - k /\ \A i \in 1 .. Len(s) - k : b[i] = s[k + i]
  OBVIOUS
<1>4. RemoveAt(s, k) = a \o b
  BY DEF RemoveAt
<1> HIDE DEF a, b
<1>5. Len(a \o b) = Len(s) - 1
  BY <1>1, <1>2, <1>3
<1>6. a \o b \in Seq(S)
  BY <1>1
<1>7. \A i \in 1 .. Len(s) - 1 : (a \o b)[i] = IF i < k THEN s[i] ELSE s[i + 1]
  BY <1>1, <1>2, <1>3
<1> QED
  BY <1>4, <1>5, <1>6, <1>7

\* RemoveFirst gives a sequence of the same elements.
LEMMA RemoveFirstType ==
  ASSUME NEW S, NEW s \in Seq(S), NEW e
  PROVE  RemoveFirst(s, e) \in Seq(S)
<1>1. CASE \E i \in 1 .. Len(s) : s[i] = e
  BY <1>1, RemoveFirstIs, RemoveAtIs
<1>2. CASE ~\E i \in 1 .. Len(s) : s[i] = e
  BY <1>2 DEF RemoveFirst
<1> QED
  BY <1>1, <1>2

\* Each element of the sequence occurs once.
Distinct(s) == \A i, j \in 1 .. Len(s) : s[i] = s[j] => i = j

\* x is an element of the sequence.
In(x, s) == \E i \in 1 .. Len(s) : s[i] = x

\* Taken out of a sequence without repetitions, an element is gone; the others
\* are still there, and still without repetitions.
LEMMA RemoveFirstElements ==
  ASSUME NEW S, NEW s \in Seq(S), NEW e, Distinct(s), In(e, s)
  PROVE  /\ RemoveFirst(s, e) \in Seq(S)
         /\ Distinct(RemoveFirst(s, e))
         /\ \A x : In(x, RemoveFirst(s, e)) <=> (In(x, s) /\ x # e)
<1>1. PICK k \in 1 .. Len(s) : s[k] = e /\ RemoveFirst(s, e) = RemoveAt(s, k)
  BY RemoveFirstIs DEF In
<1> DEFINE t == RemoveAt(s, k)
           n == Len(s)
<1>2. t \in Seq(S) /\ Len(t) = n - 1 /\ \A i \in 1 .. n - 1 : t[i] = IF i < k THEN s[i] ELSE s[i + 1]
  BY RemoveAtIs
<1>3. n \in Nat /\ k \in 1 .. n
  OBVIOUS
<1> HIDE DEF t, n
<1>4. Distinct(t)
  <2> SUFFICES ASSUME NEW i \in 1 .. n - 1, NEW j \in 1 .. n - 1, t[i] = t[j] PROVE i = j
    BY <1>2 DEF Distinct
  <2>1. \A a, b \in 1 .. n : s[a] = s[b] => a = b
    BY DEF Distinct, n
  <2>2. i \in 1 .. n /\ i + 1 \in 1 .. n /\ j \in 1 .. n /\ j + 1 \in 1 .. n
    BY <1>3
  <2> QED
    BY <1>2, <1>3, <2>1, <2>2
<1>5. ASSUME NEW x PROVE In(x, t) <=> (In(x, s) /\ x # e)
  <2>1. ASSUME NEW i \in 1 .. n - 1, t[i] = x PROVE In(x, s) /\ x # e
    <3>1. i \in 1 .. n /\ i + 1 \in 1 .. n /\ (i < k => i # k) /\ (~(i < k) => i + 1 # k)
      BY <1>3
    <3>2. \A a \in 1 .. n : s[a] = e => a = k
      BY <1>1, <1>3 DEF Distinct, n
    <3> QED
      BY <1>2, <2>1, <3>1, <3>2 DEF In, n
  <2>2. ASSUME NEW i \in 1 .. n, s[i] = x, x # e PROVE In(x, t)
    <3>1. i # k
      BY <1>1, <2>2
    <3>2. CASE i < k
      <4>1. i \in 1 .. n - 1
        BY <1>3, <3>2
      <4> QED
        BY <1>2, <2>2, <3>2, <4>1 DEF In
    <3>3. CASE i > k
      <4>1. i - 1 \in 1 .. n - 1 /\ ~(i - 1 < k) /\ i - 1 + 1 = i
        BY <1>3, <3>3
      <4> QED
        BY <1>2, <2>2, <3>3, <4>1 DEF In
    <3> QED
      BY <1>3, <3>1, <3>2, <3>3
  <2> QED
    BY <1>2, <2>1, <2>2 DEF In, n
<1> QED
  BY <1>1, <1>2, <1>4, <1>5 DEF t

\* So is one that is put at the end.
LEMMA AppendElements ==
  ASSUME NEW S, NEW s \in Seq(S), NEW e \in S, Distinct(s), ~In(e, s)
  PROVE  /\ Append(s, e) \in Seq(S)
         /\ Distinct(Append(s, e))
         /\ \A x : In(x, Append(s, e)) <=> (In(x, s) \/ x = e)
<1> DEFINE t == Append(s, e)
           n == Len(s)
<1>1. /\ t \in Seq(S) /\ Len(t) = n + 1
      /\ \A i \in 1 .. n : t[i] = s[i]
      /\ t[n + 1] = e
  BY AppendProperties
<1>2. n \in Nat /\ \A i \in 1 .. n + 1 : i \in 1 .. n \/ i = n + 1
  OBVIOUS
<1> HIDE DEF t
<1>3. Distinct(t)
  BY <1>1, <1>2 DEF Distinct, In
<1>4. \A x : In(x, t) <=> (In(x, s) \/ x = e)
  BY <1>1, <1>2 DEF In
<1> QED
  BY <1>1, <1>3, <1>4 DEF t

\* The sequence with e moved to its end.
ToEnd(s, e) == Append(RemoveFirst(s, e), e)

\* There it stands behind all others, whose order does not change.
LEMMA MovedToEnd ==
  ASSUME NEW S, NEW s \in Seq(S), NEW e \in S, Distinct(s), In(e, s)
  PROVE  /\ ToEnd(s, e) \in Seq(S) /\ Distinct(ToEnd(s, e))
         /\ Len(ToEnd(s, e)) = Len(s) /\ ToEnd(s, e)[Len(s)] = e
         /\ \A x : In(x, ToEnd(s, e)) <=> In(x, s)
         /\ \A i, j \in 1 .. Len(s) : i < j /\ s[i] # e /\ s[j] # e =>
              \E a, b \in 1 .. Len(s) : a < b /\ ToEnd(s, e)[a] = s[i] /\ ToEnd(s, e)[b] = s[j]
<1> DEFINE u == RemoveFirst(s, e)
           t == ToEnd(s, e)
           n == Len(s)
<1>1. u \in Seq(S) /\ Distinct(u) /\ \A x : In(x, u) <=> (In(x, s) /\ x # e)
  BY RemoveFirstElements
<1>2. PICK k \in 1 .. n : s[k] = e /\ u = RemoveAt(s, k)
  BY RemoveFirstIs DEF In
<1>3. n \in Nat /\ k \in 1 .. n
  OBVIOUS
<1>4. Len(u) = n - 1 /\ \A i \in 1 .. n - 1 : u[i] = IF i < k THEN s[i] ELSE s[i + 1]
  BY <1>2, RemoveAtIs
<1>5. t \in Seq(S) /\ Distinct(t) /\ \A x : In(x, t) <=> (In(x, u) \/ x = e)
  BY <1>1, AppendElements DEF ToEnd
<1>6. Len(t) = Len(u) + 1 /\ t[Len(u) + 1] = e /\ \A i \in 1 .. Len(u) : t[i] = u[i]
  BY <1>1, AppendProperties DEF ToEnd
<1> HIDE DEF t, u
<1>7. ASSUME NEW i \in 1 .. n, NEW j \in 1 .. n, i < j, s[i] # e, s[j] # e
      PROVE  \E a, b \in 1 .. Len(t) : a < b /\ t[a] = s[i] /\ t[b] = s[j]
  <2> DEFINE at(m) == IF m < k THEN m ELSE m - 1
  <2>1. i # k /\ j # k
    BY <1>2, <1>7
  <2> HIDE DEF n
  <2>2. at(i) < at(j) /\ at(i) \in 1 .. n - 1 /\ at(j) \in 1 .. n - 1
    BY <1>3, <1>7, <2>1
  <2>3. \A m \in 1 .. n : m # k /\ at(m) \in 1 .. n - 1 => u[at(m)] = s[m]
    <3> SUFFICES ASSUME NEW m \in 1 .. n, m # k, at(m) \in 1 .. n - 1 PROVE u[at(m)] = s[m]
      OBVIOUS
    <3>1. CASE m < k
      BY <1>4, <3>1
    <3>2. CASE m > k
      <4>1. at(m) = m - 1 /\ ~(m - 1 < k) /\ m - 1 + 1 = m
        BY <1>3, <3>2
      <4> QED
        BY <1>4, <4>1
    <3> QED
      BY <1>3, <3>1, <3>2
  <2> HIDE DEF at
  <2>4. at(i) \in 1 .. Len(u) /\ at(j) \in 1 .. Len(u) /\ 1 .. Len(u) \subseteq 1 .. Len(t)
    BY <1>3, <1>4, <1>6, <2>2
  <2>5. t[at(i)] = s[i] /\ t[at(j)] = s[j]
    BY <1>6, <2>1, <2>2, <2>3, <2>4
  <2> QED
    BY <2>2, <2>4, <2>5
<1>8. In(e, s) /\ \A x : In(x, t) <=> In(x, s)
  BY <1>1, <1>5
<1>9. Len(t) = n /\ t[Len(t)] = e
  BY <1>3, <1>4, <1>6
<1> QED
  BY <1>5, <1>7, <1>8, <1>9 DEF n, t

\* x stands before y in s.
Ahead(s, x, y) == \E i, j \in 1 .. Len(s) : i < j /\ s[i] = x /\ s[j] = y

\* A removal changes no order,
LEMMA RemovedAhead ==
  ASSUME NEW S, NEW s \in Seq(S), NEW e, Distinct(s), In(e, s), NEW x, NEW y,
         Ahead(RemoveFirst(s, e), x, y)
  PROVE  Ahead(s, x, y)
<1> DEFINE u == RemoveFirst(s, e)
           n == Len(s)
<1>1. PICK k \in 1 .. n : s[k] = e /\ u = RemoveAt(s, k)
  BY RemoveFirstIs DEF In
<1>2. Len(u) = n - 1 /\ \A i \in 1 .. n - 1 : u[i] = IF i < k THEN s[i] ELSE s[i + 1]
  BY <1>1, RemoveAtIs
<1>3. PICK i, j \in 1 .. Len(u) : i < j /\ u[i] = x /\ u[j] = y
  BY DEF Ahead
<1>4. n \in Nat /\ i \in 1 .. n - 1 /\ j \in 1 .. n - 1
  BY <1>2, <1>3
<1> HIDE DEF n
<1> DEFINE at(m) == IF m < k THEN m ELSE m + 1
<1>5. at(i) \in 1 .. n /\ at(j) \in 1 .. n /\ at(i) < at(j)
  BY <1>1, <1>3, <1>4
<1>6. s[at(i)] = x /\ s[at(j)] = y
  BY <1>2, <1>3, <1>4
<1> HIDE DEF at
<1> QED
  BY <1>5, <1>6 DEF Ahead, n

\* an element that is appended stands behind all others,
LEMMA AppendAhead ==
  ASSUME NEW S, NEW s \in Seq(S), NEW e, ~In(e, s), NEW x, NEW y, Ahead(Append(s, e), x, y)
  PROVE  In(x, s) /\ (y = e \/ Ahead(s, x, y))
<1> DEFINE t == Append(s, e)
           n == Len(s)
<1>1. Len(t) = n + 1 /\ n \in Nat /\ (\A i \in 1 .. n : t[i] = s[i]) /\ t[n + 1] = e
  BY AppendProperties
<1>2. PICK i, j \in 1 .. n + 1 : i < j /\ t[i] = x /\ t[j] = y
  BY <1>1 DEF Ahead
<1> HIDE DEF t
<1>3. i \in 1 .. n /\ s[i] = x
  BY <1>1, <1>2
<1>4. j # n + 1 => j \in 1 .. n /\ s[j] = y
  BY <1>1, <1>2
<1> QED
  BY <1>1, <1>2, <1>3, <1>4 DEF Ahead, In

\* and so does one that is moved to the end.
LEMMA MovedAhead ==
  ASSUME NEW S, NEW s \in Seq(S), NEW e \in S, Distinct(s), In(e, s), NEW x, NEW y,
         Ahead(ToEnd(s, e), x, y)
  PROVE  x # e /\ (y = e \/ Ahead(s, x, y))
<1> DEFINE u == RemoveFirst(s, e)
<1>1. u \in Seq(S) /\ \A z : In(z, u) <=> (In(z, s) /\ z # e)
  BY RemoveFirstElements
<1>2. ~In(e, u)
  BY <1>1
<1>3. Ahead(Append(u, e), x, y)
  BY DEF ToEnd
<1>4. In(x, u) /\ (y = e \/ Ahead(u, x, y))
  <2> HIDE DEF u
  <2> QED
    BY <1>1, <1>2, <1>3, AppendAhead
<1> QED
  BY <1>1, <1>4, RemovedAhead

-----------------------------------------------------------------------------
(* Levels.                                                                   *)

\* A set of levels with LCK_none in it has a greatest element, and Max finds it.
LEMMA MaxLevel ==
  ASSUME NEW S \in SUBSET LckLevels, LCK_none \in S
  PROVE  Max(S) \in S /\ Max(S) \in LckLevels /\ \A s \in S : s <= Max(S)
<1> USE DEF LckLevels, LCK_none, LCK_EX
<1>1. \E x \in S : \A y \in S : x >= y
  <2>1. \A y \in S : y \in {0, 1, 2, 3, 4, 5, 6}
    OBVIOUS
  <2>2. CASE 6 \in S
    BY <2>1, <2>2
  <2>3. CASE 6 \notin S /\ 5 \in S
    BY <2>1, <2>3
  <2>4. CASE 6 \notin S /\ 5 \notin S /\ 4 \in S
    BY <2>1, <2>4
  <2>5. CASE 6 \notin S /\ 5 \notin S /\ 4 \notin S /\ 3 \in S
    BY <2>1, <2>5
  <2>6. CASE 6 \notin S /\ 5 \notin S /\ 4 \notin S /\ 3 \notin S /\ 2 \in S
    BY <2>1, <2>6
  <2>7. CASE 6 \notin S /\ 5 \notin S /\ 4 \notin S /\ 3 \notin S /\ 2 \notin S
    BY <2>1, <2>7
  <2> QED
    BY <2>2, <2>3, <2>4, <2>5, <2>6, <2>7
<1>2. Max(S) \in S /\ \A y \in S : Max(S) >= y
  BY <1>1 DEF Max
<1> QED
  BY <1>2

\* lock_state gives a level, and the highest one that is counted.
LEMMA LockState ==
  ASSUME NEW counts
  PROVE  /\ lock_state(counts) \in LckLevels
         /\ \A s \in LCK_null .. LCK_EX : counts[s] # 0 => s <= lock_state(counts)
         /\ lock_state(counts) # LCK_none =>
              lock_state(counts) \in LCK_null .. LCK_EX /\ counts[lock_state(counts)] # 0
<1> DEFINE S == {LCK_none} \cup {s \in LCK_null .. LCK_EX : counts[s] # 0}
<1>1. S \in SUBSET LckLevels /\ LCK_none \in S
  BY DEF LckLevels, LCK_none, LCK_null, LCK_EX
<1>2. lock_state(counts) = Max(S)
  BY DEF lock_state
<1> HIDE DEF S
<1>3. Max(S) \in S /\ Max(S) \in LckLevels /\ \A s \in S : s <= Max(S)
  BY <1>1, MaxLevel
<1> QED
  BY <1>2, <1>3 DEF S

-----------------------------------------------------------------------------
(* Types.                                                                    *)

\* A function that is changed at one point keeps its type.
LEMMA ExceptType ==
  ASSUME NEW S, NEW T, NEW f \in [S -> T], NEW x, NEW y, x \in S => y \in T
  PROVE  [f EXCEPT ![x] = y] \in [S -> T]
OBVIOUS

\* So does a counter that is stepped at one point.
LEMMA CountType ==
  ASSUME NEW S, NEW f \in [S -> Int], NEW x
  PROVE  /\ [f EXCEPT ![x] = @ + 1] \in [S -> Int]
         /\ [f EXCEPT ![x] = @ - 1] \in [S -> Int]
<1>1. x \in S => f[x] + 1 \in Int /\ f[x] - 1 \in Int
  OBVIOUS
<1> QED
  BY <1>1, ExceptType

\* TypeOK by parts, as the variables are grouped in the model.
LrqOK ==
  /\ lrq_type \in [Requests -> {"null", "lrq", "repost"}]
  /\ lrq_owner \in [Requests -> Owners \cup {NoOwner}]
  /\ lrq_lock \in [Requests -> Locks \cup {NoLock}]
  /\ lrq_state \in [Requests -> LckLevels]
  /\ lrq_requested \in [Requests -> LckLevels]
  /\ lrq_flags \in [Requests -> SUBSET LrqFlags]
  /\ lrq_ast \in [Requests -> BOOLEAN]

LblOK ==
  /\ lbl_requests \in [Locks -> Seq(Requests)]
  /\ lbl_state \in [Locks -> LckLevels]
  /\ lbl_counts \in [Locks -> [LckLevels -> Int]]
  /\ lbl_pending_lrq_count \in [Locks -> Int]

OwnOK ==
  /\ lhb_owners \subseteq Owners
  /\ own_count \in [Owners -> Nat]
  /\ own_flags \in [Owners -> SUBSET OwnFlags]
  /\ own_waits \in [Owners -> Int]
  /\ own_ast_count \in [Owners -> Int]
  /\ own_blocks \in [Owners -> SUBSET Requests]

PrcOK ==
  /\ lhb_processes \subseteq Processes
  /\ running \subseteq Processes
  /\ prc_blocking \in [Processes -> BOOLEAN]

TableOK ==
  /\ holder \in Threads \cup {NoThread}
  /\ next \in Labels
  /\ posting \in Locks \cup {NoLock}
  /\ purge \subseteq Owners \cup Processes

CallOK ==
  /\ call \in [Requests -> Calls \cup {NoCall}]
  /\ thread \in [Threads -> Contexts]
  /\ lck_physical \in [Requests -> LckLevels]

\* That is all there is to it.
LEMMA TypeParts == TypeOK <=> LrqOK /\ LblOK /\ OwnOK /\ PrcOK /\ TableOK /\ CallOK
  BY Zenon DEF TypeOK, LrqOK, LblOK, OwnOK, PrcOK, TableOK, CallOK

\* A thread that is in the middle of a call on a request knows its arguments.
ThreadInv ==
  /\ \A r \in Requests :
       /\ thread[r].pc # "idle" \/ thread[r].serving # NoOwner => call[r] # NoCall
       /\ thread[r].pc = "sleep" => thread[r].serving = NoOwner
  /\ holder \in Requests =>
       /\ thread[holder].pc = "idle"
       /\ next # "done" => call[holder] # NoCall
       /\ thread[holder].serving # NoOwner => next = "signal"

\* Nobody purges the owner of a call that is under way, nor the process: but for
\* a process that a thread thinks dead although it was started anew.  Then the
\* request is gone when its thread comes back, which finds it resolved.
UseInv ==
  /\ holder = NoThread => purge = {}
  /\ purge \cap running # {} => next = "loop"
  /\ \A r \in Requests : call[r] # NoCall =>
       /\ own_count[call[r].owner] > 0
       /\ Home[call[r].owner] \in running
       /\ call[r].owner \notin purge
       /\ IF holder = r /\ next = "insert" THEN lrq_type[r] = "null"
          ELSE \/ lrq_type[r] = "lrq" /\ lrq_owner[r] = call[r].owner
               \/ /\ lrq_type[r] = "null"
                  /\ holder = r => next \in {"signal", "loop", "awake", "exit"}

\* A request is in the queue of its lock and nowhere else, once.
QueueInv ==
  /\ \A l \in Locks :
       /\ Distinct(lbl_requests[l])
       /\ \A r \in Requests : In(r, lbl_requests[l]) => lrq_type[r] = "lrq" /\ lrq_lock[r] = l
  /\ \A r \in Requests : lrq_type[r] = "lrq" =>
       lrq_owner[r] \in Owners /\ lrq_lock[r] \in Locks /\ In(r, lbl_requests[lrq_lock[r]])

\* The counts of a lock without one request are counts.
LEMMA CountsType ==
  ASSUME LrqOK, LblOK, NEW r \in Requests, lrq_lock[r] \in Locks
  PROVE  CountsWithout(r) \in [LckLevels -> Int] /\ lbl_counts[lrq_lock[r]] \in [LckLevels -> Int]
BY DEF CountsWithout, LrqOK, LblOK

\* post_wakeup sets a flag.
LEMMA WakeupType ==
  ASSUME OwnOK, NEW o \in Owners
  PROVE  post_wakeup(o) \in SUBSET OwnFlags
BY DEF OwnOK, OwnFlags, post_wakeup

\* grant keeps the types of requests, locks and owners.
LEMMA GrantType ==
  ASSUME LrqOK, LblOK, OwnOK, NEW r \in Requests, NEW counts, grant(r, counts),
         lrq_lock[r] \in Locks => counts \in [LckLevels -> Int],
         lrq_ast' \in [Requests -> BOOLEAN]
  PROVE  LrqOK' /\ LblOK' /\ OwnOK'
<1> USE DEF grant
<1>1. LrqOK'
  BY DEF LrqOK
<1>2. LblOK'
  <2> DEFINE new == [counts EXCEPT ![lrq_requested[r]] = @ + 1]
  <2>1. lrq_lock[r] \in Locks => new \in [LckLevels -> Int]
    BY DEF LrqOK
  <2>2. lock_state(new) \in LckLevels
    BY LockState
  <2>3. lbl_counts' = [lbl_counts EXCEPT ![lrq_lock[r]] = new]
    OBVIOUS
  <2>4. lbl_state' = [lbl_state EXCEPT ![lrq_lock[r]] = lock_state(new)]
    OBVIOUS
  <2> HIDE DEF new
  <2>5. lbl_counts' \in [Locks -> [LckLevels -> Int]] /\ lbl_state' \in [Locks -> LckLevels]
    <3> HIDE DEF grant
    <3>1. lbl_counts' \in [Locks -> [LckLevels -> Int]]
      BY <2>1, <2>3, ExceptType DEF LblOK
    <3>2. lbl_state' \in [Locks -> LckLevels]
      BY <2>2, <2>4, ExceptType DEF LblOK
    <3> QED
      BY <3>1, <3>2
  <2>6. lbl_pending_lrq_count' \in [Locks -> Int]
    <3> DEFINE n == IF "pending" \in lrq_flags[r] THEN lbl_pending_lrq_count[lrq_lock[r]] - 1
                    ELSE lbl_pending_lrq_count[lrq_lock[r]]
    <3>1. lrq_lock[r] \in Locks => n \in Int
      BY DEF LblOK
    <3>2. lbl_pending_lrq_count' = [lbl_pending_lrq_count EXCEPT ![lrq_lock[r]] = n]
      OBVIOUS
    <3> HIDE DEF n
    <3> QED
      BY <3>1, <3>2, ExceptType DEF LblOK
  <2>7. lbl_requests' \in [Locks -> Seq(Requests)]
    BY DEF LblOK
  <2> QED
    BY <2>5, <2>6, <2>7 DEF LblOK
<1>3. OwnOK'
  <2>1. lrq_owner[r] \in Owners => post_wakeup(lrq_owner[r]) \in SUBSET OwnFlags
    BY WakeupType
  <2>2. own_flags' = [own_flags EXCEPT ![lrq_owner[r]] = post_wakeup(lrq_owner[r])]
    OBVIOUS
  <2>3. own_flags' \in [Owners -> SUBSET OwnFlags]
    BY <2>1, <2>2 DEF OwnOK
  <2> QED
    BY <2>3 DEF OwnOK
<1> QED
  BY <1>1, <1>2, <1>3

\* A block that goes to the free list keeps its type.
LEMMA FreeType ==
  ASSUME LrqOK, NEW r \in Requests, Free(r)
  PROVE  LrqOK'
<1>1. LCK_none \in LckLevels
  BY DEF LckLevels, LCK_none, LCK_EX
<1> QED
  BY <1>1 DEF Free, LrqOK

\* release_request keeps the types of requests, locks and owners.
LEMMA ReleaseType ==
  ASSUME LrqOK, LblOK, OwnOK, PrcOK, lck_physical \in [Requests -> LckLevels],
         NEW r \in Requests, release_request(r)
  PROVE  /\ LrqOK' /\ LblOK' /\ OwnOK' /\ PrcOK'
         /\ posting' \in Locks \cup {NoLock}
         /\ lck_physical' \in [Requests -> LckLevels]
<1>0. LCK_none \in LckLevels /\ ZeroCounts \in [LckLevels -> Int]
  BY DEF LckLevels, LCK_none, LCK_EX, ZeroCounts
<1>1. LrqOK'
  BY FreeType DEF release_request
<1>2. LblOK'
  <2> DEFINE l == lrq_lock[r]
             queue == RemoveFirst(lbl_requests[l], r)
             counts == IF queue = <<>> THEN ZeroCounts
                       ELSE IF lrq_state[r] # LCK_none THEN CountsWithout(r) ELSE lbl_counts[l]
             state == IF queue = <<>> THEN LCK_none
                      ELSE IF lrq_state[r] # LCK_none /\ counts[lrq_state[r]] = 0
                           THEN lock_state(counts) ELSE lbl_state[l]
  <2>1. l \in Locks => queue \in Seq(Requests)
    BY RemoveFirstType DEF LblOK
  <2>2. l \in Locks => counts \in [LckLevels -> Int]
    BY <1>0, CountsType DEF LblOK
  <2>3. lock_state(counts) \in LckLevels
    BY LockState
  <2>4. l \in Locks => state \in LckLevels
    BY <1>0, <2>3 DEF LblOK
  <2>5. /\ lbl_requests' = [lbl_requests EXCEPT ![l] = queue]
        /\ lbl_counts' = [lbl_counts EXCEPT ![l] = counts]
    BY DEF release_request
  <2>6. lbl_state' = [lbl_state EXCEPT ![l] = state]
    BY DEF release_request
  <2> DEFINE n == IF "pending" \in lrq_flags[r] THEN lbl_pending_lrq_count[l] - 1
                  ELSE lbl_pending_lrq_count[l]
  <2>7. lbl_pending_lrq_count' = [lbl_pending_lrq_count EXCEPT ![l] = n]
    BY DEF release_request
  <2>8. l \in Locks => n \in Int
    BY DEF LblOK
  <2> HIDE DEF l, queue, counts, state, n
  <2> QED
    BY <2>1, <2>2, <2>4, <2>5, <2>6, <2>7, <2>8, ExceptType DEF LblOK
<1>3. OwnOK'
  BY DEF release_request, Unblock, OwnOK
<1>4. PrcOK'
  BY DEF release_request, prcVars, PrcOK
<1>5. posting' \in Locks \cup {NoLock}
  BY DEF release_request, LrqOK
<1>6. lck_physical' \in [Requests -> LckLevels]
  BY <1>0 DEF release_request
<1> QED
  BY <1>1, <1>2, <1>3, <1>4, <1>5, <1>6

\* The level that downgrade computes is a level.
LEMMA DowngradeType ==
  ASSUME LrqOK, NEW r \in Requests
  PROVE  DowngradeLevel(r) \in LckLevels
<1> DEFINE pending == Max({LCK_none} \cup
             {lrq_requested[q] : q \in {x \in ToSet(lbl_requests[lrq_lock[r]]) \ {r} :
                                          "pending" \in lrq_flags[x]}})
           S == {s \in LCK_none .. lrq_state[r] : s = LCK_none \/ compatibility(pending, s)}
<1>1. lrq_state[r] \in LckLevels
  BY DEF LrqOK
<1>2. DowngradeLevel(r) = Max(S)
  BY DEF DowngradeLevel
<1> HIDE DEF pending
<1>3. S \in SUBSET LckLevels /\ LCK_none \in S
  BY <1>1 DEF LckLevels, LCK_none, LCK_EX
<1> HIDE DEF S
<1> QED
  BY <1>2, <1>3, MaxLevel

\* What the thread in the table works on is a call.
LEMMA AtCall ==
  ASSUME CallOK, ThreadInv, NEW r \in Requests, holder = r, next # "done"
  PROVE  call[r] \in Calls
BY DEF CallOK, ThreadInv

\* The members of a queue are requests for its lock.
LEMMA QueueMembers ==
  ASSUME LblOK, QueueInv, NEW l \in Locks
  PROVE  /\ DOMAIN lbl_requests[l] = 1 .. Len(lbl_requests[l])
         /\ \A i \in DOMAIN lbl_requests[l] : In(lbl_requests[l][i], lbl_requests[l])
         /\ \A b \in ToSet(lbl_requests[l]) :
              In(b, lbl_requests[l]) /\ b \in Requests /\ lrq_type[b] = "lrq" /\ lrq_lock[b] = l
<1> DEFINE s == lbl_requests[l]
<1>1. s \in Seq(Requests) /\ DOMAIN s = 1 .. Len(s)
  BY DEF LblOK
<1>2. \A i \in 1 .. Len(s) : s[i] \in Requests /\ In(s[i], s)
  BY <1>1, ElementOfSeq DEF In
<1>3. \A b \in ToSet(s) : In(b, s) /\ b \in Requests
  BY <1>1, <1>2 DEF ToSet
<1> QED
  BY <1>1, <1>2, <1>3 DEF QueueInv

\* The requests that block another one are requests of owners.
LEMMA BlockersType ==
  ASSUME LblOK, CallOK, ThreadInv, UseInv, QueueInv, NEW r \in Requests, At(r, "blockage")
  PROVE  /\ \A b \in Blockers(r) : b \in Requests /\ lrq_type[b] = "lrq"
         /\ {lrq_owner[b] : b \in Blockers(r)} \subseteq Owners
<1>1. call[r] # NoCall
  BY DEF At, ThreadInv
<1>2. lrq_lock[r] \in Locks
  BY <1>1 DEF At, UseInv, QueueInv
<1>3. \A b \in Blockers(r) : b \in Requests /\ lrq_type[b] = "lrq" /\ lrq_owner[b] \in Owners
  BY <1>2, QueueMembers DEF Blockers, QueueInv
<1> QED
  BY <1>3

\* Every step keeps the types.
LEMMA TypeStep ==
  ASSUME LrqOK, LblOK, OwnOK, PrcOK, TableOK, CallOK, ThreadInv, UseInv, QueueInv, Next
  PROVE  LrqOK' /\ LblOK' /\ OwnOK' /\ PrcOK' /\ TableOK' /\ CallOK'
<1> DEFINE OK == LrqOK /\ LblOK /\ OwnOK /\ PrcOK /\ TableOK /\ CallOK
<1>1. ASSUME NEW o \in Owners, NEW l \in Locks, NEW level \in Levels, NEW wait \in Waits,
             NEW ast \in Asts, NEW r \in Requests, enqueue(o, l, level, wait, ast, r)
       PROVE  OK'
  <2>1. LrqOK' /\ LblOK' /\ OwnOK' /\ PrcOK'
    BY <1>1 DEF enqueue, lrqVars, lblVars, ownVars, prcVars, LrqOK, LblOK, OwnOK, PrcOK
  <2>2. TableOK'
    BY <1>1 DEF enqueue, TableOK, Labels, Threads, acquire_shmem
  <2>3. CallOK'
    <3>1. level \in LckLevels /\ wait \in WaitKinds /\ ast \in BOOLEAN
      BY ConstantsAssumption DEF ConstantsAssumption, LckLevels, LCK_none, LCK_null, LCK_EX
    <3> QED
      BY <1>1, <3>1 DEF enqueue, CallOK, Calls
  <2> QED
    BY <2>1, <2>2, <2>3
<1>2. ASSUME NEW q \in Requests, NEW l \in Locks, NEW level \in Levels, NEW wait \in Waits,
             NEW ast \in Asts, NEW r \in Requests, enqueue_prior(q, l, level, wait, ast, r)
       PROVE  OK'
  <2>1. release_request(q) /\ lck_physical \in [Requests -> LckLevels]
    BY <1>2 DEF enqueue_prior, CallOK
  <2>2. /\ LrqOK' /\ LblOK' /\ OwnOK' /\ PrcOK'
        /\ posting' \in Locks \cup {NoLock}
        /\ lck_physical' \in [Requests -> LckLevels]
    BY <2>1, ReleaseType
  <2>3. TableOK'
    BY <1>2, <2>2 DEF enqueue_prior, TableOK, Labels, Threads, acquire_shmem
  <2>4. CallOK'
    <3>1. level \in LckLevels /\ wait \in WaitKinds /\ ast \in BOOLEAN
      BY ConstantsAssumption DEF ConstantsAssumption, LckLevels, LCK_none, LCK_null, LCK_EX
    <3>2. lrq_owner[q] \in Owners
      BY <1>2 DEF enqueue_prior, Known, QueueInv
    <3> QED
      BY <1>2, <2>2, <3>1, <3>2 DEF enqueue_prior, CallOK, Calls
  <2> QED
    BY <2>2, <2>3, <2>4
<1>3. ASSUME NEW r \in Requests, NEW level \in Levels, NEW wait \in Waits,
             NEW ast \in Asts, convert(r, level, wait, ast)
       PROVE  OK'
  <2>1. LblOK' /\ OwnOK' /\ PrcOK'
    BY <1>3 DEF convert, lblVars, ownVars, prcVars, LblOK, OwnOK, PrcOK
  <2>2. LrqOK'
    <3>1. level \in LckLevels
      BY ConstantsAssumption DEF ConstantsAssumption, LckLevels, LCK_none, LCK_null, LCK_EX
    <3> QED
      BY <1>3, <3>1 DEF convert, LrqOK, LrqFlags
  <2>3. TableOK'
    BY <1>3 DEF convert, TableOK, Labels, Threads, acquire_shmem
  <2>4. CallOK'
    <3>1. level \in LckLevels /\ wait \in WaitKinds /\ ast \in BOOLEAN
      BY ConstantsAssumption DEF ConstantsAssumption, LckLevels, LCK_none, LCK_null, LCK_EX
    <3>2. lrq_owner[r] \in Owners /\ lrq_lock[r] \in Locks
      BY <1>3 DEF convert, Known, QueueInv
    <3> QED
      BY <1>3, <3>1, <3>2 DEF convert, CallOK, Calls
  <2> QED
    BY <2>1, <2>2, <2>3, <2>4
<1>4. ASSUME NEW r \in Requests, downgrade(r)
       PROVE  OK'
  <2>1. /\ lrq_owner[r] \in Owners /\ lrq_lock[r] \in Locks /\ lrq_ast[r] \in BOOLEAN
        /\ LCK_none \in LckLevels /\ DowngradeLevel(r) \in LckLevels
    BY <1>4, DowngradeType DEF downgrade, Reduce, Known, QueueInv, LrqOK, LckLevels, LCK_none,
       LCK_EX
  <2>2. LblOK' /\ OwnOK' /\ PrcOK'
    BY <1>4 DEF downgrade, Reduce, lblVars, ownVars, prcVars, LblOK, OwnOK, PrcOK
  <2>3. LrqOK'
    BY <1>4, <2>1 DEF downgrade, Reduce, LrqOK
  <2>4. TableOK'
    BY <1>4 DEF downgrade, Reduce, TableOK, Labels, Threads, acquire_shmem
  <2>5. CallOK'
    <3>1. PICK op \in {"downgrade", "dequeue"}, level \in LckLevels :
            /\ call' = [call EXCEPT ![r] = [op |-> op, owner |-> lrq_owner[r],
                          lock |-> lrq_lock[r], level |-> level, wait |-> "nowait",
                          ast |-> lrq_ast[r]]]
            /\ thread' = thread /\ lck_physical' = lck_physical
      BY <1>4, <2>1 DEF downgrade, Reduce
    <3> QED
      BY <2>1, <3>1 DEF CallOK, Calls, WaitKinds
  <2> QED
    BY <2>2, <2>3, <2>4, <2>5
<1>5. ASSUME NEW r \in Requests, dequeue(r)
       PROVE  OK'
  <2>1. /\ lrq_owner[r] \in Owners /\ lrq_lock[r] \in Locks /\ lrq_ast[r] \in BOOLEAN
        /\ LCK_none \in LckLevels
    BY <1>5 DEF dequeue, Reduce, Known, QueueInv, LrqOK, LckLevels, LCK_none, LCK_EX
  <2>2. LrqOK' /\ LblOK' /\ OwnOK' /\ PrcOK'
    BY <1>5 DEF dequeue, Reduce, lblVars, ownVars, prcVars, LrqOK, LblOK, OwnOK, PrcOK
  <2>3. TableOK'
    BY <1>5 DEF dequeue, Reduce, TableOK, Labels, Threads, acquire_shmem
  <2>4. CallOK'
    BY <1>5, <2>1 DEF dequeue, Reduce, CallOK, Calls, WaitKinds
  <2> QED
    BY <2>2, <2>3, <2>4
<1>6. ASSUME NEW o \in Owners, NEW q \in Requests, repost(o, q)
       PROVE  OK'
  <2>1. LblOK' /\ PrcOK'
    BY <1>6 DEF repost, lblVars, prcVars, LblOK, PrcOK
  <2>2. LrqOK'
    BY <1>6 DEF repost, LrqOK
  <2>3. OwnOK'
    BY <1>6 DEF repost, OwnOK, OwnFlags
  <2>4. TableOK'
    BY <1>6 DEF repost, TableOK, Labels, Threads, acquire_shmem
  <2>5. CallOK'
    BY <1>6 DEF repost, CallOK, Contexts, Threads
  <2> QED
    BY <2>1, <2>2, <2>3, <2>4, <2>5
<1>7. ASSUME NEW o \in Owners, cancelWait(o)
       PROVE  OK'
  <2>1. LrqOK' /\ LblOK' /\ PrcOK' /\ TableOK' /\ CallOK'
    BY <1>7 DEF cancelWait, lrqVars, lblVars, prcVars, tableVars, threadVars, LrqOK, LblOK,
       PrcOK, TableOK, CallOK
  <2>2. OwnOK'
    BY <1>7, WakeupType DEF cancelWait, OwnOK
  <2> QED
    BY <2>1, <2>2
<1>8. ASSUME NEW o \in Owners, Usable(o), initializeOwner_again(o)
       PROVE  OK'
  <2>1. LrqOK' /\ LblOK' /\ PrcOK' /\ TableOK' /\ CallOK'
    BY <1>8 DEF initializeOwner_again, lrqVars, lblVars, prcVars, tableVars, threadVars,
       LrqOK, LblOK, PrcOK, TableOK, CallOK
  <2>2. OwnOK'
    BY <1>8 DEF initializeOwner_again, OwnOK
  <2> QED
    BY <2>1, <2>2
<1>9. ASSUME NEW o \in Owners, initializeOwner(o)
       PROVE  OK'
  <2>1. LrqOK' /\ LblOK' /\ OwnOK' /\ PrcOK' /\ CallOK'
    BY <1>9 DEF initializeOwner, lrqVars, lblVars, ownVars, prcVars, threadVars, LrqOK, LblOK,
       OwnOK, PrcOK, CallOK
  <2>2. TableOK'
    BY <1>9, ConstantsAssumption DEF initializeOwner, TableOK, Labels, Threads, acquire_shmem,
       ConstantsAssumption
  <2> QED
    BY <2>1, <2>2
<1>10. ASSUME NEW o \in Owners, shutdownOwner(o)
       PROVE  OK'
  <2>1. LrqOK' /\ LblOK' /\ PrcOK' /\ CallOK'
    BY <1>10 DEF shutdownOwner, lrqVars, lblVars, prcVars, threadVars, LrqOK, LblOK, PrcOK,
       CallOK
  <2>2. OwnOK'
    BY <1>10 DEF shutdownOwner, OwnOK, Usable
  <2>3. TableOK'
    BY <1>10 DEF shutdownOwner, TableOK, Labels, Threads
  <2> QED
    BY <2>1, <2>2, <2>3
<1>11. ASSUME NEW p \in Processes, destroy(p)
       PROVE  OK'
  <2>1. LrqOK' /\ LblOK' /\ OwnOK' /\ TableOK' /\ CallOK'
    BY <1>11 DEF destroy, lrqVars, lblVars, ownVars, tableVars, threadVars, LrqOK, LblOK,
       OwnOK, TableOK, CallOK
  <2>2. PrcOK'
    BY <1>11 DEF destroy, PrcOK
  <2> QED
    BY <2>1, <2>2
<1>12. ASSUME NEW r \in Requests, enqueue_insert(r)
       PROVE  OK'
  <2>1. call[r] \in Calls
    BY <1>12, AtCall DEF enqueue_insert, At
  <2>2. OwnOK' /\ PrcOK' /\ CallOK'
    BY <1>12 DEF enqueue_insert, ownVars, prcVars, threadVars, OwnOK, PrcOK, CallOK
  <2>3. LrqOK'
    BY <1>12, <2>1 DEF enqueue_insert, LrqOK, Calls, LckLevels, LCK_none, LCK_EX
  <2>4. LblOK'
    <3>1. /\ call[r].lock \in Locks /\ call[r].level \in LckLevels
          /\ ZeroCounts \in [LckLevels -> Int]
      BY <2>1 DEF Calls, ZeroCounts
    <3>2. Append(lbl_requests[call[r].lock], r) \in Seq(Requests)
      BY <3>1, AppendProperties DEF LblOK
    <3> QED
      BY <1>12, <3>1, <3>2 DEF enqueue_insert, LblOK
  <2>5. TableOK'
    BY <1>12 DEF enqueue_insert, Goto, TableOK, Labels
  <2> QED
    BY <2>2, <2>3, <2>4, <2>5
<1>13. ASSUME NEW r \in Requests, enqueue_grant(r)
       PROVE  OK'
  <2>1. call[r] \in Calls /\ lrq_ast' = lrq_ast
    BY <1>13, AtCall DEF enqueue_grant, At
  <2>2. LrqOK' /\ LblOK' /\ OwnOK'
    BY <1>13, <2>1, GrantType, CountsType DEF enqueue_grant, LrqOK
  <2>3. PrcOK' /\ TableOK'
    BY <1>13 DEF enqueue_grant, grant, Goto, prcVars, PrcOK, TableOK, Labels
  <2>4. CallOK'
    BY <1>13, <2>1 DEF enqueue_grant, Succeed, CallOK, Calls
  <2> QED
    BY <2>2, <2>3, <2>4
<1>14. ASSUME NEW r \in Requests, grant_or_que_grant(r)
       PROVE  OK'
  <2>1. call[r] \in Calls /\ lrq_ast' = lrq_ast
    BY <1>14, AtCall DEF grant_or_que_grant, At
  <2>2. LrqOK' /\ LblOK' /\ OwnOK'
    BY <1>14, <2>1, GrantType, CountsType DEF grant_or_que_grant, LrqOK
  <2>3. PrcOK' /\ TableOK'
    BY <1>14 DEF grant_or_que_grant, grant, prcVars, PrcOK, TableOK, LrqOK, Labels
  <2>4. CallOK'
    BY <1>14, <2>1 DEF grant_or_que_grant, Succeed, CallOK, Calls
  <2> QED
    BY <2>2, <2>3, <2>4
<1>15. ASSUME NEW r \in Requests, grant_or_que_block(r)
       PROVE  OK'
  <2>1. LrqOK' /\ LblOK' /\ OwnOK' /\ PrcOK' /\ CallOK'
    BY <1>15 DEF grant_or_que_block, lrqVars, lblVars, ownVars, prcVars, threadVars, LrqOK,
       LblOK, OwnOK, PrcOK, CallOK
  <2>2. TableOK'
    BY <1>15 DEF grant_or_que_block, TableOK, Goto, Labels
  <2> QED
    BY <2>1, <2>2
<1>16. ASSUME NEW r \in Requests, internal_dequeue(r)
       PROVE  OK'
  <2>1. release_request(r) /\ lck_physical \in [Requests -> LckLevels]
    BY <1>16 DEF internal_dequeue, CallOK
  <2>2. /\ LrqOK' /\ LblOK' /\ OwnOK' /\ PrcOK'
        /\ posting' \in Locks \cup {NoLock}
        /\ lck_physical' \in [Requests -> LckLevels]
    BY <2>1, ReleaseType
  <2>3. TableOK' /\ CallOK'
    BY <1>16, <2>2 DEF internal_dequeue, TableOK, CallOK, Labels
  <2> QED
    BY <2>2, <2>3
<1>17. ASSUME NEW r \in Requests, internal_convert_grant(r)
       PROVE  OK'
  <2>1. call[r] \in Calls
    BY <1>17, AtCall DEF internal_convert_grant, At
  <2>2. lrq_ast' \in [Requests -> BOOLEAN]
    BY <1>17, <2>1 DEF internal_convert_grant, LrqOK, Calls
  <2>3. LrqOK' /\ LblOK' /\ OwnOK'
    BY <1>17, <2>2, GrantType, CountsType DEF internal_convert_grant
  <2>4. PrcOK' /\ TableOK'
    BY <1>17 DEF internal_convert_grant, grant, prcVars, PrcOK, TableOK, LrqOK, Labels
  <2>5. CallOK'
    BY <1>17, <2>1 DEF internal_convert_grant, Succeed, CallOK, Calls
  <2> QED
    BY <2>3, <2>4, <2>5
<1>18. ASSUME NEW r \in Requests, internal_convert_block(r)
       PROVE  OK'
  <2>1. LrqOK' /\ LblOK' /\ OwnOK' /\ PrcOK' /\ CallOK'
    BY <1>18 DEF internal_convert_block, lrqVars, lblVars, ownVars, prcVars, threadVars,
       LrqOK, LblOK, OwnOK, PrcOK, CallOK
  <2>2. TableOK'
    BY <1>18 DEF internal_convert_block, TableOK, Goto, Labels
  <2> QED
    BY <2>1, <2>2
<1>19. ASSUME NEW r \in Requests, internal_convert_undo(r)
       PROVE  OK'
  <2>1. call[r] \in Calls
    BY <1>19, AtCall DEF internal_convert_undo, At
  <2>2. LblOK' /\ OwnOK' /\ PrcOK' /\ TableOK'
    BY <1>19 DEF internal_convert_undo, Goto, lblVars, ownVars, prcVars, LblOK, OwnOK, PrcOK,
       TableOK,
       Labels
  <2>3. LrqOK'
    BY <1>19 DEF internal_convert_undo, LrqOK
  <2>4. CallOK'
    BY <1>19, <2>1 DEF internal_convert_undo, Fail, CallOK, Calls
  <2> QED
    BY <2>2, <2>3, <2>4
<1>20. ASSUME NEW r \in Requests, wait_for_request(r)
       PROVE  OK'
  <2>1. PrcOK' /\ CallOK' /\ TableOK'
    BY <1>20 DEF wait_for_request, Goto, prcVars, threadVars, PrcOK, CallOK, TableOK, Labels
  <2>2. LrqOK'
    BY <1>20 DEF wait_for_request, LrqOK, LrqFlags
  <2>3. OwnOK'
    <3>1. /\ own_flags' = [own_flags EXCEPT ![lrq_owner[r]] = @ \ {"scanned", "wakeup"}]
          /\ own_waits' = [own_waits EXCEPT ![lrq_owner[r]] = @ + 1]
          /\ UNCHANGED <<lhb_owners, own_count, own_ast_count, own_blocks>>
      BY <1>20 DEF wait_for_request
    <3> QED
      BY <3>1, CountType DEF OwnOK
  <2>4. LblOK'
    <3> DEFINE queue == IF lrq_state[r] = LCK_none
                        THEN Append(RemoveFirst(lbl_requests[lrq_lock[r]], r), r)
                        ELSE lbl_requests[lrq_lock[r]]
    <3>1. lrq_lock[r] \in Locks => queue \in Seq(Requests)
      BY RemoveFirstType, AppendProperties DEF LblOK
    <3>2. /\ lbl_requests' = [lbl_requests EXCEPT ![lrq_lock[r]] = queue]
          /\ lbl_pending_lrq_count' = [lbl_pending_lrq_count EXCEPT ![lrq_lock[r]] = @ + 1]
          /\ lbl_state' = lbl_state /\ lbl_counts' = lbl_counts
      BY <1>20 DEF wait_for_request
    <3> HIDE DEF queue
    <3>3. lbl_requests' \in [Locks -> Seq(Requests)]
      BY <3>1, <3>2, ExceptType DEF LblOK
    <3> QED
      BY <3>2, <3>3 DEF LblOK
  <2> QED
    BY <2>1, <2>2, <2>3, <2>4
<1>21. ASSUME NEW r \in Requests, post_blockage(r)
       PROVE  OK'
  <2>1. LblOK' /\ PrcOK'
    BY <1>21 DEF post_blockage, lblVars, prcVars, LblOK, PrcOK
  <2>2. LrqOK'
    BY <1>21 DEF post_blockage, LrqOK, LrqFlags
  <2>3. OwnOK'
    <3> DEFINE new == {b \in Blockers(r) : "blocking" \notin lrq_flags[b]}
    <3>1. new \subseteq Requests
      BY <1>21, BlockersType DEF post_blockage
    <3>2. own_blocks' = [o \in Owners |-> own_blocks[o] \cup {b \in new : lrq_owner[b] = o}]
      BY <1>21 DEF post_blockage
    <3> HIDE DEF new
    <3>3. own_blocks' \in [Owners -> SUBSET Requests]
      BY <3>1, <3>2 DEF OwnOK
    <3> QED
      BY <1>21, <3>3 DEF post_blockage, OwnOK
  <2>4. TableOK'
    BY <1>21 DEF post_blockage, TableOK, Goto, Labels
  <2>5. CallOK'
    <3>1. {lrq_owner[b] : b \in Blockers(r)} \subseteq Owners
      BY <1>21, BlockersType DEF post_blockage
    <3>2. /\ thread' = [thread EXCEPT ![r].rest = {lrq_owner[b] : b \in Blockers(r)}]
          /\ call' = call /\ lck_physical' = lck_physical
      BY <1>21 DEF post_blockage
    <3> QED
      BY <3>1, <3>2 DEF CallOK, Contexts, Threads
  <2> QED
    BY <2>1, <2>2, <2>3, <2>4, <2>5
<1>22. ASSUME NEW r \in Requests, purge_unreachable(r)
       PROVE  OK'
  <2>1. LrqOK' /\ LblOK' /\ OwnOK' /\ PrcOK'
    BY <1>22 DEF purge_unreachable, lrqVars, lblVars, ownVars, prcVars, LrqOK, LblOK, OwnOK,
       PrcOK
  <2>2. TableOK'
    BY <1>22 DEF purge_unreachable, TableOK, Labels, PrcOK
  <2>3. CallOK'
    BY <1>22 DEF purge_unreachable, CallOK, Contexts, Threads
  <2> QED
    BY <2>1, <2>2, <2>3
<1>23. ASSUME NEW r \in Requests, NEW b \in Owners, skip_owner(r, b)
       PROVE  OK'
  <2>1. LrqOK' /\ LblOK' /\ OwnOK' /\ PrcOK' /\ TableOK'
    BY <1>23 DEF skip_owner, lrqVars, lblVars, ownVars, prcVars, tableVars, LrqOK, LblOK,
       OwnOK, PrcOK, TableOK
  <2>2. CallOK'
    BY <1>23 DEF skip_owner, CallOK, Contexts, Threads
  <2> QED
    BY <2>1, <2>2
<1>24. ASSUME NEW r \in Requests, NEW b \in Owners, signal_owner(r, b)
       PROVE  OK'
  <2>1. LrqOK' /\ LblOK' /\ TableOK'
    BY <1>24 DEF signal_owner, lrqVars, lblVars, tableVars, LrqOK, LblOK, TableOK
  <2>2. OwnOK'
    BY <1>24 DEF signal_owner, OwnOK, signal_locally, signal_remotely, signal_fails, OwnFlags
  <2>3. PrcOK'
    BY <1>24 DEF signal_owner, PrcOK, signal_locally, signal_remotely, signal_fails
  <2>4. CallOK'
    <3>1. UNCHANGED <<call, lck_physical>>
      BY <1>24 DEF signal_owner
    <3>2. r \in Threads /\ thread[r] \in Contexts
      BY DEF CallOK, Threads
    <3>3. CASE signal_locally(r, b)
      <4>1. thread' = [thread EXCEPT ![r].rest = @ \ {b}, ![r].serving = b]
        BY <3>3 DEF signal_locally
      <4>2. thread' \in [Threads -> Contexts]
        BY <3>2, <4>1 DEF CallOK, Contexts
      <4> QED
        BY <3>1, <4>2 DEF CallOK
    <3>4. CASE signal_remotely(r, b)
      BY <3>1, <3>2, <3>4 DEF signal_remotely, CallOK, Contexts
    <3>5. CASE signal_fails(r, b)
      <4>1. thread' = [thread EXCEPT ![r].rest = @ \ {b}, ![r].dead = @ \cup {Home[b]}]
        BY <3>5 DEF signal_fails
      <4>2. Home[b] \in Processes
        BY ConstantsAssumption DEF ConstantsAssumption
      <4>3. thread' \in [Threads -> Contexts]
        BY <3>2, <4>1, <4>2 DEF CallOK, Contexts
      <4> QED
        BY <3>1, <4>3 DEF CallOK
    <3> QED
      BY <1>24, <3>3, <3>4, <3>5 DEF signal_owner
  <2> QED
    BY <2>1, <2>2, <2>3, <2>4
<1>25. ASSUME NEW r \in Requests, wait_resolved(r)
       PROVE  OK'
  <2>1. LrqOK' /\ LblOK' /\ OwnOK' /\ PrcOK' /\ CallOK'
    BY <1>25 DEF wait_resolved, lrqVars, lblVars, ownVars, prcVars, threadVars, LrqOK, LblOK,
       OwnOK, PrcOK, CallOK
  <2>2. TableOK'
    BY <1>25 DEF wait_resolved, TableOK, Goto, Labels
  <2> QED
    BY <2>1, <2>2
<1>26. ASSUME NEW r \in Requests, wait_again(r)
       PROVE  OK'
  <2>1. LrqOK' /\ LblOK' /\ OwnOK' /\ PrcOK' /\ CallOK'
    BY <1>26 DEF wait_again, lrqVars, lblVars, ownVars, prcVars, threadVars, LrqOK, LblOK,
       OwnOK, PrcOK, CallOK
  <2>2. TableOK'
    BY <1>26 DEF wait_again, TableOK, Goto, Labels
  <2> QED
    BY <2>1, <2>2
<1>27. ASSUME NEW r \in Requests, wait_sleep(r)
       PROVE  OK'
  <2>1. LrqOK' /\ LblOK' /\ OwnOK' /\ PrcOK'
    BY <1>27 DEF wait_sleep, lrqVars, lblVars, ownVars, prcVars, LrqOK, LblOK, OwnOK, PrcOK
  <2>2. TableOK'
    BY <1>27 DEF wait_sleep, TableOK, Labels
  <2>3. CallOK'
    BY <1>27 DEF wait_sleep, CallOK, Contexts, Threads
  <2> QED
    BY <2>1, <2>2, <2>3
<1>28. ASSUME NEW r \in Requests, event_wait(r)
       PROVE  OK'
  <2>1. LrqOK' /\ LblOK' /\ OwnOK' /\ PrcOK'
    BY <1>28 DEF event_wait, lrqVars, lblVars, ownVars, prcVars, LrqOK, LblOK, OwnOK, PrcOK
  <2>2. TableOK'
    BY <1>28 DEF event_wait, TableOK, Labels, Threads, acquire_shmem
  <2>3. CallOK'
    BY <1>28 DEF event_wait, CallOK, Contexts, Threads
  <2> QED
    BY <2>1, <2>2, <2>3
<1>29. ASSUME NEW r \in Requests, wait_expired(r)
       PROVE  OK'
  <2>1. PrcOK' /\ CallOK'
    BY <1>29 DEF wait_expired, prcVars, threadVars, PrcOK, CallOK
  <2>2. LrqOK'
    BY <1>29 DEF wait_expired, LrqOK, LrqFlags
  <2>3. LblOK'
    <3>1. /\ lbl_pending_lrq_count' = [lbl_pending_lrq_count EXCEPT ![lrq_lock[r]] = @ - 1]
          /\ UNCHANGED <<lbl_requests, lbl_state, lbl_counts>>
      BY <1>29 DEF wait_expired
    <3> QED
      BY <3>1, CountType DEF LblOK
  <2>4. OwnOK'
    BY <1>29 DEF wait_expired, OwnOK
  <2>5. TableOK'
    BY <1>29 DEF wait_expired, TableOK, Labels, DeadProcesses, PrcOK
  <2> QED
    BY <2>1, <2>2, <2>3, <2>4, <2>5
<1>30. ASSUME NEW r \in Requests, wait_woken(r)
       PROVE  OK'
  <2>1. LrqOK' /\ LblOK' /\ PrcOK' /\ CallOK'
    BY <1>30 DEF wait_woken, lrqVars, lblVars, prcVars, threadVars, LrqOK, LblOK, PrcOK, CallOK
  <2>2. OwnOK'
    BY <1>30 DEF wait_woken, OwnOK
  <2>3. TableOK'
    BY <1>30 DEF wait_woken, TableOK, Goto, Labels
  <2> QED
    BY <2>1, <2>2, <2>3
<1>31. ASSUME NEW r \in Requests, wait_probe(r)
       PROVE  OK'
  <2>1. LrqOK' /\ LblOK' /\ OwnOK' /\ PrcOK' /\ CallOK'
    BY <1>31 DEF wait_probe, lrqVars, lblVars, ownVars, prcVars, threadVars, LrqOK, LblOK,
       OwnOK, PrcOK, CallOK
  <2>2. TableOK'
    BY <1>31 DEF wait_probe, TableOK, Labels, DeadProcesses, PrcOK
  <2> QED
    BY <2>1, <2>2
<1>32. ASSUME NEW r \in Requests, wait_granted(r)
       PROVE  OK'
  <2>1. call[r] \in Calls
    BY <1>32, AtCall DEF wait_granted, At
  <2>2. LblOK' /\ PrcOK' /\ TableOK'
    BY <1>32 DEF wait_granted, Goto, lblVars, prcVars, LblOK, PrcOK, TableOK, Labels
  <2>3. LrqOK'
    BY <1>32, <2>1 DEF wait_granted, LrqOK, Calls
  <2>4. OwnOK'
    <3>1. /\ own_waits' = [own_waits EXCEPT ![lrq_owner[r]] = @ - 1]
          /\ UNCHANGED <<lhb_owners, own_count, own_flags, own_ast_count, own_blocks>>
      BY <1>32 DEF wait_granted
    <3> QED
      BY <3>1, CountType DEF OwnOK
  <2>5. CallOK'
    BY <1>32, <2>1 DEF wait_granted, Succeed, CallOK, Calls
  <2> QED
    BY <2>2, <2>3, <2>4, <2>5
<1>33. ASSUME NEW r \in Requests, wait_rejected(r)
       PROVE  OK'
  <2>1. LblOK' /\ PrcOK' /\ CallOK'
    BY <1>33 DEF wait_rejected, lblVars, prcVars, threadVars, LblOK, PrcOK, CallOK
  <2>2. LrqOK'
    BY <1>33 DEF wait_rejected, LrqOK
  <2>3. OwnOK'
    <3>1. /\ own_waits' = [own_waits EXCEPT ![lrq_owner[r]] = @ - 1]
          /\ UNCHANGED <<lhb_owners, own_count, own_flags, own_ast_count, own_blocks>>
      BY <1>33 DEF wait_rejected
    <3> QED
      BY <3>1, CountType DEF OwnOK
  <2>4. TableOK'
    BY <1>33 DEF wait_rejected, TableOK, Labels, LrqOK
  <2> QED
    BY <2>1, <2>2, <2>3, <2>4
<1>34. ASSUME NEW r \in Requests, NEW v \in Requests, deadlock_found(r, v)
       PROVE  OK'
  <2>1. PrcOK' /\ CallOK' /\ TableOK'
    BY <1>34 DEF deadlock_found, Goto, prcVars, threadVars, PrcOK, CallOK, TableOK, Labels
  <2>2. LrqOK'
    BY <1>34 DEF deadlock_found, LrqOK, LrqFlags
  <2>3. LblOK'
    <3>1. /\ lbl_pending_lrq_count' = [lbl_pending_lrq_count EXCEPT ![lrq_lock[v]] = @ - 1]
          /\ UNCHANGED <<lbl_requests, lbl_state, lbl_counts>>
      BY <1>34 DEF deadlock_found
    <3> QED
      BY <3>1, CountType DEF LblOK
  <2>4. OwnOK'
    <3> DEFINE flags == (IF v = r THEN own_flags[lrq_owner[v]] ELSE post_wakeup(lrq_owner[v]))
                          \ {"scanned"}
    <3>1. lrq_owner[v] \in Owners => flags \in SUBSET OwnFlags
      BY WakeupType DEF OwnOK
    <3>2. /\ own_flags' = [own_flags EXCEPT ![lrq_owner[v]] = flags]
          /\ UNCHANGED <<lhb_owners, own_count, own_waits, own_ast_count, own_blocks>>
      BY <1>34 DEF deadlock_found
    <3> HIDE DEF flags
    <3> QED
      BY <3>1, <3>2, ExceptType DEF OwnOK
  <2> QED
    BY <2>1, <2>2, <2>3, <2>4
<1>35. ASSUME NEW r \in Requests, deadlock_not_found(r)
       PROVE  OK'
  <2>1. LrqOK' /\ LblOK' /\ PrcOK' /\ CallOK'
    BY <1>35 DEF deadlock_not_found, lrqVars, lblVars, prcVars, threadVars, LrqOK, LblOK,
       PrcOK, CallOK
  <2>2. OwnOK'
    BY <1>35 DEF deadlock_not_found, OwnOK, OwnFlags
  <2>3. TableOK'
    BY <1>35 DEF deadlock_not_found, TableOK, Goto, Labels
  <2> QED
    BY <2>1, <2>2, <2>3
<1>36. ASSUME NEW r \in Requests, PostPendingGrant(r)
       PROVE  OK'
  <2>1. lrq_ast' = lrq_ast
    BY <1>36 DEF PostPendingGrant
  <2>2. LrqOK' /\ LblOK' /\ OwnOK'
    BY <1>36, <2>1, GrantType, CountsType DEF PostPendingGrant, LrqOK
  <2>3. PrcOK' /\ TableOK' /\ CallOK'
    BY <1>36 DEF PostPendingGrant, grant, prcVars, tableVars, threadVars, PrcOK, TableOK, CallOK
  <2> QED
    BY <2>2, <2>3
<1>37. ASSUME NEW r \in Requests, purge_owner_request(r)
       PROVE  OK'
  <2>1. release_request(r) /\ lck_physical \in [Requests -> LckLevels]
    BY <1>37 DEF purge_owner_request, CallOK
  <2>2. /\ LrqOK' /\ LblOK' /\ OwnOK' /\ PrcOK'
        /\ posting' \in Locks \cup {NoLock}
        /\ lck_physical' \in [Requests -> LckLevels]
    BY <2>1, ReleaseType
  <2>3. TableOK' /\ CallOK'
    BY <1>37, <2>2 DEF purge_owner_request, TableOK, CallOK
  <2> QED
    BY <2>2, <2>3
<1>38. ASSUME NEW r \in Requests, purge_owner_repost(r)
       PROVE  OK'
  <2>1. LblOK' /\ PrcOK' /\ TableOK' /\ CallOK'
    BY <1>38 DEF purge_owner_repost, lblVars, prcVars, tableVars, threadVars, LblOK, PrcOK,
       TableOK, CallOK
  <2>2. LrqOK'
    BY <1>38, FreeType DEF purge_owner_repost
  <2>3. OwnOK'
    BY <1>38 DEF purge_owner_repost, OwnOK
  <2> QED
    BY <2>1, <2>2, <2>3
<1>39. CASE PostPendingEnd
  <2>1. LblOK' /\ PrcOK' /\ CallOK'
    BY <1>39 DEF PostPendingEnd, lblVars, prcVars, threadVars, LblOK, PrcOK, CallOK
  <2>2. LrqOK'
    BY <1>39 DEF PostPendingEnd, LrqOK, LrqFlags
  <2>3. OwnOK'
    BY <1>39, WakeupType DEF PostPendingEnd, OwnOK
  <2>4. TableOK'
    BY <1>39 DEF PostPendingEnd, TableOK
  <2> QED
    BY <2>1, <2>2, <2>3, <2>4
<1>40. ASSUME NEW o \in Owners, purge_owner(o)
       PROVE  OK'
  <2>1. LrqOK' /\ LblOK' /\ PrcOK' /\ CallOK'
    BY <1>40 DEF purge_owner, lrqVars, lblVars, prcVars, threadVars, LrqOK, LblOK, PrcOK, CallOK
  <2>2. OwnOK'
    BY <1>40 DEF purge_owner, OwnOK
  <2>3. TableOK'
    BY <1>40 DEF purge_owner, TableOK
  <2> QED
    BY <2>1, <2>2, <2>3
<1>41. ASSUME NEW o \in Owners, create_owner(o)
       PROVE  OK'
  <2>1. LrqOK' /\ LblOK' /\ CallOK'
    BY <1>41 DEF create_owner, lrqVars, lblVars, threadVars, LrqOK, LblOK, CallOK
  <2>2. OwnOK'
    BY <1>41 DEF create_owner, OwnOK
  <2>3. PrcOK'
    BY <1>41, ConstantsAssumption DEF create_owner, ConstantsAssumption, PrcOK
  <2>4. TableOK'
    BY <1>41 DEF create_owner, TableOK, Labels, DeadProcesses, PrcOK
  <2> QED
    BY <2>1, <2>2, <2>3, <2>4
<1>42. ASSUME NEW o \in Owners, shutdownOwner_awake(o)
       PROVE  OK'
  <2>1. LrqOK' /\ LblOK' /\ OwnOK' /\ PrcOK' /\ CallOK'
    BY <1>42 DEF shutdownOwner_awake, lrqVars, lblVars, ownVars, prcVars, threadVars, LrqOK,
       LblOK, OwnOK, PrcOK, CallOK
  <2>2. TableOK'
    BY <1>42 DEF shutdownOwner_awake, TableOK, Labels, Threads, acquire_shmem
  <2> QED
    BY <2>1, <2>2
<1>43. ASSUME NEW p \in Processes, purge_process(p)
       PROVE  OK'
  <2>1. LrqOK' /\ LblOK' /\ OwnOK' /\ CallOK'
    BY <1>43 DEF purge_process, lrqVars, lblVars, ownVars, threadVars, LrqOK, LblOK, OwnOK,
       CallOK
  <2>2. PrcOK'
    BY <1>43 DEF purge_process, PrcOK
  <2>3. TableOK'
    BY <1>43 DEF purge_process, TableOK
  <2> QED
    BY <2>1, <2>2, <2>3
<1>44. ASSUME NEW t \in Threads, release_shmem(t)
       PROVE  OK'
  <2>1. LrqOK' /\ LblOK' /\ OwnOK' /\ PrcOK' /\ CallOK'
    BY <1>44 DEF release_shmem, lrqVars, lblVars, ownVars, prcVars, threadVars, LrqOK, LblOK,
       OwnOK, PrcOK, CallOK
  <2>2. TableOK'
    BY <1>44 DEF release_shmem, TableOK
  <2> QED
    BY <2>1, <2>2
<1>45. ASSUME NEW t \in Threads, NEW q \in Requests, blocking_action(t, q)
       PROVE  OK'
  <2>1. LblOK' /\ PrcOK'
    BY <1>45 DEF blocking_action, lblVars, prcVars, LblOK, PrcOK
  <2>2. LrqOK'
    <3>1. CASE "blocking" \in lrq_flags[q]
      BY <1>45, <3>1 DEF blocking_action, LrqOK, LrqFlags
    <3>2. CASE "blocking" \notin lrq_flags[q]
      BY <1>45, <3>2, FreeType DEF blocking_action
    <3> QED
      BY <3>1, <3>2
  <2>3. OwnOK'
    <3> DEFINE o == thread[t].serving
               n == IF lrq_ast[q] THEN own_ast_count[o] + 1 ELSE own_ast_count[o]
    <3>1. o \in Owners => n \in Int
      BY DEF OwnOK
    <3>2. /\ own_blocks' = [own_blocks EXCEPT ![o] = @ \ {q}]
          /\ own_ast_count' = [own_ast_count EXCEPT ![o] = n]
          /\ UNCHANGED <<lhb_owners, own_count, own_flags, own_waits>>
      BY <1>45 DEF blocking_action
    <3> HIDE DEF o, n
    <3>3. own_ast_count' \in [Owners -> Int]
      BY <3>1, <3>2, ExceptType DEF OwnOK
    <3> QED
      BY <3>2, <3>3 DEF OwnOK
  <2>4. TableOK'
    BY <1>45 DEF blocking_action, TableOK, Labels
  <2>5. CallOK'
    BY <1>45 DEF blocking_action, CallOK, Contexts
  <2> QED
    BY <2>1, <2>2, <2>3, <2>4, <2>5
<1>46. ASSUME NEW t \in Threads, ast_return(t)
       PROVE  OK'
  <2>1. LrqOK' /\ LblOK' /\ PrcOK'
    BY <1>46 DEF ast_return, lrqVars, lblVars, prcVars, LrqOK, LblOK, PrcOK
  <2>2. OwnOK'
    <3>1. /\ own_ast_count' = [own_ast_count EXCEPT ![thread[t].serving] = @ - 1]
          /\ UNCHANGED <<lhb_owners, own_count, own_flags, own_waits, own_blocks>>
      BY <1>46 DEF ast_return
    <3> QED
      BY <3>1, CountType DEF OwnOK
  <2>3. TableOK'
    BY <1>46 DEF ast_return, TableOK, Labels, Threads, acquire_shmem, AfterAction
  <2>4. CallOK'
    BY <1>46 DEF ast_return, CallOK, Contexts
  <2> QED
    BY <2>1, <2>2, <2>3, <2>4
<1>47. ASSUME NEW t \in Threads, blocking_action_end(t)
       PROVE  OK'
  <2>1. LrqOK' /\ LblOK' /\ PrcOK' /\ TableOK'
    BY <1>47 DEF blocking_action_end, lrqVars, lblVars, prcVars, tableVars, LrqOK, LblOK,
       PrcOK, TableOK
  <2>2. OwnOK'
    BY <1>47 DEF blocking_action_end, OwnOK
  <2>3. CallOK'
    BY <1>47 DEF blocking_action_end, CallOK, Contexts
  <2> QED
    BY <2>1, <2>2, <2>3
<1>48. ASSUME NEW p \in Processes, blocking_thread_wake(p)
       PROVE  OK'
  <2>1. LrqOK' /\ LblOK' /\ OwnOK' /\ CallOK'
    BY <1>48 DEF blocking_thread_wake, lrqVars, lblVars, ownVars, threadVars, LrqOK, LblOK,
       OwnOK, CallOK
  <2>2. PrcOK'
    BY <1>48 DEF blocking_thread_wake, PrcOK
  <2>3. TableOK'
    BY <1>48 DEF blocking_thread_wake, TableOK, Labels, Threads, acquire_shmem
  <2> QED
    BY <2>1, <2>2, <2>3
<1>49. ASSUME NEW p \in Processes, blocking_thread_sleep(p)
       PROVE  OK'
  <2>1. LrqOK' /\ LblOK' /\ OwnOK' /\ PrcOK' /\ CallOK'
    BY <1>49 DEF blocking_thread_sleep, lrqVars, lblVars, ownVars, prcVars, threadVars, LrqOK,
       LblOK, OwnOK, PrcOK, CallOK
  <2>2. TableOK'
    BY <1>49 DEF blocking_thread_sleep, TableOK, Goto, Labels
  <2> QED
    BY <2>1, <2>2
<1>50. ASSUME NEW p \in Processes, NEW o \in Owners, blocking_thread_serve(p, o)
       PROVE  OK'
  <2>1. LrqOK' /\ LblOK' /\ OwnOK' /\ PrcOK' /\ TableOK'
    BY <1>50 DEF blocking_thread_serve, lrqVars, lblVars, ownVars, prcVars, tableVars, LrqOK,
       LblOK, OwnOK, PrcOK, TableOK
  <2>2. CallOK'
    BY <1>50 DEF blocking_thread_serve, CallOK, Contexts, Threads
  <2> QED
    BY <2>1, <2>2
<1>51. ASSUME NEW p \in Processes, die(p)
       PROVE  OK'
  <2>1. LrqOK' /\ LblOK' /\ OwnOK' /\ TableOK'
    BY <1>51 DEF die, lrqVars, lblVars, ownVars, tableVars, LrqOK, LblOK, OwnOK, TableOK
  <2>2. PrcOK'
    BY <1>51 DEF die, PrcOK
  <2>3. CallOK'
    BY <1>51 DEF die, CallOK, Contexts, Idle
  <2> QED
    BY <2>1, <2>2, <2>3
<1> QED
  BY <1>1, <1>2, <1>3, <1>4, <1>5, <1>6, <1>7, <1>8, <1>9, <1>10, <1>11, <1>12, <1>13, <1>14,
     <1>15, <1>16, <1>17, <1>18, <1>19, <1>20, <1>21, <1>22, <1>23, <1>24, <1>25, <1>26, <1>27, <1>28,
     <1>29, <1>30, <1>31, <1>32, <1>33, <1>34, <1>35, <1>36, <1>37, <1>38, <1>39, <1>40, <1>41, <1>42,
     <1>43, <1>44, <1>45, <1>46, <1>47, <1>48, <1>49, <1>50, <1>51
     DEF Next, Client, RequestStep, TableStep, AstStep, Crash

\* Every step keeps what is known of threads.
LEMMA ThreadStep ==
  ASSUME CallOK, TableOK, PrcOK, OwnOK, QueueInv, UseInv, ThreadInv, Next
  PROVE  ThreadInv'
<1> USE ConstantsAssumption DEF ConstantsAssumption, Threads, NoCall, CallOK, tableVars, threadVars, ThreadInv
<1>1. ASSUME NEW o \in Owners, NEW l \in Locks, NEW level \in Levels, NEW wait \in Waits,
             NEW ast \in Asts, NEW r \in Requests, enqueue(o, l, level, wait, ast, r)
       PROVE  ThreadInv'
  BY <1>1 DEF enqueue, acquire_shmem
<1>2. ASSUME NEW q \in Requests, NEW l \in Locks, NEW level \in Levels, NEW wait \in Waits,
             NEW ast \in Asts, NEW r \in Requests, enqueue_prior(q, l, level, wait, ast, r)
       PROVE  ThreadInv'
  <2>1. /\ holder = NoThread /\ holder' = r /\ next' = "insert" /\ thread' = thread
        /\ call[r] = NoCall
    BY <1>2 DEF enqueue_prior, acquire_shmem, Known
  <2> DEFINE c == [op |-> "enqueue", owner |-> lrq_owner[q], lock |-> l, level |-> level,
                   wait |-> wait, ast |-> ast]
  <2>2. call' = [call EXCEPT ![r] = c] /\ c # NoCall
    BY <1>2 DEF enqueue_prior
  <2> HIDE DEF c
  <2> QED
    BY <2>1, <2>2
<1>3. ASSUME NEW r \in Requests, NEW level \in Levels, NEW wait \in Waits,
             NEW ast \in Asts, convert(r, level, wait, ast)
       PROVE  ThreadInv'
  BY <1>3 DEF convert, acquire_shmem, Known
<1>4. ASSUME NEW r \in Requests, downgrade(r)
       PROVE  ThreadInv'
  <2>1. \E op, level, step : Reduce(r, op, level, step) /\ op # "none"
    BY <1>4 DEF downgrade
  <2> QED
    BY <2>1 DEF Reduce, acquire_shmem, Known
<1>5. ASSUME NEW r \in Requests, dequeue(r)
       PROVE  ThreadInv'
  BY <1>5 DEF dequeue, Reduce, acquire_shmem, Known
<1>6. ASSUME NEW o \in Owners, NEW q \in Requests, repost(o, q)
       PROVE  ThreadInv'
  BY <1>6 DEF repost, acquire_shmem
<1>7. ASSUME NEW o \in Owners, cancelWait(o)
       PROVE  ThreadInv'
  BY <1>7 DEF cancelWait
<1>8. ASSUME NEW o \in Owners, Usable(o), initializeOwner_again(o)
       PROVE  ThreadInv'
  BY <1>8 DEF initializeOwner_again
<1>9. ASSUME NEW o \in Owners, initializeOwner(o)
       PROVE  ThreadInv'
  BY <1>9 DEF initializeOwner, acquire_shmem
<1>10. ASSUME NEW o \in Owners, shutdownOwner(o)
       PROVE  ThreadInv'
  BY <1>10 DEF shutdownOwner
<1>11. ASSUME NEW p \in Processes, destroy(p)
       PROVE  ThreadInv'
  BY <1>11 DEF destroy
<1>12. ASSUME NEW r \in Requests, enqueue_insert(r)
       PROVE  ThreadInv'
  BY <1>12 DEF enqueue_insert, At, Goto
<1>13. ASSUME NEW r \in Requests, enqueue_grant(r)
       PROVE  ThreadInv'
  BY <1>13 DEF enqueue_grant, Succeed, At, Goto
<1>14. ASSUME NEW r \in Requests, grant_or_que_grant(r)
       PROVE  ThreadInv'
  BY <1>14 DEF grant_or_que_grant, Succeed, At
<1>15. ASSUME NEW r \in Requests, grant_or_que_block(r)
       PROVE  ThreadInv'
  BY <1>15 DEF grant_or_que_block, At, Goto
<1>16. ASSUME NEW r \in Requests, internal_dequeue(r)
       PROVE  ThreadInv'
  BY <1>16 DEF internal_dequeue, At
<1>17. ASSUME NEW r \in Requests, internal_convert_grant(r)
       PROVE  ThreadInv'
  BY <1>17 DEF internal_convert_grant, Succeed, At
<1>18. ASSUME NEW r \in Requests, internal_convert_block(r)
       PROVE  ThreadInv'
  BY <1>18 DEF internal_convert_block, At, Goto
<1>19. ASSUME NEW r \in Requests, internal_convert_undo(r)
       PROVE  ThreadInv'
  BY <1>19 DEF internal_convert_undo, Fail, At, Goto
<1>20. ASSUME NEW r \in Requests, wait_for_request(r)
       PROVE  ThreadInv'
  BY <1>20 DEF wait_for_request, At, Goto
<1>21. ASSUME NEW r \in Requests, post_blockage(r)
       PROVE  ThreadInv'
  BY <1>21 DEF post_blockage, At, Goto
<1>22. ASSUME NEW r \in Requests, purge_unreachable(r)
       PROVE  ThreadInv'
  BY <1>22 DEF purge_unreachable, At
<1>23. ASSUME NEW r \in Requests, NEW b \in Owners, skip_owner(r, b)
       PROVE  ThreadInv'
  BY <1>23 DEF skip_owner, At
<1>24. ASSUME NEW r \in Requests, NEW b \in Owners, signal_owner(r, b)
       PROVE  ThreadInv'
  <2>1. call' = call /\ holder' = holder /\ next' = next /\ holder = r /\ next = "signal"
    BY <1>24 DEF signal_owner, At
  <2>2. /\ \A q \in Requests : thread'[q].pc = thread[q].pc
        /\ \A q \in Requests \ {r} : thread'[q] = thread[q]
    <3>1. CASE signal_locally(r, b)
      BY <3>1 DEF signal_locally
    <3>2. CASE signal_remotely(r, b)
      BY <3>2 DEF signal_remotely
    <3>3. CASE signal_fails(r, b)
      BY <3>3 DEF signal_fails
    <3> QED
      BY <1>24, <3>1, <3>2, <3>3 DEF signal_owner
  <2> QED
    BY <2>1, <2>2
<1>25. ASSUME NEW r \in Requests, wait_resolved(r)
       PROVE  ThreadInv'
  BY <1>25 DEF wait_resolved, At, Goto
<1>26. ASSUME NEW r \in Requests, wait_again(r)
       PROVE  ThreadInv'
  BY <1>26 DEF wait_again, At, Goto
<1>27. ASSUME NEW r \in Requests, wait_sleep(r)
       PROVE  ThreadInv'
  BY <1>27 DEF wait_sleep, At
<1>28. ASSUME NEW r \in Requests, event_wait(r)
       PROVE  ThreadInv'
  <2>1. /\ thread[r].pc = "sleep" /\ call' = call /\ holder' = r /\ next' = "awake"
        /\ thread'[r].pc = "idle" /\ thread'[r].serving = thread[r].serving
        /\ \A q \in Requests \ {r} : thread'[q] = thread[q]
    BY <1>28 DEF event_wait, acquire_shmem
  <2> QED
    BY <2>1
<1>29. ASSUME NEW r \in Requests, wait_expired(r)
       PROVE  ThreadInv'
  BY <1>29 DEF wait_expired, At
<1>30. ASSUME NEW r \in Requests, wait_woken(r)
       PROVE  ThreadInv'
  BY <1>30 DEF wait_woken, At, Goto
<1>31. ASSUME NEW r \in Requests, wait_probe(r)
       PROVE  ThreadInv'
  BY <1>31 DEF wait_probe, At
<1>32. ASSUME NEW r \in Requests, wait_granted(r)
       PROVE  ThreadInv'
  BY <1>32 DEF wait_granted, Succeed, At, Goto
<1>33. ASSUME NEW r \in Requests, wait_rejected(r)
       PROVE  ThreadInv'
  BY <1>33 DEF wait_rejected, At
<1>34. ASSUME NEW r \in Requests, NEW v \in Requests, deadlock_found(r, v)
       PROVE  ThreadInv'
  BY <1>34 DEF deadlock_found, ScanDue, At, Goto
<1>35. ASSUME NEW r \in Requests, deadlock_not_found(r)
       PROVE  ThreadInv'
  BY <1>35 DEF deadlock_not_found, At, Goto
<1>36. ASSUME NEW r \in Requests, PostPendingGrant(r)
       PROVE  ThreadInv'
  BY <1>36 DEF PostPendingGrant
<1>37. ASSUME NEW r \in Requests, purge_owner_request(r)
       PROVE  ThreadInv'
  BY <1>37 DEF purge_owner_request
<1>38. ASSUME NEW r \in Requests, purge_owner_repost(r)
       PROVE  ThreadInv'
  BY <1>38 DEF purge_owner_repost
<1>39. CASE PostPendingEnd
  BY <1>39 DEF PostPendingEnd
<1>40. ASSUME NEW o \in Owners, purge_owner(o)
       PROVE  ThreadInv'
  BY <1>40 DEF purge_owner
<1>41. ASSUME NEW o \in Owners, create_owner(o)
       PROVE  ThreadInv'
  BY <1>41 DEF create_owner, At
<1>42. ASSUME NEW o \in Owners, shutdownOwner_awake(o)
       PROVE  ThreadInv'
  BY <1>42 DEF shutdownOwner_awake, acquire_shmem
<1>43. ASSUME NEW p \in Processes, purge_process(p)
       PROVE  ThreadInv'
  BY <1>43 DEF purge_process
<1>44. ASSUME NEW t \in Threads, release_shmem(t)
       PROVE  ThreadInv'
  BY <1>44 DEF release_shmem, At
<1>45. ASSUME NEW t \in Threads, NEW q \in Requests, blocking_action(t, q)
       PROVE  ThreadInv'
  BY <1>45 DEF blocking_action, Serving
<1>46. ASSUME NEW t \in Threads, ast_return(t)
       PROVE  ThreadInv'
  BY <1>46 DEF ast_return, acquire_shmem, AfterAction
<1>47. ASSUME NEW t \in Threads, blocking_action_end(t)
       PROVE  ThreadInv'
  BY <1>47 DEF blocking_action_end, Serving
<1>48. ASSUME NEW p \in Processes, blocking_thread_wake(p)
       PROVE  ThreadInv'
  BY <1>48 DEF blocking_thread_wake, acquire_shmem
<1>49. ASSUME NEW p \in Processes, blocking_thread_sleep(p)
       PROVE  ThreadInv'
  BY <1>49 DEF blocking_thread_sleep, At, Goto
<1>50. ASSUME NEW p \in Processes, NEW o \in Owners, blocking_thread_serve(p, o)
       PROVE  ThreadInv'
  BY <1>50 DEF blocking_thread_serve, At
<1>51. ASSUME NEW p \in Processes, die(p)
       PROVE  ThreadInv'
  BY <1>51 DEF die, Idle
<1> QED
  BY <1>1, <1>2, <1>3, <1>4, <1>5, <1>6, <1>7, <1>8, <1>9, <1>10, <1>11, <1>12, <1>13,
     <1>14, <1>15, <1>16, <1>17, <1>18, <1>19, <1>20, <1>21, <1>22, <1>23, <1>24, <1>25,
     <1>26, <1>27, <1>28, <1>29, <1>30, <1>31, <1>32, <1>33, <1>34, <1>35, <1>36, <1>37,
     <1>38, <1>39, <1>40, <1>41, <1>42, <1>43, <1>44, <1>45, <1>46, <1>47, <1>48, <1>49,
     <1>50, <1>51
     DEF Next, Client, RequestStep, TableStep, AstStep, Crash

\* The blocking queue of an owner holds requests of that owner; only requests
\* have flags.
BlockInv ==
  /\ \A o \in Owners : \A r \in own_blocks[o] :
       /\ lrq_owner[r] = o
       /\ lrq_type[r] = "repost" \/ (lrq_type[r] = "lrq" /\ "blocking" \in lrq_flags[r])
  /\ \A r \in Requests : lrq_type[r] # "lrq" => lrq_flags[r] = {}

\* Every step keeps what is known of calls.
LEMMA UseStep ==
  ASSUME LrqOK, OwnOK, PrcOK, TableOK, CallOK, ThreadInv, UseInv, QueueInv, BlockInv, Next
  PROVE  UseInv'
<1> USE ConstantsAssumption DEF ConstantsAssumption, Threads, NoCall, lrqVars, ownVars, prcVars,
       tableVars, threadVars, CallOK, TableOK, PrcOK, LrqOK, UseInv
<1>1. ASSUME NEW o \in Owners, NEW l \in Locks, NEW level \in Levels, NEW wait \in Waits,
             NEW ast \in Asts, NEW r \in Requests, enqueue(o, l, level, wait, ast, r)
       PROVE  UseInv'
  BY <1>1 DEF enqueue, acquire_shmem, Usable
<1>2. ASSUME NEW q \in Requests, NEW l \in Locks, NEW level \in Levels, NEW wait \in Waits,
             NEW ast \in Asts, NEW r \in Requests, enqueue_prior(q, l, level, wait, ast, r)
       PROVE  UseInv'
  BY <1>2 DEF enqueue_prior, acquire_shmem, Known, Usable, release_request, Free
<1>3. ASSUME NEW r \in Requests, NEW level \in Levels, NEW wait \in Waits,
             NEW ast \in Asts, convert(r, level, wait, ast)
       PROVE  UseInv'
  BY <1>3 DEF convert, acquire_shmem, Known, Usable
<1>4. ASSUME NEW r \in Requests, downgrade(r)
       PROVE  UseInv'
  BY <1>4 DEF downgrade, Reduce, acquire_shmem, Known, Usable
<1>5. ASSUME NEW r \in Requests, dequeue(r)
       PROVE  UseInv'
  BY <1>5 DEF dequeue, Reduce, acquire_shmem, Known, Usable
<1>6. ASSUME NEW o \in Owners, NEW q \in Requests, repost(o, q)
       PROVE  UseInv'
  BY <1>6 DEF repost, acquire_shmem
<1>7. ASSUME NEW o \in Owners, cancelWait(o)
       PROVE  UseInv'
  BY <1>7 DEF cancelWait, Usable
<1>8. ASSUME NEW o \in Owners, Usable(o), initializeOwner_again(o)
       PROVE  UseInv'
  BY <1>8 DEF initializeOwner_again, Usable, OwnOK
<1>9. ASSUME NEW o \in Owners, initializeOwner(o)
       PROVE  UseInv'
  BY <1>9 DEF initializeOwner, acquire_shmem, Calls
<1>10. ASSUME NEW o \in Owners, shutdownOwner(o)
       PROVE  UseInv'
  BY <1>10 DEF shutdownOwner, Usable, Quiet
<1>11. ASSUME NEW p \in Processes, destroy(p)
       PROVE  UseInv'
  BY <1>11 DEF destroy, Quiet, Calls
<1>12. ASSUME NEW r \in Requests, enqueue_insert(r)
       PROVE  UseInv'
  BY <1>12 DEF enqueue_insert, At, Goto
<1>13. ASSUME NEW r \in Requests, enqueue_grant(r)
       PROVE  UseInv'
  BY <1>13 DEF enqueue_grant, Succeed, At, Goto, grant
<1>14. ASSUME NEW r \in Requests, grant_or_que_grant(r)
       PROVE  UseInv'
  BY <1>14 DEF grant_or_que_grant, Succeed, At, grant
<1>15. ASSUME NEW r \in Requests, grant_or_que_block(r)
       PROVE  UseInv'
  BY <1>15 DEF grant_or_que_block, At, Goto
<1>16. ASSUME NEW r \in Requests, internal_dequeue(r)
       PROVE  UseInv'
  BY <1>16 DEF internal_dequeue, At, release_request, Free
<1>17. ASSUME NEW r \in Requests, internal_convert_grant(r)
       PROVE  UseInv'
  BY <1>17 DEF internal_convert_grant, Succeed, At, grant
<1>18. ASSUME NEW r \in Requests, internal_convert_block(r)
       PROVE  UseInv'
  BY <1>18 DEF internal_convert_block, At, Goto
<1>19. ASSUME NEW r \in Requests, internal_convert_undo(r)
       PROVE  UseInv'
  BY <1>19 DEF internal_convert_undo, Fail, At, Goto
<1>20. ASSUME NEW r \in Requests, wait_for_request(r)
       PROVE  UseInv'
  BY <1>20 DEF wait_for_request, At, Goto
<1>21. ASSUME NEW r \in Requests, post_blockage(r)
       PROVE  UseInv'
  BY <1>21 DEF post_blockage, At, Goto
<1>22. ASSUME NEW r \in Requests, purge_unreachable(r)
       PROVE  UseInv'
  BY <1>22 DEF purge_unreachable, At, Calls, Contexts
<1>23. ASSUME NEW r \in Requests, NEW b \in Owners, skip_owner(r, b)
       PROVE  UseInv'
  BY <1>23 DEF skip_owner, At
<1>24. ASSUME NEW r \in Requests, NEW b \in Owners, signal_owner(r, b)
       PROVE  UseInv'
  BY <1>24 DEF signal_owner, signal_locally, signal_remotely, signal_fails, At
<1>25. ASSUME NEW r \in Requests, wait_resolved(r)
       PROVE  UseInv'
  BY <1>25 DEF wait_resolved, At, Goto, Pending
<1>26. ASSUME NEW r \in Requests, wait_again(r)
       PROVE  UseInv'
  BY <1>26 DEF wait_again, At, Goto, Pending
<1>27. ASSUME NEW r \in Requests, wait_sleep(r)
       PROVE  UseInv'
  BY <1>27 DEF wait_sleep, At, Pending
<1>28. ASSUME NEW r \in Requests, event_wait(r)
       PROVE  UseInv'
  BY <1>28 DEF event_wait, acquire_shmem
<1>29. ASSUME NEW r \in Requests, wait_expired(r)
       PROVE  UseInv'
  BY <1>29 DEF wait_expired, At, Pending, DeadProcesses, Calls, BlockInv
<1>30. ASSUME NEW r \in Requests, wait_woken(r)
       PROVE  UseInv'
  BY <1>30 DEF wait_woken, At, Goto, Pending, BlockInv
<1>31. ASSUME NEW r \in Requests, wait_probe(r)
       PROVE  UseInv'
  BY <1>31 DEF wait_probe, At, Pending, DeadProcesses, Calls, BlockInv
<1>32. ASSUME NEW r \in Requests, wait_granted(r)
       PROVE  UseInv'
  BY <1>32 DEF wait_granted, Succeed, At, Goto
<1>33. ASSUME NEW r \in Requests, wait_rejected(r)
       PROVE  UseInv'
  BY <1>33 DEF wait_rejected, At, BlockInv
<1>34. ASSUME NEW r \in Requests, NEW v \in Requests, deadlock_found(r, v)
       PROVE  UseInv'
  BY <1>34 DEF deadlock_found, ScanDue, At, Goto, Pending
<1>35. ASSUME NEW r \in Requests, deadlock_not_found(r)
       PROVE  UseInv'
  BY <1>35 DEF deadlock_not_found, At, Goto, Pending
<1>36. ASSUME NEW r \in Requests, PostPendingGrant(r)
       PROVE  UseInv'
  BY <1>36 DEF PostPendingGrant, grant
<1>37. ASSUME NEW r \in Requests, purge_owner_request(r)
       PROVE  UseInv'
  BY <1>37 DEF purge_owner_request, release_request, Free, Purging
<1>38. ASSUME NEW r \in Requests, purge_owner_repost(r)
       PROVE  UseInv'
  BY <1>38 DEF purge_owner_repost, Purging, Free
<1>39. CASE PostPendingEnd
  BY <1>39 DEF PostPendingEnd
<1>40. ASSUME NEW o \in Owners, purge_owner(o)
       PROVE  UseInv'
  BY <1>40 DEF purge_owner
<1>41. ASSUME NEW o \in Owners, create_owner(o)
       PROVE  UseInv'
  BY <1>41 DEF create_owner, At, DeadProcesses, Calls, OwnOK
<1>42. ASSUME NEW o \in Owners, shutdownOwner_awake(o)
       PROVE  UseInv'
  BY <1>42 DEF shutdownOwner_awake, acquire_shmem
<1>43. ASSUME NEW p \in Processes, purge_process(p)
       PROVE  UseInv'
  BY <1>43 DEF purge_process
<1>44. ASSUME NEW t \in Threads, release_shmem(t)
       PROVE  UseInv'
  BY <1>44 DEF release_shmem, At
<1>45. ASSUME NEW t \in Threads, NEW q \in Requests, blocking_action(t, q)
       PROVE  UseInv'
  <2> DEFINE o == thread[t].serving
  <2>1. o \in Owners /\ holder = t
    BY <1>45 DEF blocking_action, Serving, Contexts
  <2>2. /\ q \in own_blocks[o] /\ own_count' = own_count /\ running' = running
        /\ purge' = purge /\ purge = {} /\ call' = call
        /\ (holder' = holder /\ next' = next) \/ (holder' = NoThread /\ next' = "done")
    BY <1>45 DEF blocking_action, Serving
  <2>3. CASE "blocking" \in lrq_flags[q]
    <3>1. lrq_type' = lrq_type /\ lrq_owner' = lrq_owner
      BY <1>45, <2>3 DEF blocking_action
    <3> QED
      BY <2>1, <2>2, <3>1
  <2>4. CASE "blocking" \notin lrq_flags[q]
    <3>1. lrq_type[q] = "repost"
      BY <2>1, <2>2, <2>4 DEF BlockInv
    <3>2. call[q] = NoCall
      BY <3>1
    <3>3. \A r \in Requests \ {q} : lrq_type'[r] = lrq_type[r] /\ lrq_owner'[r] = lrq_owner[r]
      BY <1>45, <2>4 DEF blocking_action, Free
    <3> QED
      BY <2>1, <2>2, <3>2, <3>3
  <2> QED
    BY <2>3, <2>4
<1>46. ASSUME NEW t \in Threads, ast_return(t)
       PROVE  UseInv'
  BY <1>46 DEF ast_return, acquire_shmem, AfterAction
<1>47. ASSUME NEW t \in Threads, blocking_action_end(t)
       PROVE  UseInv'
  BY <1>47 DEF blocking_action_end, Serving
<1>48. ASSUME NEW p \in Processes, blocking_thread_wake(p)
       PROVE  UseInv'
  BY <1>48 DEF blocking_thread_wake, acquire_shmem
<1>49. ASSUME NEW p \in Processes, blocking_thread_sleep(p)
       PROVE  UseInv'
  BY <1>49 DEF blocking_thread_sleep, At, Goto
<1>50. ASSUME NEW p \in Processes, NEW o \in Owners, blocking_thread_serve(p, o)
       PROVE  UseInv'
  BY <1>50 DEF blocking_thread_serve, At
<1>51. ASSUME NEW p \in Processes, die(p)
       PROVE  UseInv'
  BY <1>51 DEF die, Idle
<1> QED
  BY <1>1, <1>2, <1>3, <1>4, <1>5, <1>6, <1>7, <1>8, <1>9, <1>10, <1>11, <1>12, <1>13,
     <1>14, <1>15, <1>16, <1>17, <1>18, <1>19, <1>20, <1>21, <1>22, <1>23, <1>24, <1>25,
     <1>26, <1>27, <1>28, <1>29, <1>30, <1>31, <1>32, <1>33, <1>34, <1>35, <1>36, <1>37,
     <1>38, <1>39, <1>40, <1>41, <1>42, <1>43, <1>44, <1>45, <1>46, <1>47, <1>48, <1>49,
     <1>50, <1>51
     DEF Next, Client, RequestStep, TableStep, AstStep, Crash

\* Every step keeps what is known of blocking queues.
LEMMA BlockStep ==
  ASSUME LrqOK, LblOK, OwnOK, PrcOK, TableOK, CallOK, ThreadInv, UseInv, QueueInv,
         BlockInv, Next
  PROVE  BlockInv'
<1> USE ConstantsAssumption DEF ConstantsAssumption, Threads, NoCall, lrqVars, ownVars, CallOK, OwnOK,
       LrqOK, BlockInv
<1>1. ASSUME NEW o \in Owners, NEW l \in Locks, NEW level \in Levels, NEW wait \in Waits,
             NEW ast \in Asts, NEW r \in Requests, enqueue(o, l, level, wait, ast, r)
       PROVE  BlockInv'
  BY <1>1 DEF enqueue, acquire_shmem
<1>2. ASSUME NEW q \in Requests, NEW l \in Locks, NEW level \in Levels, NEW wait \in Waits,
             NEW ast \in Asts, NEW r \in Requests, enqueue_prior(q, l, level, wait, ast, r)
       PROVE  BlockInv'
  BY <1>2 DEF enqueue_prior, acquire_shmem, release_request, Free, Unblock, Known
<1>3. ASSUME NEW r \in Requests, NEW level \in Levels, NEW wait \in Waits,
             NEW ast \in Asts, convert(r, level, wait, ast)
       PROVE  BlockInv'
  BY <1>3 DEF convert, acquire_shmem, Known
<1>4. ASSUME NEW r \in Requests, downgrade(r)
       PROVE  BlockInv'
  <2>1. /\ lrq_type' = lrq_type /\ lrq_owner' = lrq_owner /\ own_blocks' = own_blocks
        /\ lrq_flags' = lrq_flags \/ lrq_flags' = [lrq_flags EXCEPT ![r] = @ \ {"blocking_seen"}]
    BY <1>4 DEF downgrade, Reduce
  <2>2. \A q \in Requests : /\ lrq_flags'[q] \subseteq lrq_flags[q]
                            /\ "blocking" \in lrq_flags[q] => "blocking" \in lrq_flags'[q]
    BY <2>1
  <2>3. \A q \in Requests : lrq_flags[q] = {} => lrq_flags'[q] = {}
    BY <2>2
  <2> QED
    BY <2>1, <2>2, <2>3
<1>5. ASSUME NEW r \in Requests, dequeue(r)
       PROVE  BlockInv'
  BY <1>5 DEF dequeue, Reduce, acquire_shmem
<1>6. ASSUME NEW o \in Owners, NEW q \in Requests, repost(o, q)
       PROVE  BlockInv'
  BY <1>6 DEF repost, acquire_shmem
<1>7. ASSUME NEW o \in Owners, cancelWait(o)
       PROVE  BlockInv'
  BY <1>7 DEF cancelWait
<1>8. ASSUME NEW o \in Owners, Usable(o), initializeOwner_again(o)
       PROVE  BlockInv'
  BY <1>8 DEF initializeOwner_again
<1>9. ASSUME NEW o \in Owners, initializeOwner(o)
       PROVE  BlockInv'
  BY <1>9 DEF initializeOwner, acquire_shmem
<1>10. ASSUME NEW o \in Owners, shutdownOwner(o)
       PROVE  BlockInv'
  BY <1>10 DEF shutdownOwner
<1>11. ASSUME NEW p \in Processes, destroy(p)
       PROVE  BlockInv'
  BY <1>11 DEF destroy
<1>12. ASSUME NEW r \in Requests, enqueue_insert(r)
       PROVE  BlockInv'
  BY <1>12 DEF enqueue_insert, At, Goto, UseInv, ThreadInv
<1>13. ASSUME NEW r \in Requests, enqueue_grant(r)
       PROVE  BlockInv'
  BY <1>13 DEF enqueue_grant, Succeed, At, Goto, grant
<1>14. ASSUME NEW r \in Requests, grant_or_que_grant(r)
       PROVE  BlockInv'
  BY <1>14 DEF grant_or_que_grant, Succeed, At, grant
<1>15. ASSUME NEW r \in Requests, grant_or_que_block(r)
       PROVE  BlockInv'
  BY <1>15 DEF grant_or_que_block, At, Goto
<1>16. ASSUME NEW r \in Requests, internal_dequeue(r)
       PROVE  BlockInv'
  BY <1>16 DEF internal_dequeue, At, release_request, Free, Unblock, UseInv, ThreadInv
<1>17. ASSUME NEW r \in Requests, internal_convert_grant(r)
       PROVE  BlockInv'
  BY <1>17 DEF internal_convert_grant, Succeed, At, grant
<1>18. ASSUME NEW r \in Requests, internal_convert_block(r)
       PROVE  BlockInv'
  BY <1>18 DEF internal_convert_block, At, Goto
<1>19. ASSUME NEW r \in Requests, internal_convert_undo(r)
       PROVE  BlockInv'
  BY <1>19 DEF internal_convert_undo, Fail, At, Goto
<1>20. ASSUME NEW r \in Requests, wait_for_request(r)
       PROVE  BlockInv'
  BY <1>20 DEF wait_for_request, At, Goto, UseInv, ThreadInv
<1>21. ASSUME NEW r \in Requests, post_blockage(r)
       PROVE  BlockInv'
  <2> DEFINE new == {b \in Blockers(r) : "blocking" \notin lrq_flags[b]}
  <2>1. \A b \in new : b \in Requests /\ lrq_type[b] = "lrq"
    BY <1>21, BlockersType DEF post_blockage
  <2>2. /\ lrq_flags' = [b \in Requests |->
             IF b \in new THEN (lrq_flags[b] \cup {"blocking"}) \ {"just_granted"}
                          ELSE lrq_flags[b]]
        /\ own_blocks' = [o \in Owners |-> own_blocks[o] \cup {b \in new : lrq_owner[b] = o}]
        /\ lrq_type' = lrq_type /\ lrq_owner' = lrq_owner
    BY <1>21 DEF post_blockage
  <2> HIDE DEF new
  <2> QED
    BY <2>1, <2>2
<1>22. ASSUME NEW r \in Requests, purge_unreachable(r)
       PROVE  BlockInv'
  BY <1>22 DEF purge_unreachable, At
<1>23. ASSUME NEW r \in Requests, NEW b \in Owners, skip_owner(r, b)
       PROVE  BlockInv'
  BY <1>23 DEF skip_owner, At
<1>24. ASSUME NEW r \in Requests, NEW b \in Owners, signal_owner(r, b)
       PROVE  BlockInv'
  BY <1>24 DEF signal_owner, signal_locally, signal_remotely, signal_fails, At
<1>25. ASSUME NEW r \in Requests, wait_resolved(r)
       PROVE  BlockInv'
  BY <1>25 DEF wait_resolved, At, Goto
<1>26. ASSUME NEW r \in Requests, wait_again(r)
       PROVE  BlockInv'
  BY <1>26 DEF wait_again, At, Goto
<1>27. ASSUME NEW r \in Requests, wait_sleep(r)
       PROVE  BlockInv'
  BY <1>27 DEF wait_sleep, At
<1>28. ASSUME NEW r \in Requests, event_wait(r)
       PROVE  BlockInv'
  BY <1>28 DEF event_wait, acquire_shmem
<1>29. ASSUME NEW r \in Requests, wait_expired(r)
       PROVE  BlockInv'
  BY <1>29 DEF wait_expired, At, Pending
<1>30. ASSUME NEW r \in Requests, wait_woken(r)
       PROVE  BlockInv'
  BY <1>30 DEF wait_woken, At, Goto
<1>31. ASSUME NEW r \in Requests, wait_probe(r)
       PROVE  BlockInv'
  BY <1>31 DEF wait_probe, At
<1>32. ASSUME NEW r \in Requests, wait_granted(r)
       PROVE  BlockInv'
  BY <1>32 DEF wait_granted, Succeed, At, Goto
<1>33. ASSUME NEW r \in Requests, wait_rejected(r)
       PROVE  BlockInv'
  BY <1>33 DEF wait_rejected, At
<1>34. ASSUME NEW r \in Requests, NEW v \in Requests, deadlock_found(r, v)
       PROVE  BlockInv'
  BY <1>34 DEF deadlock_found, ScanDue, At, Goto, Pending, Victims, Pursued
<1>35. ASSUME NEW r \in Requests, deadlock_not_found(r)
       PROVE  BlockInv'
  BY <1>35 DEF deadlock_not_found, At, Goto
<1>36. ASSUME NEW r \in Requests, PostPendingGrant(r)
       PROVE  BlockInv'
  BY <1>36 DEF PostPendingGrant, grant
<1>37. ASSUME NEW r \in Requests, purge_owner_request(r)
       PROVE  BlockInv'
  BY <1>37 DEF purge_owner_request, release_request, Free, Unblock
<1>38. ASSUME NEW r \in Requests, purge_owner_repost(r)
       PROVE  BlockInv'
  BY <1>38 DEF purge_owner_repost, Free
<1>39. CASE PostPendingEnd
  <2>1. lrq_type' = lrq_type /\ lrq_owner' = lrq_owner /\ own_blocks' = own_blocks
    BY <1>39 DEF PostPendingEnd
  <2>2. \A r \in Requests : lrq_flags[r] \subseteq lrq_flags'[r]
    BY <1>39 DEF PostPendingEnd
  <2>3. \A r \in Requests : lrq_type[r] # "lrq" => lrq_flags'[r] = lrq_flags[r]
    BY <1>39, QueueMembers DEF PostPendingEnd, QueueInv
  <2> QED
    BY <2>1, <2>2, <2>3
<1>40. ASSUME NEW o \in Owners, purge_owner(o)
       PROVE  BlockInv'
  BY <1>40 DEF purge_owner
<1>41. ASSUME NEW o \in Owners, create_owner(o)
       PROVE  BlockInv'
  BY <1>41 DEF create_owner, At
<1>42. ASSUME NEW o \in Owners, shutdownOwner_awake(o)
       PROVE  BlockInv'
  BY <1>42 DEF shutdownOwner_awake, acquire_shmem
<1>43. ASSUME NEW p \in Processes, purge_process(p)
       PROVE  BlockInv'
  BY <1>43 DEF purge_process
<1>44. ASSUME NEW t \in Threads, release_shmem(t)
       PROVE  BlockInv'
  BY <1>44 DEF release_shmem, At
<1>45. ASSUME NEW t \in Threads, NEW q \in Requests, blocking_action(t, q)
       PROVE  BlockInv'
  <2> DEFINE o == thread[t].serving
  <2>1. o \in Owners /\ q \in own_blocks[o] /\ own_blocks' = [own_blocks EXCEPT ![o] = @ \ {q}]
    BY <1>45 DEF blocking_action, Serving, Contexts
  <2>2. /\ \A r \in Requests \ {q} : /\ lrq_type'[r] = lrq_type[r] /\ lrq_owner'[r] = lrq_owner[r]
                                     /\ lrq_flags'[r] = lrq_flags[r]
        /\ \/ lrq_flags'[q] = {}
           \/ lrq_type'[q] = lrq_type[q] /\ "blocking" \in lrq_flags[q]
    BY <1>45 DEF blocking_action, Free
  <2>3. \A a \in Owners : q \in own_blocks[a] => a = o
    BY <2>1
  <2>4. \A a \in Owners : own_blocks'[a] \subseteq own_blocks[a] /\ q \notin own_blocks'[a]
    BY <2>1, <2>3
  <2>5. lrq_type'[q] # "lrq" => lrq_flags'[q] = {}
    BY <2>2
  <2>6. \A a \in Owners : \A r \in own_blocks'[a] : r \in Requests \ {q} /\ r \in own_blocks[a]
    BY <2>4
  <2>7. \A r \in Requests : lrq_type'[r] # "lrq" => lrq_flags'[r] = {}
    BY <2>2, <2>5
  <2> HIDE DEF o
  <2>8. \A a \in Owners : \A r \in own_blocks'[a] :
          /\ lrq_owner'[r] = a
          /\ lrq_type'[r] = "repost" \/ (lrq_type'[r] = "lrq" /\ "blocking" \in lrq_flags'[r])
    BY <2>2, <2>6
  <2> QED
    BY <2>7, <2>8
<1>46. ASSUME NEW t \in Threads, ast_return(t)
       PROVE  BlockInv'
  BY <1>46 DEF ast_return, acquire_shmem, AfterAction
<1>47. ASSUME NEW t \in Threads, blocking_action_end(t)
       PROVE  BlockInv'
  BY <1>47 DEF blocking_action_end, Serving
<1>48. ASSUME NEW p \in Processes, blocking_thread_wake(p)
       PROVE  BlockInv'
  BY <1>48 DEF blocking_thread_wake, acquire_shmem
<1>49. ASSUME NEW p \in Processes, blocking_thread_sleep(p)
       PROVE  BlockInv'
  BY <1>49 DEF blocking_thread_sleep, At, Goto
<1>50. ASSUME NEW p \in Processes, NEW o \in Owners, blocking_thread_serve(p, o)
       PROVE  BlockInv'
  BY <1>50 DEF blocking_thread_serve, At
<1>51. ASSUME NEW p \in Processes, die(p)
       PROVE  BlockInv'
  BY <1>51 DEF die, Idle
<1> QED
  BY <1>1, <1>2, <1>3, <1>4, <1>5, <1>6, <1>7, <1>8, <1>9, <1>10, <1>11, <1>12, <1>13,
     <1>14, <1>15, <1>16, <1>17, <1>18, <1>19, <1>20, <1>21, <1>22, <1>23, <1>24, <1>25,
     <1>26, <1>27, <1>28, <1>29, <1>30, <1>31, <1>32, <1>33, <1>34, <1>35, <1>36, <1>37,
     <1>38, <1>39, <1>40, <1>41, <1>42, <1>43, <1>44, <1>45, <1>46, <1>47, <1>48, <1>49,
     <1>50, <1>51
     DEF Next, Client, RequestStep, TableStep, AstStep, Crash

\* A request that is released leaves the queue of its lock, which keeps the rest.
LEMMA ReleaseQueue ==
  ASSUME LrqOK, LblOK, QueueInv, NEW r \in Requests, lrq_type[r] = "lrq", release_request(r)
  PROVE  QueueInv'
<1> DEFINE l == lrq_lock[r]
           queue == RemoveFirst(lbl_requests[l], r)
<1>1. l \in Locks /\ In(r, lbl_requests[l]) /\ Distinct(lbl_requests[l])
  BY DEF QueueInv
<1>2. /\ lbl_requests' = [lbl_requests EXCEPT ![l] = queue]
      /\ lrq_type' = [lrq_type EXCEPT ![r] = "null"]
      /\ lrq_lock' = [lrq_lock EXCEPT ![r] = NoLock]
      /\ lrq_owner' = [lrq_owner EXCEPT ![r] = NoOwner]
  BY DEF release_request, Free
<1>3. Distinct(queue) /\ \A x : In(x, queue) <=> (In(x, lbl_requests[l]) /\ x # r)
  BY <1>1, RemoveFirstElements DEF LblOK
<1>4. \A m \in Locks : m # l => lbl_requests'[m] = lbl_requests[m]
  BY <1>2 DEF LblOK
<1>5. lbl_requests'[l] = queue
  BY <1>1, <1>2 DEF LblOK
<1>6. \A q \in Requests : /\ q # r => /\ lrq_type'[q] = lrq_type[q] /\ lrq_lock'[q] = lrq_lock[q]
                                      /\ lrq_owner'[q] = lrq_owner[q]
                          /\ lrq_type'[r] = "null"
  BY <1>2 DEF LrqOK
<1>7. \A m \in Locks : m # l => ~In(r, lbl_requests[m])
  BY DEF QueueInv
<1> HIDE DEF l, queue
<1>8. \A m \in Locks :
        /\ Distinct(lbl_requests'[m])
        /\ \A q \in Requests : In(q, lbl_requests'[m]) => lrq_type'[q] = "lrq" /\ lrq_lock'[q] = m
  BY <1>3, <1>4, <1>5, <1>6, <1>7 DEF QueueInv
<1>9. \A q \in Requests : lrq_type'[q] = "lrq" =>
        lrq_owner'[q] \in Owners /\ lrq_lock'[q] \in Locks /\ In(q, lbl_requests'[lrq_lock'[q]])
  BY <1>3, <1>4, <1>5, <1>6 DEF QueueInv
<1> QED
  BY <1>8, <1>9 DEF QueueInv

\* Every step keeps what is known of queues.
LEMMA QueueStep ==
  ASSUME LrqOK, LblOK, OwnOK, PrcOK, TableOK, CallOK, ThreadInv, UseInv, QueueInv,
         BlockInv, Next
  PROVE  QueueInv'
<1> USE DEF lrqVars, lblVars, LrqOK, QueueInv
<1>1. ASSUME NEW o \in Owners, NEW l \in Locks, NEW level \in Levels, NEW wait \in Waits,
             NEW ast \in Asts, NEW r \in Requests, enqueue(o, l, level, wait, ast, r)
       PROVE  QueueInv'
  BY <1>1 DEF enqueue, acquire_shmem
<1>2. ASSUME NEW q \in Requests, NEW l \in Locks, NEW level \in Levels, NEW wait \in Waits,
             NEW ast \in Asts, NEW r \in Requests, enqueue_prior(q, l, level, wait, ast, r)
       PROVE  QueueInv'
  BY <1>2, ReleaseQueue DEF enqueue_prior, Known
<1>3. ASSUME NEW r \in Requests, NEW level \in Levels, NEW wait \in Waits,
             NEW ast \in Asts, convert(r, level, wait, ast)
       PROVE  QueueInv'
  BY <1>3 DEF convert, acquire_shmem
<1>4. ASSUME NEW r \in Requests, downgrade(r)
       PROVE  QueueInv'
  <2>1. lrq_type' = lrq_type /\ lrq_owner' = lrq_owner /\ lrq_lock' = lrq_lock /\ lbl_requests' = lbl_requests
    BY <1>4 DEF downgrade, Reduce
  <2> QED
    BY <2>1
<1>5. ASSUME NEW r \in Requests, dequeue(r)
       PROVE  QueueInv'
  BY <1>5 DEF dequeue, Reduce, acquire_shmem
<1>6. ASSUME NEW o \in Owners, NEW q \in Requests, repost(o, q)
       PROVE  QueueInv'
  <2>1. \A a \in Requests : (lrq_type'[a] = "lrq" <=> lrq_type[a] = "lrq")
                          /\ (lrq_type[a] = "lrq" => lrq_owner'[a] = lrq_owner[a] /\ lrq_lock'[a] = lrq_lock[a])
    BY <1>6 DEF repost
  <2>2. lbl_requests' = lbl_requests
    BY <1>6 DEF repost
  <2> QED
    BY <2>1, <2>2 DEF LblOK
<1>7. ASSUME NEW o \in Owners, cancelWait(o)
       PROVE  QueueInv'
  BY <1>7 DEF cancelWait
<1>8. ASSUME NEW o \in Owners, Usable(o), initializeOwner_again(o)
       PROVE  QueueInv'
  BY <1>8 DEF initializeOwner_again
<1>9. ASSUME NEW o \in Owners, initializeOwner(o)
       PROVE  QueueInv'
  BY <1>9 DEF initializeOwner, acquire_shmem
<1>10. ASSUME NEW o \in Owners, shutdownOwner(o)
       PROVE  QueueInv'
  BY <1>10 DEF shutdownOwner
<1>11. ASSUME NEW p \in Processes, destroy(p)
       PROVE  QueueInv'
  BY <1>11 DEF destroy
<1>12. ASSUME NEW r \in Requests, enqueue_insert(r)
       PROVE  QueueInv'
  <2> DEFINE c == call[r]
             queue == Append(lbl_requests[c.lock], r)
  <2>1. c \in Calls /\ lrq_type[r] = "null"
    BY <1>12, AtCall DEF enqueue_insert, At, UseInv, NoCall, ThreadInv
  <2>2. c.lock \in Locks /\ c.owner \in Owners
    BY <2>1 DEF Calls
  <2>3. /\ lbl_requests' = [lbl_requests EXCEPT ![c.lock] = Append(@, r)]
        /\ lrq_type' = [lrq_type EXCEPT ![r] = "lrq"]
        /\ lrq_lock' = [lrq_lock EXCEPT ![r] = c.lock]
        /\ lrq_owner' = [lrq_owner EXCEPT ![r] = c.owner]
    BY <1>12 DEF enqueue_insert
  <2>4. ~In(r, lbl_requests[c.lock])
    BY <2>1, <2>2
  <2>5. /\ Distinct(queue)
        /\ \A x : In(x, queue) <=> (In(x, lbl_requests[c.lock]) \/ x = r)
    BY <2>2, <2>4, AppendElements DEF LblOK
  <2>6. /\ \A m \in Locks : m # c.lock => lbl_requests'[m] = lbl_requests[m]
        /\ lbl_requests'[c.lock] = queue
    BY <2>2, <2>3 DEF LblOK
  <2>7. /\ \A q \in Requests : q # r => /\ lrq_type'[q] = lrq_type[q] /\ lrq_lock'[q] = lrq_lock[q]
                                       /\ lrq_owner'[q] = lrq_owner[q]
        /\ lrq_type'[r] = "lrq" /\ lrq_lock'[r] = c.lock /\ lrq_owner'[r] = c.owner
    BY <2>3
  <2>8. \A m \in Locks : ~In(r, lbl_requests[m])
    BY <2>1
  <2> HIDE DEF c, queue, LrqOK
  <2>9. \A m \in Locks :
          /\ Distinct(lbl_requests'[m])
          /\ \A q \in Requests : In(q, lbl_requests'[m]) => lrq_type'[q] = "lrq" /\ lrq_lock'[q] = m
    BY <2>5, <2>6, <2>7, <2>8
  <2>10. \A q \in Requests : lrq_type'[q] = "lrq" =>
           lrq_owner'[q] \in Owners /\ lrq_lock'[q] \in Locks /\ In(q, lbl_requests'[lrq_lock'[q]])
    BY <2>2, <2>5, <2>6, <2>7
  <2> QED
    BY <2>9, <2>10
<1>13. ASSUME NEW r \in Requests, enqueue_grant(r)
       PROVE  QueueInv'
  BY <1>13 DEF enqueue_grant, Succeed, At, Goto, grant
<1>14. ASSUME NEW r \in Requests, grant_or_que_grant(r)
       PROVE  QueueInv'
  BY <1>14 DEF grant_or_que_grant, Succeed, At, grant
<1>15. ASSUME NEW r \in Requests, grant_or_que_block(r)
       PROVE  QueueInv'
  BY <1>15 DEF grant_or_que_block, At, Goto
<1>16. ASSUME NEW r \in Requests, internal_dequeue(r)
       PROVE  QueueInv'
  <2>1. lrq_type[r] = "lrq" /\ release_request(r)
    BY <1>16 DEF internal_dequeue, At, UseInv, ThreadInv
  <2> QED
    BY <2>1, ReleaseQueue
<1>17. ASSUME NEW r \in Requests, internal_convert_grant(r)
       PROVE  QueueInv'
  BY <1>17 DEF internal_convert_grant, Succeed, At, grant
<1>18. ASSUME NEW r \in Requests, internal_convert_block(r)
       PROVE  QueueInv'
  BY <1>18 DEF internal_convert_block, At, Goto
<1>19. ASSUME NEW r \in Requests, internal_convert_undo(r)
       PROVE  QueueInv'
  BY <1>19 DEF internal_convert_undo, Fail, At, Goto
<1>20. ASSUME NEW r \in Requests, wait_for_request(r)
       PROVE  QueueInv'
  <2> DEFINE l == lrq_lock[r]
             rest == RemoveFirst(lbl_requests[l], r)
  <2>1. l \in Locks /\ In(r, lbl_requests[l])
    BY <1>20 DEF wait_for_request, At, UseInv, ThreadInv
  <2>2. /\ lrq_type' = lrq_type /\ lrq_owner' = lrq_owner /\ lrq_lock' = lrq_lock
        /\ lbl_requests' = [lbl_requests EXCEPT ![l] = IF lrq_state[r] = LCK_none THEN Append(rest, r) ELSE @]
    BY <1>20 DEF wait_for_request
  <2>3. /\ rest \in Seq(Requests) /\ Distinct(rest)
        /\ \A x : In(x, rest) <=> (In(x, lbl_requests[l]) /\ x # r)
    BY <2>1, RemoveFirstElements DEF LblOK
  <2>4. /\ Distinct(Append(rest, r))
        /\ \A x : In(x, Append(rest, r)) <=> In(x, lbl_requests[l])
    BY <2>1, <2>3, AppendElements
  <2> HIDE DEF l, rest
  <2> QED
    BY <2>1, <2>2, <2>4 DEF LblOK
<1>21. ASSUME NEW r \in Requests, post_blockage(r)
       PROVE  QueueInv'
  BY <1>21 DEF post_blockage, At, Goto
<1>22. ASSUME NEW r \in Requests, purge_unreachable(r)
       PROVE  QueueInv'
  BY <1>22 DEF purge_unreachable, At
<1>23. ASSUME NEW r \in Requests, NEW b \in Owners, skip_owner(r, b)
       PROVE  QueueInv'
  BY <1>23 DEF skip_owner, At
<1>24. ASSUME NEW r \in Requests, NEW b \in Owners, signal_owner(r, b)
       PROVE  QueueInv'
  BY <1>24 DEF signal_owner, signal_locally, signal_remotely, signal_fails, At
<1>25. ASSUME NEW r \in Requests, wait_resolved(r)
       PROVE  QueueInv'
  BY <1>25 DEF wait_resolved, At, Goto
<1>26. ASSUME NEW r \in Requests, wait_again(r)
       PROVE  QueueInv'
  BY <1>26 DEF wait_again, At, Goto
<1>27. ASSUME NEW r \in Requests, wait_sleep(r)
       PROVE  QueueInv'
  BY <1>27 DEF wait_sleep, At
<1>28. ASSUME NEW r \in Requests, event_wait(r)
       PROVE  QueueInv'
  BY <1>28 DEF event_wait, acquire_shmem
<1>29. ASSUME NEW r \in Requests, wait_expired(r)
       PROVE  QueueInv'
  BY <1>29 DEF wait_expired, At
<1>30. ASSUME NEW r \in Requests, wait_woken(r)
       PROVE  QueueInv'
  BY <1>30 DEF wait_woken, At, Goto
<1>31. ASSUME NEW r \in Requests, wait_probe(r)
       PROVE  QueueInv'
  BY <1>31 DEF wait_probe, At
<1>32. ASSUME NEW r \in Requests, wait_granted(r)
       PROVE  QueueInv'
  BY <1>32 DEF wait_granted, Succeed, At, Goto
<1>33. ASSUME NEW r \in Requests, wait_rejected(r)
       PROVE  QueueInv'
  BY <1>33 DEF wait_rejected, At
<1>34. ASSUME NEW r \in Requests, NEW v \in Requests, deadlock_found(r, v)
       PROVE  QueueInv'
  BY <1>34 DEF deadlock_found, ScanDue, At, Goto
<1>35. ASSUME NEW r \in Requests, deadlock_not_found(r)
       PROVE  QueueInv'
  BY <1>35 DEF deadlock_not_found, At, Goto
<1>36. ASSUME NEW r \in Requests, PostPendingGrant(r)
       PROVE  QueueInv'
  BY <1>36 DEF PostPendingGrant, grant
<1>37. ASSUME NEW r \in Requests, purge_owner_request(r)
       PROVE  QueueInv'
  BY <1>37, ReleaseQueue DEF purge_owner_request
<1>38. ASSUME NEW r \in Requests, purge_owner_repost(r)
       PROVE  QueueInv'
  BY <1>38 DEF purge_owner_repost, Free
<1>39. CASE PostPendingEnd
  BY <1>39 DEF PostPendingEnd
<1>40. ASSUME NEW o \in Owners, purge_owner(o)
       PROVE  QueueInv'
  BY <1>40 DEF purge_owner
<1>41. ASSUME NEW o \in Owners, create_owner(o)
       PROVE  QueueInv'
  BY <1>41 DEF create_owner, At
<1>42. ASSUME NEW o \in Owners, shutdownOwner_awake(o)
       PROVE  QueueInv'
  BY <1>42 DEF shutdownOwner_awake, acquire_shmem
<1>43. ASSUME NEW p \in Processes, purge_process(p)
       PROVE  QueueInv'
  BY <1>43 DEF purge_process
<1>44. ASSUME NEW t \in Threads, release_shmem(t)
       PROVE  QueueInv'
  BY <1>44 DEF release_shmem, At
<1>45. ASSUME NEW t \in Threads, NEW q \in Requests, blocking_action(t, q)
       PROVE  QueueInv'
  <2>1. "blocking" \notin lrq_flags[q] => lrq_type[q] = "repost"
    BY <1>45 DEF blocking_action, Serving, Contexts, CallOK, BlockInv
  <2>2. \A a \in Requests : (lrq_type'[a] = "lrq" <=> lrq_type[a] = "lrq")
                          /\ (lrq_type[a] = "lrq" => lrq_owner'[a] = lrq_owner[a] /\ lrq_lock'[a] = lrq_lock[a])
    BY <1>45, <2>1 DEF blocking_action, Free
  <2>3. lbl_requests' = lbl_requests
    BY <1>45 DEF blocking_action
  <2> QED
    BY <2>2, <2>3 DEF LblOK
<1>46. ASSUME NEW t \in Threads, ast_return(t)
       PROVE  QueueInv'
  BY <1>46 DEF ast_return, acquire_shmem, AfterAction
<1>47. ASSUME NEW t \in Threads, blocking_action_end(t)
       PROVE  QueueInv'
  BY <1>47 DEF blocking_action_end, Serving
<1>48. ASSUME NEW p \in Processes, blocking_thread_wake(p)
       PROVE  QueueInv'
  BY <1>48 DEF blocking_thread_wake, acquire_shmem
<1>49. ASSUME NEW p \in Processes, blocking_thread_sleep(p)
       PROVE  QueueInv'
  BY <1>49 DEF blocking_thread_sleep, At, Goto
<1>50. ASSUME NEW p \in Processes, NEW o \in Owners, blocking_thread_serve(p, o)
       PROVE  QueueInv'
  BY <1>50 DEF blocking_thread_serve, At
<1>51. ASSUME NEW p \in Processes, die(p)
       PROVE  QueueInv'
  BY <1>51 DEF die, Idle
<1> QED
  BY <1>1, <1>2, <1>3, <1>4, <1>5, <1>6, <1>7, <1>8, <1>9, <1>10, <1>11, <1>12, <1>13,
     <1>14, <1>15, <1>16, <1>17, <1>18, <1>19, <1>20, <1>21, <1>22, <1>23, <1>24, <1>25,
     <1>26, <1>27, <1>28, <1>29, <1>30, <1>31, <1>32, <1>33, <1>34, <1>35, <1>36, <1>37,
     <1>38, <1>39, <1>40, <1>41, <1>42, <1>43, <1>44, <1>45, <1>46, <1>47, <1>48, <1>49,
     <1>50, <1>51
     DEF Next, Client, RequestStep, TableStep, AstStep, Crash

\* What every step keeps, and TypeOK with it.
TableInv == TypeOK /\ ThreadInv /\ UseInv /\ QueueInv /\ BlockInv

\* An empty lock table satisfies it.
LEMMA TableInvInit ==
  ASSUME Init
  PROVE  TableInv
<1> USE ConstantsAssumption DEF ConstantsAssumption, Init
<1>0. LCK_none \in LckLevels /\ ZeroCounts \in [LckLevels -> Int] /\ <<>> \in Seq(Requests)
  BY DEF LckLevels, LCK_none, LCK_EX, ZeroCounts
<1>1. TypeOK
  <2>1. LrqOK
    BY <1>0 DEF LrqOK
  <2>2. LblOK
    BY <1>0 DEF LblOK
  <2>3. OwnOK
    BY DEF OwnOK
  <2>4. PrcOK
    BY DEF PrcOK
  <2>5. TableOK
    BY DEF TableOK, Labels
  <2>6. CallOK
    BY <1>0 DEF CallOK, Contexts, Idle
  <2> QED
    BY <2>1, <2>2, <2>3, <2>4, <2>5, <2>6, TypeParts
<1>2. ThreadInv
  BY DEF ThreadInv, Idle, Threads
<1>3. UseInv
  BY DEF UseInv
<1>4. QueueInv
  BY <1>0, EmptySeq DEF QueueInv, Distinct, In
<1>5. BlockInv
  BY DEF BlockInv
<1> QED
  BY <1>1, <1>2, <1>3, <1>4, <1>5 DEF TableInv

\* A step that changes nothing keeps it.
LEMMA TableInvStutter ==
  ASSUME TableInv, UNCHANGED vars
  PROVE  TableInv'
<1>1. UNCHANGED <<lrqVars, lblVars, ownVars, prcVars, tableVars, threadVars>>
  BY DEF vars
<1> USE <1>1 DEF lrqVars, lblVars, ownVars, prcVars, tableVars, threadVars, TableInv
<1>2. TypeOK'
  BY DEF TypeOK
<1>3. ThreadInv' /\ UseInv'
  BY DEF ThreadInv, UseInv
<1>4. QueueInv' /\ BlockInv'
  BY DEF QueueInv, BlockInv
<1> QED
  BY <1>2, <1>3, <1>4

\* Every step keeps it.
LEMMA TableInvStep == TableInv /\ [Next]_vars => TableInv'
<1> SUFFICES ASSUME TableInv, [Next]_vars PROVE TableInv'
  OBVIOUS
<1>1. CASE Next
  <2>1. LrqOK /\ LblOK /\ OwnOK /\ PrcOK /\ TableOK /\ CallOK
    BY TypeParts DEF TableInv
  <2>2. ThreadInv /\ UseInv /\ QueueInv /\ BlockInv
    BY DEF TableInv
  <2>3. LrqOK' /\ LblOK' /\ OwnOK' /\ PrcOK' /\ TableOK' /\ CallOK'
    BY <1>1, <2>1, <2>2, TypeStep
  <2>4. TypeOK'
    BY <2>3 DEF TypeOK, LrqOK, LblOK, OwnOK, PrcOK, TableOK, CallOK
  <2>5. ThreadInv'
    BY <1>1, <2>1, <2>2, ThreadStep
  <2>6. UseInv'
    BY <1>1, <2>1, <2>2, UseStep
  <2>7. QueueInv'
    BY <1>1, <2>1, <2>2, QueueStep
  <2>8. BlockInv'
    BY <1>1, <2>1, <2>2, BlockStep
  <2> QED
    BY <2>4, <2>5, <2>6, <2>7, <2>8 DEF TableInv
<1>2. CASE UNCHANGED vars
  BY <1>2, TableInvStutter
<1> QED
  BY <1>1, <1>2

\* Every variable keeps its type: no call, delivery or purge, however they
\* interleave, leaves a field of a block without a value of its kind.
THEOREM TypeCorrect == Spec => []TypeOK
<1>1. Init => TableInv
  BY TableInvInit
<1>2. TableInv /\ [Next]_vars => TableInv'
  BY TableInvStep
<1>3. TableInv => TypeOK
  BY DEF TableInv
<1> QED
  BY <1>1, <1>2, <1>3, PTL DEF Spec

-----------------------------------------------------------------------------
(* Granted levels are compatible.                                            *)

\* Compatibility is symmetric, LCK_none is compatible with everything, and what
\* is compatible with the highest level of compatible ones is so with each.
LEMMA Compatible ==
  /\ \A a, b \in LckLevels : compatibility(a, b) <=> compatibility(b, a)
  /\ \A a \in LckLevels : compatibility(a, LCK_none) /\ compatibility(LCK_none, a)
  /\ \A a, s, m \in LckLevels :
       s <= m /\ compatibility(a, m) /\ compatibility(s, m) => compatibility(a, s)
<1> DEFINE L == {0, 1, 2, 3, 4, 5, 6}
           c(a, b) == \/ a \in {0, 1} \/ b \in {0, 1}
                      \/ (a = 2 /\ b # 6) \/ (b = 2 /\ a # 6)
                      \/ (a = 3 /\ b = 3) \/ (a = 4 /\ b = 4)
<1>1. LckLevels = L
  BY DEF LckLevels, LCK_none, LCK_EX
<1>2. \A a, b \in L : compatibility(a, b) <=> c(a, b)
  <2> TAKE a, b \in L
  <2> USE DEF compatibility, LCK_none, LCK_null, LCK_SR, LCK_PR, LCK_SW, LCK_PW, LCK_EX
  <2>0. CASE a = 0
    BY <2>0
  <2>1. CASE a = 1
    BY <2>1
  <2>2. CASE a = 2
    BY <2>2
  <2>3. CASE a = 3
    BY <2>3
  <2>4. CASE a = 4
    BY <2>4
  <2>5. CASE a = 5
    BY <2>5
  <2>6. CASE a = 6
    BY <2>6
  <2> QED
    BY <2>0, <2>1, <2>2, <2>3, <2>4, <2>5, <2>6
<1>3. LCK_none = 0
  BY DEF LCK_none
<1>4. \A a, b \in L : c(a, b) <=> c(b, a)
  OBVIOUS
<1>5. \A a \in L : c(a, 0) /\ c(0, a)
  OBVIOUS
<1>6. \A a, s, m \in L : s <= m /\ c(a, m) /\ c(s, m) => c(a, s)
  OBVIOUS
<1> HIDE DEF c, L
<1> QED
  BY <1>1, <1>2, <1>3, <1>4, <1>5, <1>6, 0 \in L DEF L

\* lock_state looks only at which levels are counted at all.
LEMMA LockStateSame ==
  ASSUME NEW c, NEW d, \A s \in LCK_null .. LCK_EX : c[s] # 0 <=> d[s] # 0
  PROVE  lock_state(c) = lock_state(d)
<1>1. {s \in LCK_null .. LCK_EX : c[s] # 0} = {s \in LCK_null .. LCK_EX : d[s] # 0}
  OBVIOUS
<1> QED
  BY <1>1 DEF lock_state

\* The counts of lock l are right, and so is its state.
CountsRight(l) == \A s \in LCK_null .. LCK_EX : lbl_counts[l][s] = Cardinality(Holders(l, s))
StateRight(l) == lbl_state[l] = lock_state(lbl_counts[l])

\* The request in the table is one that enqueue has just put in its queue; if
\* the lock is new it is alone there.
NewInv ==
  holder \in Requests /\ next \in {"grant", "grant_or_que"} =>
    /\ lrq_type[holder] = "lrq"
    /\ lrq_state[holder] = LCK_none
    /\ "pending" \notin lrq_flags[holder]
    /\ next = "grant" => \A q \in Requests :
         lrq_type[q] = "lrq" /\ lrq_lock[q] = lrq_lock[holder] => q = holder

\* enqueue sets up the state of a new lock before it has granted the request.
SetUp(l) == holder \in Requests /\ next = "grant" /\ lrq_lock[holder] = l

CountInv == \A l \in Locks : CountsRight(l) /\ (StateRight(l) \/ SetUp(l))

\* Requests are finite in number, so the holders of a level can be counted.
LEMMA HoldersFinite ==
  ASSUME NEW l, NEW s, NEW X
  PROVE  /\ IsFiniteSet(Holders(l, s)) /\ IsFiniteSet(Holders(l, s) \ X)
         /\ Cardinality(Holders(l, s)) \in Nat /\ Cardinality(Holders(l, s) \ X) \in Nat
<1>1. IsFiniteSet(Holders(l, s))
  BY FS_Subset, ConstantsAssumption DEF ConstantsAssumption, Holders
<1>2. IsFiniteSet(Holders(l, s) \ X)
  BY <1>1, FS_Subset
<1> QED
  BY <1>1, <1>2, FS_CardinalityType

\* counts are the numbers of requests for lock l but r, by the levels they hold.
CountOthers(counts, l, r) ==
  \A s \in LCK_null .. LCK_EX : counts[s] = Cardinality(Holders(l, s) \ {r})

\* CountsWithout counts the others; so does lbl_counts if r holds nothing.
LEMMA OthersCounted ==
  ASSUME LrqOK, LblOK, NEW r \in Requests, lrq_type[r] = "lrq", lrq_lock[r] \in Locks,
         CountsRight(lrq_lock[r])
  PROVE  /\ CountOthers(CountsWithout(r), lrq_lock[r], r)
         /\ lrq_state[r] = LCK_none => CountOthers(lbl_counts[lrq_lock[r]], lrq_lock[r], r)
<1> DEFINE l == lrq_lock[r]
           old == lbl_counts[l]
           s0 == lrq_state[r]
<1>1. old \in [LckLevels -> Int] /\ s0 \in LckLevels
  BY DEF LrqOK, LblOK
<1>2. CountsWithout(r) = [old EXCEPT ![s0] = old[s0] - 1]
  BY DEF CountsWithout
<1>3. LCK_null .. LCK_EX \subseteq LckLevels /\ LCK_none \notin LCK_null .. LCK_EX
  BY DEF LckLevels, LCK_none, LCK_null, LCK_EX
<1>4. \A s \in LCK_null .. LCK_EX : s # s0 =>
        CountsWithout(r)[s] = old[s] /\ Holders(l, s) \ {r} = Holders(l, s)
  BY <1>1, <1>2, <1>3 DEF Holders
<1>5. CountsWithout(r)[s0] = old[s0] - 1
  BY <1>1, <1>2
<1>6. Cardinality(Holders(l, s0) \ {r}) = Cardinality(Holders(l, s0)) - 1
  <2>1. IsFiniteSet(Holders(l, s0))
    BY HoldersFinite
  <2>2. r \in Holders(l, s0)
    BY DEF Holders
  <2> QED
    BY <2>1, <2>2, FS_RemoveElement
<1>7. \A s \in LCK_null .. LCK_EX : old[s] = Cardinality(Holders(l, s))
  BY DEF CountsRight
<1> HIDE DEF l, old, s0
<1>8. CountOthers(CountsWithout(r), l, r)
  BY <1>4, <1>5, <1>6, <1>7 DEF CountOthers
<1>9. s0 = LCK_none => CountOthers(old, l, r)
  BY <1>3, <1>4, <1>7 DEF CountOthers
<1> QED
  BY <1>8, <1>9 DEF l, old, s0

\* A level that is compatible with the highest level of the others is
\* compatible with each of them.
LEMMA CompatibleWithOthers ==
  ASSUME LrqOK, GrantedCompatible, NEW l, NEW r \in Requests, NEW counts,
         CountOthers(counts, l, r), NEW a \in LckLevels, compatibility(a, lock_state(counts)),
         NEW q \in Requests, q # r, lrq_type[q] = "lrq", lrq_lock[q] = l
  PROVE  compatibility(a, lrq_state[q])
<1> DEFINE s == lrq_state[q]
           m == lock_state(counts)
<1>1. s \in LckLevels /\ m \in LckLevels
  BY LockState DEF LrqOK
<1>2. CASE s = LCK_none
  BY <1>2, Compatible
<1>3. CASE s # LCK_none
  <2>1. s \in LCK_null .. LCK_EX
    BY <1>1, <1>3 DEF LckLevels, LCK_none, LCK_null, LCK_EX
  <2>2. q \in Holders(l, s) \ {r}
    BY DEF Holders
  <2>3. counts[s] # 0
    BY <2>1, <2>2, HoldersFinite, FS_EmptySet DEF CountOthers
  <2>4. s <= m
    BY <2>1, <2>3, LockState
  <2>5. m # LCK_none
    BY <2>1, <2>4 DEF LCK_none, LCK_null, LCK_EX
  <2>6. m \in LCK_null .. LCK_EX /\ counts[m] # 0
    BY <2>5, LockState
  <2>7. Holders(l, m) \ {r} # {}
    BY <2>6, FS_EmptySet DEF CountOthers
  <2>8. PICK p \in Requests : p # r /\ lrq_type[p] = "lrq" /\ lrq_lock[p] = l /\ lrq_state[p] = m
    BY <2>7 DEF Holders
  <2>9. compatibility(s, m) \/ s = m
    BY <2>8 DEF GrantedCompatible
  <2> HIDE DEF s, m
  <2>10. compatibility(a, s)
    BY <1>1, <2>4, <2>9, Compatible DEF m
  <2> QED
    BY <2>10 DEF s
<1> QED
  BY <1>2, <1>3

\* What grants keep for lock l, whose requests change, and for the others.
KeptAt(l) ==
  /\ GrantedCompatible'
  /\ \A m \in Locks : CountsRight(m)'
  /\ StateRight(l)'
  /\ \A m \in Locks \ {l} : StateRight(m)' <=> StateRight(m)

\* grant keeps it, if the level is compatible with what the others hold.
LEMMA GrantKeeps ==
  ASSUME LrqOK, LblOK, GrantedCompatible, \A m \in Locks : CountsRight(m),
         NEW r \in Requests, NEW l \in Locks, lrq_type[r] = "lrq", lrq_lock[r] = l,
         NEW counts \in [LckLevels -> Int], CountOthers(counts, l, r), grant(r, counts),
         \A q \in Requests : q # r /\ lrq_type[q] = "lrq" /\ lrq_lock[q] = l =>
           compatibility(lrq_requested[r], lrq_state[q])
  PROVE  KeptAt(l)
<1> DEFINE a == lrq_requested[r]
           new == [counts EXCEPT ![a] = @ + 1]
<1>1. /\ lrq_type' = lrq_type /\ lrq_lock' = lrq_lock
      /\ lrq_state' = [lrq_state EXCEPT ![r] = a]
      /\ lbl_counts' = [lbl_counts EXCEPT ![l] = new]
      /\ lbl_state' = [lbl_state EXCEPT ![l] = lock_state(new)]
  BY DEF grant
<1>2. a \in LckLevels
  BY DEF LrqOK
<1>3. /\ lrq_state'[r] = a
      /\ \A q \in Requests : q # r => lrq_state'[q] = lrq_state[q]
      /\ lbl_counts'[l] = new /\ lbl_state'[l] = lock_state(new)
      /\ \A m \in Locks : m # l => lbl_counts'[m] = lbl_counts[m] /\ lbl_state'[m] = lbl_state[m]
  BY <1>1 DEF LrqOK, LblOK
<1>4. \A s \in LckLevels : new[s] = IF s = a THEN counts[s] + 1 ELSE counts[s]
  BY <1>2
<1> HIDE DEF a, new
<1>5. GrantedCompatible'
  <2> SUFFICES ASSUME NEW r1 \in Requests, NEW r2 \in Requests, r1 # r2,
                      lrq_type[r1] = "lrq", lrq_type[r2] = "lrq", lrq_lock[r1] = lrq_lock[r2]
               PROVE  compatibility(lrq_state'[r1], lrq_state'[r2])
    BY <1>1 DEF GrantedCompatible
  <2>1. lrq_state[r1] \in LckLevels /\ lrq_state[r2] \in LckLevels
    BY DEF LrqOK
  <2>2. CASE r1 = r
    BY <1>3, <2>2 DEF a
  <2>3. CASE r2 = r
    <3>1. compatibility(a, lrq_state[r1])
      BY <2>3 DEF a
    <3> QED
      BY <1>2, <1>3, <2>1, <2>3, <3>1, Compatible
  <2>4. CASE r1 # r /\ r2 # r
    BY <1>3, <2>4 DEF GrantedCompatible
  <2> QED
    BY <2>2, <2>3, <2>4
<1>6. \A m \in Locks : CountsRight(m)'
  <2> SUFFICES ASSUME NEW m \in Locks, NEW s \in LCK_null .. LCK_EX
               PROVE  lbl_counts'[m][s] = Cardinality(Holders(m, s)')
    BY DEF CountsRight
  <2>0. s \in LckLevels
    BY DEF LckLevels, LCK_none, LCK_null, LCK_EX
  <2>1. CASE m # l
    <3>1. Holders(m, s)' = Holders(m, s)
      BY <1>1, <1>3, <2>1 DEF Holders
    <3> QED
      BY <1>3, <2>1, <3>1 DEF CountsRight
  <2>2. CASE m = l /\ s # a
    <3>1. Holders(m, s)' = Holders(l, s) \ {r}
      BY <1>1, <1>3, <2>2 DEF Holders
    <3> QED
      BY <1>3, <1>4, <2>0, <2>2, <3>1 DEF CountOthers
  <2>3. CASE m = l /\ s = a
    <3>1. Holders(m, s)' = (Holders(l, s) \ {r}) \cup {r}
      BY <1>1, <1>3, <2>3 DEF Holders
    <3>2. IsFiniteSet(Holders(l, s) \ {r}) /\ r \notin Holders(l, s) \ {r}
      BY HoldersFinite
    <3>3. Cardinality(Holders(m, s)') = Cardinality(Holders(l, s) \ {r}) + 1
      BY <3>1, <3>2, FS_AddElement
    <3> QED
      BY <1>3, <1>4, <2>0, <2>3, <3>3 DEF CountOthers
  <2> QED
    BY <2>1, <2>2, <2>3
<1>7. StateRight(l)' /\ \A m \in Locks \ {l} : StateRight(m)' <=> StateRight(m)
  BY <1>3 DEF StateRight
<1> QED
  BY <1>5, <1>6, <1>7 DEF KeptAt

\* So does release_request.
LEMMA ReleaseKeeps ==
  ASSUME LrqOK, LblOK, QueueInv, GrantedCompatible, \A m \in Locks : CountsRight(m),
         NEW r \in Requests, NEW l \in Locks, lrq_type[r] = "lrq", lrq_lock[r] = l,
         StateRight(l), release_request(r)
  PROVE  KeptAt(l)
<1> DEFINE queue == RemoveFirst(lbl_requests[l], r)
           s0 == lrq_state[r]
           old == lbl_counts[l]
           counts == IF queue = <<>> THEN ZeroCounts
                     ELSE IF s0 # LCK_none THEN CountsWithout(r) ELSE old
           state == IF queue = <<>> THEN LCK_none
                    ELSE IF s0 # LCK_none /\ counts[s0] = 0 THEN lock_state(counts)
                    ELSE lbl_state[l]
<1>1. /\ lrq_type' = [lrq_type EXCEPT ![r] = "null"]
      /\ lrq_lock' = [lrq_lock EXCEPT ![r] = NoLock]
      /\ lrq_state' = [lrq_state EXCEPT ![r] = LCK_none]
      /\ lbl_requests' = [lbl_requests EXCEPT ![l] = queue]
      /\ lbl_counts' = [lbl_counts EXCEPT ![l] = counts]
      /\ lbl_state' = [lbl_state EXCEPT ![l] = state]
  BY DEF release_request, Free
<1>2. /\ lrq_type'[r] = "null"
      /\ \A q \in Requests : q # r => /\ lrq_type'[q] = lrq_type[q] /\ lrq_lock'[q] = lrq_lock[q]
                                      /\ lrq_state'[q] = lrq_state[q]
  BY <1>1 DEF LrqOK
<1>3. /\ lbl_requests'[l] = queue /\ lbl_counts'[l] = counts /\ lbl_state'[l] = state
      /\ \A m \in Locks : m # l => lbl_counts'[m] = lbl_counts[m] /\ lbl_state'[m] = lbl_state[m]
  BY <1>1 DEF LblOK
<1>4. \A s : Holders(l, s)' = Holders(l, s) \ {r}
  BY <1>2 DEF Holders
<1>5. \A m \in Locks : \A s : m # l => Holders(m, s)' = Holders(m, s)
  BY <1>2 DEF Holders
<1>6. queue = <<>> => \A s : Holders(l, s)' = {}
  <2> SUFFICES ASSUME queue = <<>>, NEW s, NEW q \in Holders(l, s)' PROVE FALSE
    OBVIOUS
  <2>1. q \in Requests /\ lrq_type'[q] = "lrq" /\ lrq_lock'[q] = l
    BY DEF Holders
  <2>2. In(q, lbl_requests'[l])
    BY <2>1, ReleaseQueue DEF QueueInv
  <2>3. In(q, <<>>)
    BY <1>3, <2>2
  <2> QED
    BY <2>3 DEF In
<1>7. /\ CountOthers(CountsWithout(r), l, r)
      /\ s0 = LCK_none => CountOthers(old, l, r)
  BY OthersCounted
<1>8. CountOthers(counts, l, r)
  <2>1. CASE queue = <<>>
    <3>1. \A s \in LCK_null .. LCK_EX : ZeroCounts[s] = 0
      BY DEF ZeroCounts, LckLevels, LCK_none, LCK_null, LCK_EX
    <3> QED
      BY <1>4, <1>6, <2>1, <3>1, FS_EmptySet DEF CountOthers
  <2>2. CASE queue # <<>>
    BY <1>7, <2>2
  <2> QED
    BY <2>1, <2>2
<1>9. state = lock_state(counts)
  <2>1. CASE queue = <<>>
    <3>1. \A s \in LCK_null .. LCK_EX : ZeroCounts[s] = 0
      BY DEF ZeroCounts, LckLevels, LCK_none, LCK_null, LCK_EX
    <3>2. lock_state(ZeroCounts) = LCK_none
      BY <3>1, LockState
    <3> QED
      BY <2>1, <3>2
  <2>2. CASE queue # <<>> /\ (s0 = LCK_none \/ counts[s0] # 0)
    <3>1. lbl_state[l] = lock_state(old)
      BY DEF StateRight
    <3>2. CASE s0 = LCK_none
      BY <2>2, <3>1, <3>2
    <3>3. CASE s0 # LCK_none
      <4>1. s0 \in LCK_null .. LCK_EX
        BY <3>3 DEF LrqOK, LckLevels, LCK_none, LCK_null, LCK_EX
      <4>2. \A s \in LCK_null .. LCK_EX : s # s0 => Holders(l, s) \ {r} = Holders(l, s)
        BY DEF Holders
      <4>3. \A s \in LCK_null .. LCK_EX : s # s0 => counts[s] = old[s]
        BY <1>8, <4>2 DEF CountOthers, CountsRight
      <4>4. old[s0] # 0
        <5>1. r \in Holders(l, s0)
          BY DEF Holders
        <5>2. Cardinality(Holders(l, s0)) # 0
          BY <5>1, HoldersFinite, FS_EmptySet
        <5> QED
          BY <4>1, <5>2 DEF CountsRight
      <4> HIDE DEF counts, old, s0
      <4>5. \A s \in LCK_null .. LCK_EX : counts[s] # 0 <=> old[s] # 0
        BY <2>2, <3>3, <4>3, <4>4
      <4>6. lock_state(counts) = lock_state(old)
        BY <4>5, LockStateSame
      <4> QED
        BY <2>2, <3>1, <3>3, <4>6 DEF counts, old, s0
    <3> QED
      BY <3>2, <3>3
  <2>3. CASE queue # <<>> /\ s0 # LCK_none /\ counts[s0] = 0
    BY <2>3
  <2> QED
    BY <2>1, <2>2, <2>3
<1> HIDE DEF queue, s0, old, counts, state
<1>10. GrantedCompatible'
  BY <1>2 DEF GrantedCompatible
<1>11. \A m \in Locks : CountsRight(m)'
  <2>1. \A m \in Locks : m # l => CountsRight(m)'
    BY <1>3, <1>5 DEF CountsRight
  <2>2. CountsRight(l)'
    BY <1>3, <1>4, <1>8 DEF CountsRight, CountOthers
  <2> QED
    BY <2>1, <2>2
<1>12. StateRight(l)' /\ \A m \in Locks \ {l} : StateRight(m)' <=> StateRight(m)
  BY <1>3, <1>9 DEF StateRight
<1> QED
  BY <1>10, <1>11, <1>12 DEF KeptAt

\* No request for a lock gets or loses a level, nor does its lock change.
SameGrants ==
  /\ lbl_counts' = lbl_counts /\ lbl_state' = lbl_state
  /\ \A r \in Requests :
       /\ lrq_type'[r] = "lrq" <=> lrq_type[r] = "lrq"
       /\ lrq_type[r] = "lrq" => lrq_lock'[r] = lrq_lock[r] /\ lrq_state'[r] = lrq_state[r]

\* The thread in the table is in the middle of granting a new request.
Granting == holder \in Requests /\ next \in {"grant", "grant_or_que"}

\* If it is, it goes on with that request, which does not become pending, or it
\* gives up without having set up a lock.
SameGranting ==
  \/ ~Granting' /\ (Granting => next = "grant_or_que")
  \/ /\ holder' = holder /\ next' = next
     /\ \A r \in Requests : "pending" \in lrq_flags'[r] => "pending" \in lrq_flags[r]

\* What is known of grants.
GrantInv == NewInv /\ CountInv /\ GrantedCompatible

\* Such a step keeps the counts and the compatibility of what is granted.
LEMMA SameKeeps ==
  ASSUME QueueInv, GrantInv, SameGrants, SameGranting
  PROVE  GrantInv'
<1>1. NewInv'
  BY DEF GrantInv, NewInv, SameGrants, SameGranting, Granting
<1>2. CountInv'
  <2>1. \A m \in Locks : \A s : Holders(m, s)' = Holders(m, s)
    BY DEF SameGrants, Holders
  <2>2. \A m \in Locks : (CountsRight(m) => CountsRight(m)') /\ (StateRight(m) => StateRight(m)')
    BY <2>1 DEF SameGrants, CountsRight, StateRight
  <2>3. \A m \in Locks : SetUp(m) => SetUp(m)'
    BY DEF GrantInv, NewInv, SetUp, SameGrants, SameGranting, Granting
  <2> QED
    BY <2>2, <2>3 DEF GrantInv, CountInv
<1>3. GrantedCompatible'
  BY DEF GrantInv, GrantedCompatible, SameGrants
<1> QED
  BY <1>1, <1>2, <1>3 DEF GrantInv

\* Every step keeps what is known of grants.
LEMMA GrantStep ==
  ASSUME LrqOK, LblOK, OwnOK, PrcOK, TableOK, CallOK, ThreadInv, UseInv, QueueInv,
         BlockInv, GrantInv, Next
  PROVE  GrantInv'
<1>1. ASSUME NEW o \in Owners, NEW l \in Locks, NEW level \in Levels, NEW wait \in Waits,
             NEW ast \in Asts, NEW r \in Requests, enqueue(o, l, level, wait, ast, r)
       PROVE  GrantInv'
  BY <1>1, SameKeeps, ConstantsAssumption DEF enqueue, acquire_shmem, Threads,
     ConstantsAssumption, SameGrants, SameGranting, Granting, lrqVars, lblVars, tableVars
<1>2. ASSUME NEW q \in Requests, NEW l \in Locks, NEW level \in Levels, NEW wait \in Waits,
             NEW ast \in Asts, NEW r \in Requests, enqueue_prior(q, l, level, wait, ast, r)
       PROVE  GrantInv'
  <2>1. /\ lrq_type[q] = "lrq" /\ release_request(q)
        /\ ~Granting /\ ~Granting'
    BY <1>2, ConstantsAssumption DEF enqueue_prior, Known, acquire_shmem, ConstantsAssumption,
       Threads, Granting
  <2>2. PICK k \in Locks : lrq_lock[q] = k
    BY <2>1 DEF QueueInv
  <2>3. \A m \in Locks : CountsRight(m) /\ StateRight(m)
    BY <2>1 DEF GrantInv, CountInv, SetUp, Granting
  <2>4. KeptAt(k)
    BY <2>1, <2>2, <2>3, ReleaseKeeps DEF GrantInv
  <2>5. NewInv' /\ GrantedCompatible'
    BY <2>1, <2>4 DEF NewInv, Granting, KeptAt
  <2>6. CountInv'
    BY <2>3, <2>4 DEF CountInv, KeptAt
  <2> QED
    BY <2>5, <2>6 DEF GrantInv
<1>3. ASSUME NEW r \in Requests, NEW level \in Levels, NEW wait \in Waits,
             NEW ast \in Asts, convert(r, level, wait, ast)
       PROVE  GrantInv'
  BY <1>3, SameKeeps, ConstantsAssumption DEF convert, acquire_shmem, Threads,
     ConstantsAssumption, SameGrants, SameGranting, Granting, lrqVars, lblVars, tableVars
<1>4. ASSUME NEW r \in Requests, downgrade(r)
       PROVE  GrantInv'
  BY <1>4, SameKeeps, ConstantsAssumption DEF downgrade, Reduce, acquire_shmem, Threads,
     ConstantsAssumption, SameGrants, SameGranting, Granting, lrqVars, lblVars, tableVars
<1>5. ASSUME NEW r \in Requests, dequeue(r)
       PROVE  GrantInv'
  BY <1>5, SameKeeps, ConstantsAssumption DEF dequeue, Reduce, acquire_shmem, Threads,
     ConstantsAssumption, SameGrants, SameGranting, Granting, lrqVars, lblVars, tableVars
<1>6. ASSUME NEW o \in Owners, NEW q \in Requests, repost(o, q)
       PROVE  GrantInv'
  BY <1>6, SameKeeps, ConstantsAssumption DEF repost, acquire_shmem, Threads,
     ConstantsAssumption, SameGrants, SameGranting, Granting, lrqVars, lblVars, tableVars
<1>7. ASSUME NEW o \in Owners, cancelWait(o)
       PROVE  GrantInv'
  BY <1>7, SameKeeps DEF cancelWait, SameGrants, SameGranting, Granting, lrqVars, lblVars,
     tableVars
<1>8. ASSUME NEW o \in Owners, Usable(o), initializeOwner_again(o)
       PROVE  GrantInv'
  BY <1>8, SameKeeps DEF initializeOwner_again, SameGrants, SameGranting, Granting, lrqVars,
     lblVars, tableVars
<1>9. ASSUME NEW o \in Owners, initializeOwner(o)
       PROVE  GrantInv'
  BY <1>9, SameKeeps, ConstantsAssumption DEF initializeOwner, acquire_shmem, Threads,
     ConstantsAssumption, SameGrants, SameGranting, Granting, lrqVars, lblVars, tableVars
<1>10. ASSUME NEW o \in Owners, shutdownOwner(o)
       PROVE  GrantInv'
  BY <1>10, SameKeeps, ConstantsAssumption DEF shutdownOwner, Threads, ConstantsAssumption,
     SameGrants, SameGranting, Granting, lrqVars, lblVars, tableVars
<1>11. ASSUME NEW p \in Processes, destroy(p)
       PROVE  GrantInv'
  BY <1>11, SameKeeps DEF destroy, SameGrants, SameGranting, Granting, lrqVars, lblVars,
     tableVars
<1>12. ASSUME NEW r \in Requests, enqueue_insert(r)
       PROVE  GrantInv'
  <2>1. /\ holder = r /\ next = "insert" /\ call[r] \in Calls /\ lrq_type[r] = "null"
    BY <1>12, AtCall DEF enqueue_insert, At, UseInv, NoCall, ThreadInv
  <2>2. PICK l \in Locks : call[r].lock = l
    BY <2>1 DEF Calls
  <2>3. /\ lrq_type' = [lrq_type EXCEPT ![r] = "lrq"]
        /\ lrq_lock' = [lrq_lock EXCEPT ![r] = l]
        /\ lrq_state' = [lrq_state EXCEPT ![r] = LCK_none]
        /\ lrq_flags' = [lrq_flags EXCEPT ![r] = {}]
        /\ lbl_state' = [lbl_state EXCEPT ![l] =
             IF lbl_requests[l] # <<>> THEN @ ELSE call[r].level]
        /\ lbl_counts' = [lbl_counts EXCEPT ![l] =
             IF lbl_requests[l] # <<>> THEN @ ELSE ZeroCounts]
        /\ holder' = r
        /\ next' = IF lbl_requests[l] # <<>> THEN "grant_or_que" ELSE "grant"
    BY <1>12, <2>1, <2>2 DEF enqueue_insert, Goto
  <2>4. /\ lrq_type'[r] = "lrq" /\ lrq_lock'[r] = l /\ lrq_state'[r] = LCK_none
        /\ lrq_flags'[r] = {}
        /\ \A q \in Requests : q # r => /\ lrq_type'[q] = lrq_type[q] /\ lrq_lock'[q] = lrq_lock[q]
                                        /\ lrq_state'[q] = lrq_state[q]
    BY <2>3 DEF LrqOK
  <2>5. lbl_requests[l] = <<>> =>
          \A q \in Requests : ~(lrq_type[q] = "lrq" /\ lrq_lock[q] = l)
    BY <2>2 DEF QueueInv, In
  <2>6. NewInv'
    BY <2>3, <2>4, <2>5 DEF NewInv
  <2>7. \A m \in Locks : \A s \in LCK_null .. LCK_EX : Holders(m, s)' = Holders(m, s)
    <3>1. LCK_none \notin LCK_null .. LCK_EX
      BY DEF LCK_none, LCK_null, LCK_EX
    <3> QED
      BY <2>1, <2>4, <3>1 DEF Holders
  <2>8. \A m \in Locks : CountsRight(m) /\ StateRight(m)
    BY <2>1 DEF GrantInv, CountInv, SetUp
  <2>9. CountInv'
    <3>1. CASE lbl_requests[l] # <<>>
      <4>1. lbl_counts' = lbl_counts /\ lbl_state' = lbl_state
        BY <2>3, <3>1 DEF LblOK
      <4> QED
        BY <2>7, <2>8, <4>1 DEF CountInv, CountsRight, StateRight
    <3>2. CASE lbl_requests[l] = <<>>
      <4>1. /\ lbl_counts'[l] = ZeroCounts
            /\ \A m \in Locks : m # l =>
                 lbl_counts'[m] = lbl_counts[m] /\ lbl_state'[m] = lbl_state[m]
        BY <2>2, <2>3, <3>2 DEF LblOK
      <4>2. SetUp(l)'
        BY <2>3, <2>4, <3>2 DEF SetUp
      <4>3. CountsRight(l)'
        <5>1. \A s \in LCK_null .. LCK_EX : ZeroCounts[s] = 0 /\ Holders(l, s) = {}
          BY <2>5, <3>2 DEF Holders, ZeroCounts, LckLevels, LCK_none, LCK_null, LCK_EX
        <5> QED
          BY <2>2, <2>7, <4>1, <5>1, FS_EmptySet DEF CountsRight
      <4>4. \A m \in Locks : m # l => CountsRight(m)' /\ StateRight(m)'
        BY <2>7, <2>8, <4>1 DEF CountsRight, StateRight
      <4> QED
        BY <4>2, <4>3, <4>4 DEF CountInv
    <3> QED
      BY <3>1, <3>2
  <2>10. GrantedCompatible'
    <3> SUFFICES ASSUME NEW r1 \in Requests, NEW r2 \in Requests, r1 # r2,
                        lrq_type'[r1] = "lrq", lrq_type'[r2] = "lrq", lrq_lock'[r1] = lrq_lock'[r2]
                 PROVE  compatibility(lrq_state'[r1], lrq_state'[r2])
      BY DEF GrantedCompatible
    <3>1. CASE r1 = r \/ r2 = r
      BY <2>4, <3>1, Compatible DEF LrqOK
    <3>2. CASE r1 # r /\ r2 # r
      BY <2>4, <3>2 DEF GrantInv, GrantedCompatible
    <3> QED
      BY <3>1, <3>2
  <2> QED
    BY <2>6, <2>9, <2>10 DEF GrantInv
<1>13. ASSUME NEW r \in Requests, enqueue_grant(r)
       PROVE  GrantInv'
  <2>1. /\ holder = r /\ next = "grant" /\ grant(r, lbl_counts[lrq_lock[r]]) /\ next' = "done"
        /\ lrq_type[r] = "lrq" /\ lrq_state[r] = LCK_none
        /\ \A q \in Requests : lrq_type[q] = "lrq" /\ lrq_lock[q] = lrq_lock[r] => q = r
    BY <1>13 DEF enqueue_grant, At, Goto, GrantInv, NewInv
  <2>2. PICK l \in Locks : lrq_lock[r] = l
    BY <2>1 DEF QueueInv
  <2>3. \A m \in Locks : CountsRight(m) /\ (m # l => StateRight(m))
    BY <2>1, <2>2 DEF GrantInv, CountInv, SetUp
  <2>4. CountOthers(lbl_counts[l], l, r) /\ lbl_counts[l] \in [LckLevels -> Int]
    BY <2>1, <2>2, <2>3, OthersCounted DEF LblOK
  <2>5. KeptAt(l)
    BY <2>1, <2>2, <2>3, <2>4, GrantKeeps DEF GrantInv
  <2>6. NewInv' /\ GrantedCompatible'
    BY <2>1, <2>5 DEF NewInv, KeptAt
  <2>7. CountInv'
    BY <2>3, <2>5 DEF CountInv, KeptAt
  <2> QED
    BY <2>6, <2>7 DEF GrantInv
<1>14. ASSUME NEW r \in Requests, grant_or_que_grant(r)
       PROVE  GrantInv'
  <2>1. /\ holder = r /\ next = "grant_or_que" /\ grant(r, lbl_counts[lrq_lock[r]]) /\ next' = "done"
        /\ lrq_type[r] = "lrq" /\ lrq_state[r] = LCK_none
        /\ compatibility(lrq_requested[r], lbl_state[lrq_lock[r]])
    BY <1>14 DEF grant_or_que_grant, GrantNow, At, GrantInv, NewInv
  <2>2. PICK l \in Locks : lrq_lock[r] = l /\ lrq_requested[r] \in LckLevels
    BY <2>1 DEF QueueInv, LrqOK
  <2>3. \A m \in Locks : CountsRight(m) /\ StateRight(m)
    BY <2>1 DEF GrantInv, CountInv, SetUp
  <2>4. CountOthers(lbl_counts[l], l, r) /\ lbl_counts[l] \in [LckLevels -> Int]
    BY <2>1, <2>2, <2>3, OthersCounted DEF LblOK
  <2>5. compatibility(lrq_requested[r], lock_state(lbl_counts[l]))
    BY <2>1, <2>2, <2>3 DEF StateRight
  <2>6. KeptAt(l)
    BY <2>1, <2>2, <2>3, <2>4, <2>5, CompatibleWithOthers, GrantKeeps DEF GrantInv
  <2>7. NewInv' /\ GrantedCompatible'
    BY <2>1, <2>6 DEF NewInv, KeptAt
  <2>8. CountInv'
    BY <2>3, <2>6 DEF CountInv, KeptAt
  <2> QED
    BY <2>7, <2>8 DEF GrantInv
<1>15. ASSUME NEW r \in Requests, grant_or_que_block(r)
       PROVE  GrantInv'
  BY <1>15, SameKeeps DEF grant_or_que_block, At, Goto, SameGrants, SameGranting, Granting,
     lrqVars, lblVars, tableVars
<1>16. ASSUME NEW r \in Requests, internal_dequeue(r)
       PROVE  GrantInv'
  <2>1. /\ lrq_type[r] = "lrq" /\ release_request(r)
        /\ ~Granting /\ ~Granting'
    BY <1>16 DEF internal_dequeue, At, UseInv, ThreadInv, Granting
  <2>2. PICK l \in Locks : lrq_lock[r] = l
    BY <2>1 DEF QueueInv
  <2>3. \A m \in Locks : CountsRight(m) /\ StateRight(m)
    BY <2>1 DEF GrantInv, CountInv, SetUp, Granting
  <2>4. KeptAt(l)
    BY <2>1, <2>2, <2>3, ReleaseKeeps DEF GrantInv
  <2>5. NewInv' /\ GrantedCompatible'
    BY <2>1, <2>4 DEF NewInv, Granting, KeptAt
  <2>6. CountInv'
    BY <2>3, <2>4 DEF CountInv, KeptAt
  <2> QED
    BY <2>5, <2>6 DEF GrantInv
<1>17. ASSUME NEW r \in Requests, internal_convert_grant(r)
       PROVE  GrantInv'
  <2> DEFINE counts == CountsWithout(r)
  <2>1. /\ holder = r /\ next = "convert" /\ grant(r, counts) /\ next' = "done"
        /\ lrq_type[r] = "lrq"
        /\ compatibility(lrq_requested[r], lock_state(counts))
    BY <1>17 DEF internal_convert_grant, At, UseInv, ThreadInv
  <2>2. PICK l \in Locks : lrq_lock[r] = l /\ lrq_requested[r] \in LckLevels
    BY <2>1 DEF QueueInv, LrqOK
  <2>3. \A m \in Locks : CountsRight(m) /\ StateRight(m)
    BY <2>1 DEF GrantInv, CountInv, SetUp
  <2>4. CountOthers(counts, l, r) /\ counts \in [LckLevels -> Int]
    BY <2>1, <2>2, <2>3, OthersCounted, CountsType
  <2> HIDE DEF counts
  <2>5. KeptAt(l)
    BY <2>1, <2>2, <2>3, <2>4, CompatibleWithOthers, GrantKeeps DEF GrantInv
  <2>6. NewInv' /\ GrantedCompatible'
    BY <2>1, <2>5 DEF NewInv, KeptAt
  <2>7. CountInv'
    BY <2>3, <2>5 DEF CountInv, KeptAt
  <2> QED
    BY <2>6, <2>7 DEF GrantInv
<1>18. ASSUME NEW r \in Requests, internal_convert_block(r)
       PROVE  GrantInv'
  BY <1>18, SameKeeps DEF internal_convert_block, At, Goto, SameGrants, SameGranting,
     Granting, lrqVars, lblVars, tableVars
<1>19. ASSUME NEW r \in Requests, internal_convert_undo(r)
       PROVE  GrantInv'
  BY <1>19, SameKeeps DEF internal_convert_undo, Fail, At, Goto, SameGrants, SameGranting,
     Granting, lrqVars, lblVars, tableVars
<1>20. ASSUME NEW r \in Requests, wait_for_request(r)
       PROVE  GrantInv'
  BY <1>20, SameKeeps DEF wait_for_request, At, Goto, SameGrants, SameGranting, Granting,
     lrqVars, lblVars, tableVars
<1>21. ASSUME NEW r \in Requests, post_blockage(r)
       PROVE  GrantInv'
  BY <1>21, SameKeeps DEF post_blockage, At, Goto, SameGrants, SameGranting, Granting,
     lrqVars, lblVars, tableVars
<1>22. ASSUME NEW r \in Requests, purge_unreachable(r)
       PROVE  GrantInv'
  BY <1>22, SameKeeps DEF purge_unreachable, At, SameGrants, SameGranting, Granting,
     lrqVars, lblVars, tableVars
<1>23. ASSUME NEW r \in Requests, NEW b \in Owners, skip_owner(r, b)
       PROVE  GrantInv'
  BY <1>23, SameKeeps DEF skip_owner, At, SameGrants, SameGranting, Granting, lrqVars,
     lblVars, tableVars
<1>24. ASSUME NEW r \in Requests, NEW b \in Owners, signal_owner(r, b)
       PROVE  GrantInv'
  BY <1>24, SameKeeps DEF signal_owner, signal_locally, signal_remotely, signal_fails, At,
     SameGrants, SameGranting, Granting, lrqVars, lblVars, tableVars
<1>25. ASSUME NEW r \in Requests, wait_resolved(r)
       PROVE  GrantInv'
  BY <1>25, SameKeeps DEF wait_resolved, At, Goto, SameGrants, SameGranting, Granting,
     lrqVars, lblVars, tableVars
<1>26. ASSUME NEW r \in Requests, wait_again(r)
       PROVE  GrantInv'
  BY <1>26, SameKeeps DEF wait_again, At, Goto, SameGrants, SameGranting, Granting, lrqVars,
     lblVars, tableVars
<1>27. ASSUME NEW r \in Requests, wait_sleep(r)
       PROVE  GrantInv'
  BY <1>27, SameKeeps DEF wait_sleep, At, SameGrants, SameGranting, Granting, lrqVars,
     lblVars, tableVars
<1>28. ASSUME NEW r \in Requests, event_wait(r)
       PROVE  GrantInv'
  BY <1>28, SameKeeps, ConstantsAssumption DEF event_wait, acquire_shmem, Threads,
     ConstantsAssumption, SameGrants, SameGranting, Granting, lrqVars, lblVars, tableVars
<1>29. ASSUME NEW r \in Requests, wait_expired(r)
       PROVE  GrantInv'
  BY <1>29, SameKeeps DEF wait_expired, At, SameGrants, SameGranting, Granting, lrqVars,
     lblVars, tableVars
<1>30. ASSUME NEW r \in Requests, wait_woken(r)
       PROVE  GrantInv'
  BY <1>30, SameKeeps DEF wait_woken, At, Goto, SameGrants, SameGranting, Granting, lrqVars,
     lblVars, tableVars
<1>31. ASSUME NEW r \in Requests, wait_probe(r)
       PROVE  GrantInv'
  BY <1>31, SameKeeps DEF wait_probe, At, SameGrants, SameGranting, Granting, lrqVars,
     lblVars, tableVars
<1>32. ASSUME NEW r \in Requests, wait_granted(r)
       PROVE  GrantInv'
  BY <1>32, SameKeeps DEF wait_granted, Succeed, At, Goto, ThreadInv, SameGrants,
     SameGranting, Granting, lrqVars, lblVars, tableVars
<1>33. ASSUME NEW r \in Requests, wait_rejected(r)
       PROVE  GrantInv'
  BY <1>33, SameKeeps DEF wait_rejected, At, SameGrants, SameGranting, Granting, lrqVars,
     lblVars, tableVars
<1>34. ASSUME NEW r \in Requests, NEW v \in Requests, deadlock_found(r, v)
       PROVE  GrantInv'
  BY <1>34, SameKeeps DEF deadlock_found, ScanDue, At, Goto, SameGrants, SameGranting,
     Granting, lrqVars, lblVars, tableVars
<1>35. ASSUME NEW r \in Requests, deadlock_not_found(r)
       PROVE  GrantInv'
  BY <1>35, SameKeeps DEF deadlock_not_found, At, Goto, SameGrants, SameGranting, Granting,
     lrqVars, lblVars, tableVars
<1>36. ASSUME NEW r \in Requests, PostPendingGrant(r)
       PROVE  GrantInv'
  <2> DEFINE counts == IF lrq_state[r] # LCK_none THEN CountsWithout(r)
                                            ELSE lbl_counts[lrq_lock[r]]
  <2>1. /\ lrq_lock[r] \in Locks /\ lrq_type[r] = "lrq" /\ "pending" \in lrq_flags[r]
        /\ grant(r, counts) /\ holder' = holder /\ next' = next
        /\ Grantable(r)
    BY <1>36, QueueMembers DEF PostPendingGrant, FirstPending, tableVars, QueueInv
  <2>2. PICK l \in Locks : lrq_lock[r] = l /\ lrq_requested[r] \in LckLevels
    BY <2>1 DEF LrqOK
  <2>3. ~SetUp(l)
    BY <2>1, <2>2 DEF SetUp, GrantInv, NewInv
  <2>4. StateRight(l) /\ \A m \in Locks : CountsRight(m)
    BY <2>2, <2>3 DEF GrantInv, CountInv
  <2>5. CountOthers(counts, l, r) /\ counts \in [LckLevels -> Int]
    BY <2>1, <2>2, <2>4, OthersCounted, CountsType
  <2>6. compatibility(lrq_requested[r], lock_state(counts))
    BY <2>1, <2>2, <2>4 DEF Grantable, StateRight
  <2> HIDE DEF counts
  <2>7. KeptAt(l)
    BY <2>1, <2>2, <2>4, <2>5, <2>6, CompatibleWithOthers, GrantKeeps DEF GrantInv
  <2>8. /\ lrq_type' = lrq_type /\ lrq_lock' = lrq_lock
        /\ \A q \in Requests : q # r => lrq_state'[q] = lrq_state[q] /\ lrq_flags'[q] = lrq_flags[q]
    BY <2>1 DEF grant, LrqOK
  <2>9. Granting => holder # r
    BY <2>1 DEF Granting, GrantInv, NewInv
  <2>10. NewInv' /\ GrantedCompatible'
    BY <2>1, <2>7, <2>8, <2>9 DEF GrantInv, NewInv, Granting, KeptAt
  <2>11. \A m \in Locks : SetUp(m) => SetUp(m)'
    BY <2>1, <2>8 DEF SetUp
  <2>12. CountInv'
    BY <2>7, <2>11 DEF GrantInv, CountInv, KeptAt
  <2> QED
    BY <2>10, <2>12 DEF GrantInv
<1>37. ASSUME NEW r \in Requests, purge_owner_request(r)
       PROVE  GrantInv'
  <2>1. /\ lrq_type[r] = "lrq" /\ release_request(r) /\ Purging(lrq_owner[r])
        /\ holder' = holder /\ next' = next
    BY <1>37 DEF purge_owner_request
  <2>2. PICK l \in Locks : lrq_lock[r] = l
    BY <2>1 DEF QueueInv
  <2>3. Granting => holder # r
    BY <2>1, ConstantsAssumption DEF Granting, UseInv, ThreadInv, Purging, ConstantsAssumption
  <2>4. ~SetUp(l)
    BY <2>1, <2>2, <2>3 DEF SetUp, GrantInv, NewInv, Granting
  <2>5. StateRight(l) /\ \A m \in Locks : CountsRight(m)
    BY <2>2, <2>4 DEF GrantInv, CountInv
  <2>6. KeptAt(l)
    BY <2>1, <2>2, <2>5, ReleaseKeeps DEF GrantInv
  <2>7. /\ lrq_type'[r] = "null"
        /\ \A q \in Requests : q # r =>
             /\ lrq_type'[q] = lrq_type[q] /\ lrq_lock'[q] = lrq_lock[q]
             /\ lrq_state'[q] = lrq_state[q] /\ lrq_flags'[q] = lrq_flags[q]
    BY <2>1 DEF release_request, Free, LrqOK
  <2>8. NewInv' /\ GrantedCompatible'
    BY <2>1, <2>3, <2>6, <2>7 DEF GrantInv, NewInv, Granting, KeptAt
  <2>9. \A m \in Locks : SetUp(m) => SetUp(m)'
    BY <2>1, <2>3, <2>7 DEF SetUp, Granting
  <2>10. CountInv'
    BY <2>6, <2>9 DEF GrantInv, CountInv, KeptAt
  <2> QED
    BY <2>8, <2>10 DEF GrantInv
<1>38. ASSUME NEW r \in Requests, purge_owner_repost(r)
       PROVE  GrantInv'
  BY <1>38, SameKeeps DEF purge_owner_repost, Free, SameGrants, SameGranting, Granting,
     lrqVars, lblVars, tableVars
<1>39. CASE PostPendingEnd
  BY <1>39, SameKeeps DEF PostPendingEnd, SameGrants, SameGranting, Granting, lrqVars,
     lblVars, tableVars
<1>40. ASSUME NEW o \in Owners, purge_owner(o)
       PROVE  GrantInv'
  BY <1>40, SameKeeps DEF purge_owner, SameGrants, SameGranting, Granting, lrqVars, lblVars,
     tableVars
<1>41. ASSUME NEW o \in Owners, create_owner(o)
       PROVE  GrantInv'
  BY <1>41, SameKeeps DEF create_owner, At, SameGrants, SameGranting, Granting, lrqVars,
     lblVars, tableVars
<1>42. ASSUME NEW o \in Owners, shutdownOwner_awake(o)
       PROVE  GrantInv'
  BY <1>42, SameKeeps, ConstantsAssumption DEF shutdownOwner_awake, acquire_shmem, Threads,
     ConstantsAssumption, SameGrants, SameGranting, Granting, lrqVars, lblVars, tableVars
<1>43. ASSUME NEW p \in Processes, purge_process(p)
       PROVE  GrantInv'
  BY <1>43, SameKeeps DEF purge_process, SameGrants, SameGranting, Granting, lrqVars,
     lblVars, tableVars
<1>44. ASSUME NEW t \in Threads, release_shmem(t)
       PROVE  GrantInv'
  BY <1>44, SameKeeps DEF release_shmem, At, SameGrants, SameGranting, Granting, lrqVars,
     lblVars, tableVars
<1>45. ASSUME NEW t \in Threads, NEW q \in Requests, blocking_action(t, q)
       PROVE  GrantInv'
  <2>1. "blocking" \notin lrq_flags[q] => lrq_type[q] = "repost"
    BY <1>45 DEF blocking_action, Serving, Contexts, CallOK, BlockInv
  <2>2. SameGrants
    BY <1>45, <2>1 DEF blocking_action, Free, lblVars, LrqOK, SameGrants
  <2>3. \A r \in Requests : "pending" \in lrq_flags'[r] => "pending" \in lrq_flags[r]
    BY <1>45 DEF blocking_action, Free, LrqOK
  <2>4. Granting => holder' = holder /\ next' = next
    BY <1>45 DEF blocking_action, Serving, Granting, ThreadInv
  <2>5. ~Granting => ~Granting'
    BY <1>45, ConstantsAssumption DEF blocking_action, Granting, ConstantsAssumption
  <2> QED
  BY <2>2, <2>3, <2>4, <2>5, SameKeeps DEF SameGranting, SameGrants, SameGranting, Granting,
     lrqVars, lblVars, tableVars
<1>46. ASSUME NEW t \in Threads, ast_return(t)
       PROVE  GrantInv'
  BY <1>46, SameKeeps, ConstantsAssumption DEF ast_return, acquire_shmem, AfterAction,
     Threads, ConstantsAssumption, SameGrants, SameGranting, Granting, lrqVars, lblVars,
     tableVars
<1>47. ASSUME NEW t \in Threads, blocking_action_end(t)
       PROVE  GrantInv'
  BY <1>47, SameKeeps DEF blocking_action_end, Serving, SameGrants, SameGranting, Granting,
     lrqVars, lblVars, tableVars
<1>48. ASSUME NEW p \in Processes, blocking_thread_wake(p)
       PROVE  GrantInv'
  BY <1>48, SameKeeps, ConstantsAssumption DEF blocking_thread_wake, acquire_shmem, Threads,
     ConstantsAssumption, SameGrants, SameGranting, Granting, lrqVars, lblVars, tableVars
<1>49. ASSUME NEW p \in Processes, blocking_thread_sleep(p)
       PROVE  GrantInv'
  BY <1>49, SameKeeps DEF blocking_thread_sleep, At, Goto, SameGrants, SameGranting,
     Granting, lrqVars, lblVars, tableVars
<1>50. ASSUME NEW p \in Processes, NEW o \in Owners, blocking_thread_serve(p, o)
       PROVE  GrantInv'
  BY <1>50, SameKeeps DEF blocking_thread_serve, At, SameGrants, SameGranting, Granting,
     lrqVars, lblVars, tableVars
<1>51. ASSUME NEW p \in Processes, die(p)
       PROVE  GrantInv'
  BY <1>51, SameKeeps DEF die, Idle, SameGrants, SameGranting, Granting, lrqVars, lblVars,
     tableVars
<1> QED
  BY <1>1, <1>2, <1>3, <1>4, <1>5, <1>6, <1>7, <1>8, <1>9, <1>10, <1>11, <1>12, <1>13,
     <1>14, <1>15, <1>16, <1>17, <1>18, <1>19, <1>20, <1>21, <1>22, <1>23, <1>24, <1>25,
     <1>26, <1>27, <1>28, <1>29, <1>30, <1>31, <1>32, <1>33, <1>34, <1>35, <1>36, <1>37,
     <1>38, <1>39, <1>40, <1>41, <1>42, <1>43, <1>44, <1>45, <1>46, <1>47, <1>48, <1>49,
     <1>50, <1>51
     DEF Next, Client, RequestStep, TableStep, AstStep, Crash

\* An empty lock table has nothing granted.
LEMMA GrantInvInit ==
  ASSUME Init
  PROVE  GrantInv
<1>1. NewInv
  BY ConstantsAssumption DEF Init, NewInv, ConstantsAssumption
<1>2. GrantedCompatible
  BY DEF Init, GrantedCompatible
<1>3. \A s \in LCK_null .. LCK_EX : ZeroCounts[s] = 0
  BY DEF ZeroCounts, LckLevels, LCK_none, LCK_null, LCK_EX
<1>4. \A m \in Locks : CountsRight(m)
  <2>1. \A m \in Locks : \A s : Holders(m, s) = {}
    BY DEF Init, Holders
  <2> QED
    BY <1>3, <2>1, FS_EmptySet DEF Init, CountsRight
<1>5. \A m \in Locks : StateRight(m)
  <2>1. lock_state(ZeroCounts) = LCK_none
    BY <1>3, LockState
  <2> QED
    BY <2>1 DEF Init, StateRight
<1> QED
  BY <1>1, <1>2, <1>4, <1>5 DEF GrantInv, CountInv

\* A step that changes nothing keeps it.
LEMMA GrantInvStutter ==
  ASSUME GrantInv, QueueInv, UNCHANGED vars
  PROVE  GrantInv'
<1>1. SameGrants /\ SameGranting
  BY DEF vars, lrqVars, lblVars, tableVars, SameGrants, SameGranting
<1> QED
  BY <1>1, SameKeeps

\* Every step keeps it.
LEMMA GrantInvStep == TableInv /\ GrantInv /\ [Next]_vars => GrantInv'
<1> SUFFICES ASSUME TableInv, GrantInv, [Next]_vars PROVE GrantInv'
  OBVIOUS
<1>1. /\ LrqOK /\ LblOK /\ OwnOK /\ PrcOK /\ TableOK /\ CallOK
      /\ ThreadInv /\ UseInv /\ QueueInv /\ BlockInv
  BY TypeParts DEF TableInv
<1>2. CASE Next
  BY <1>1, <1>2, GrantStep
<1>3. CASE UNCHANGED vars
  BY <1>1, <1>3, GrantInvStutter
<1> QED
  BY <1>2, <1>3

\* Two requests never hold incompatible levels of one lock: not after any
\* sequence of grants, conversions, downgrades, releases, rejections and purges
\* by any number of owners, processes and threads.
THEOREM GrantsCompatible == Spec => []GrantedCompatible
<1>1. Init => TableInv /\ GrantInv
  BY TableInvInit, GrantInvInit
<1>2. TableInv /\ GrantInv /\ [Next]_vars => TableInv' /\ GrantInv'
  BY TableInvStep, GrantInvStep
<1>3. GrantInv => GrantedCompatible
  BY DEF GrantInv
<1> QED
  BY <1>1, <1>2, <1>3, PTL DEF Spec
-----------------------------------------------------------------------------
(* Who is in the table.                                                      *)

\* Requests belong to owners of the table and those to processes of the table.
\* An owner is purged by its own thread.  The request about to be put in a queue
\* has an owner, and an owner is created after what was left of it and, if it
\* is the first of its process, of the process has been purged.
OwnerInv ==
  /\ \A r \in Requests : lrq_type[r] # "null" => lrq_owner[r] \in lhb_owners
  /\ \A o \in lhb_owners : Home[o] \in lhb_processes
  /\ purge \cap Owners \subseteq {holder}
  /\ holder \in Requests /\ next = "insert" => purge = {} /\ call[holder].owner \in lhb_owners
  /\ holder \in Owners /\ next = "create" =>
       /\ holder \in lhb_owners => holder \in purge
       /\ \/ Home[holder] \in running \cup purge
          \/ \A o \in lhb_owners : Home[o] # Home[holder]

\* A request that is flagged as blocking, and a repost, is in the blocking queue
\* of its owner.
DueInv ==
  \A r \in Requests : lrq_type[r] = "repost" \/ "blocking" \in lrq_flags[r] =>
    r \in own_blocks[lrq_owner[r]]

\* Every step keeps what is known of who is in the table.
LEMMA OwnerStep ==
  ASSUME LrqOK, LblOK, OwnOK, PrcOK, TableOK, CallOK, ThreadInv, UseInv, QueueInv,
         BlockInv, OwnerInv, DueInv, Next
  PROVE  OwnerInv'
<1> USE ConstantsAssumption DEF ConstantsAssumption, Threads, NoCall, lrqVars, ownVars, prcVars,
       tableVars, threadVars, CallOK, TableOK, PrcOK, LrqOK, OwnOK, OwnerInv
<1>1. ASSUME NEW o \in Owners, NEW l \in Locks, NEW level \in Levels, NEW wait \in Waits,
             NEW ast \in Asts, NEW r \in Requests, enqueue(o, l, level, wait, ast, r)
       PROVE  OwnerInv'
  BY <1>1 DEF enqueue, acquire_shmem, Usable, UseInv
<1>2. ASSUME NEW q \in Requests, NEW l \in Locks, NEW level \in Levels, NEW wait \in Waits,
             NEW ast \in Asts, NEW r \in Requests, enqueue_prior(q, l, level, wait, ast, r)
       PROVE  OwnerInv'
  BY <1>2 DEF enqueue_prior, acquire_shmem, Known, Usable, release_request, Free, UseInv
<1>3. ASSUME NEW r \in Requests, NEW level \in Levels, NEW wait \in Waits,
             NEW ast \in Asts, convert(r, level, wait, ast)
       PROVE  OwnerInv'
  BY <1>3 DEF convert, acquire_shmem, Known, Usable
<1>4. ASSUME NEW r \in Requests, downgrade(r)
       PROVE  OwnerInv'
  BY <1>4 DEF downgrade, Reduce, acquire_shmem, Known, Usable
<1>5. ASSUME NEW r \in Requests, dequeue(r)
       PROVE  OwnerInv'
  BY <1>5 DEF dequeue, Reduce, acquire_shmem, Known, Usable
<1>6. ASSUME NEW o \in Owners, NEW q \in Requests, repost(o, q)
       PROVE  OwnerInv'
  BY <1>6 DEF repost, acquire_shmem
<1>7. ASSUME NEW o \in Owners, cancelWait(o)
       PROVE  OwnerInv'
  BY <1>7 DEF cancelWait
<1>8. ASSUME NEW o \in Owners, Usable(o), initializeOwner_again(o)
       PROVE  OwnerInv'
  BY <1>8 DEF initializeOwner_again
<1>9. ASSUME NEW o \in Owners, initializeOwner(o)
       PROVE  OwnerInv'
  BY <1>9 DEF initializeOwner, acquire_shmem, UseInv
<1>10. ASSUME NEW o \in Owners, shutdownOwner(o)
       PROVE  OwnerInv'
  BY <1>10 DEF shutdownOwner, Usable, Quiet, UseInv
<1>11. ASSUME NEW p \in Processes, destroy(p)
       PROVE  OwnerInv'
  BY <1>11 DEF destroy, Quiet
<1>12. ASSUME NEW r \in Requests, enqueue_insert(r)
       PROVE  OwnerInv'
  BY <1>12 DEF enqueue_insert, At, Goto
<1>13. ASSUME NEW r \in Requests, enqueue_grant(r)
       PROVE  OwnerInv'
  BY <1>13 DEF enqueue_grant, Succeed, At, Goto, grant
<1>14. ASSUME NEW r \in Requests, grant_or_que_grant(r)
       PROVE  OwnerInv'
  BY <1>14 DEF grant_or_que_grant, Succeed, At, grant
<1>15. ASSUME NEW r \in Requests, grant_or_que_block(r)
       PROVE  OwnerInv'
  BY <1>15 DEF grant_or_que_block, At, Goto
<1>16. ASSUME NEW r \in Requests, internal_dequeue(r)
       PROVE  OwnerInv'
  BY <1>16 DEF internal_dequeue, At, release_request, Free, UseInv, ThreadInv
<1>17. ASSUME NEW r \in Requests, internal_convert_grant(r)
       PROVE  OwnerInv'
  BY <1>17 DEF internal_convert_grant, Succeed, At, grant
<1>18. ASSUME NEW r \in Requests, internal_convert_block(r)
       PROVE  OwnerInv'
  BY <1>18 DEF internal_convert_block, At, Goto
<1>19. ASSUME NEW r \in Requests, internal_convert_undo(r)
       PROVE  OwnerInv'
  BY <1>19 DEF internal_convert_undo, Fail, At, Goto
<1>20. ASSUME NEW r \in Requests, wait_for_request(r)
       PROVE  OwnerInv'
  BY <1>20 DEF wait_for_request, At, Goto
<1>21. ASSUME NEW r \in Requests, post_blockage(r)
       PROVE  OwnerInv'
  BY <1>21 DEF post_blockage, At, Goto
<1>22. ASSUME NEW r \in Requests, purge_unreachable(r)
       PROVE  OwnerInv'
  BY <1>22 DEF purge_unreachable, At, Contexts
<1>23. ASSUME NEW r \in Requests, NEW b \in Owners, skip_owner(r, b)
       PROVE  OwnerInv'
  BY <1>23 DEF skip_owner, At
<1>24. ASSUME NEW r \in Requests, NEW b \in Owners, signal_owner(r, b)
       PROVE  OwnerInv'
  BY <1>24 DEF signal_owner, signal_locally, signal_remotely, signal_fails, At
<1>25. ASSUME NEW r \in Requests, wait_resolved(r)
       PROVE  OwnerInv'
  BY <1>25 DEF wait_resolved, At, Goto
<1>26. ASSUME NEW r \in Requests, wait_again(r)
       PROVE  OwnerInv'
  BY <1>26 DEF wait_again, At, Goto
<1>27. ASSUME NEW r \in Requests, wait_sleep(r)
       PROVE  OwnerInv'
  BY <1>27 DEF wait_sleep, At
<1>28. ASSUME NEW r \in Requests, event_wait(r)
       PROVE  OwnerInv'
  BY <1>28 DEF event_wait, acquire_shmem
<1>29. ASSUME NEW r \in Requests, wait_expired(r)
       PROVE  OwnerInv'
  BY <1>29 DEF wait_expired, At, DeadProcesses
<1>30. ASSUME NEW r \in Requests, wait_woken(r)
       PROVE  OwnerInv'
  BY <1>30 DEF wait_woken, At, Goto
<1>31. ASSUME NEW r \in Requests, wait_probe(r)
       PROVE  OwnerInv'
  BY <1>31 DEF wait_probe, At, DeadProcesses
<1>32. ASSUME NEW r \in Requests, wait_granted(r)
       PROVE  OwnerInv'
  BY <1>32 DEF wait_granted, Succeed, At, Goto
<1>33. ASSUME NEW r \in Requests, wait_rejected(r)
       PROVE  OwnerInv'
  BY <1>33 DEF wait_rejected, At
<1>34. ASSUME NEW r \in Requests, NEW v \in Requests, deadlock_found(r, v)
       PROVE  OwnerInv'
  BY <1>34 DEF deadlock_found, ScanDue, At, Goto
<1>35. ASSUME NEW r \in Requests, deadlock_not_found(r)
       PROVE  OwnerInv'
  BY <1>35 DEF deadlock_not_found, At, Goto
<1>36. ASSUME NEW r \in Requests, PostPendingGrant(r)
       PROVE  OwnerInv'
  BY <1>36 DEF PostPendingGrant, grant
<1>37. ASSUME NEW r \in Requests, purge_owner_request(r)
       PROVE  OwnerInv'
  BY <1>37 DEF purge_owner_request, release_request, Free, Purging
<1>38. ASSUME NEW r \in Requests, purge_owner_repost(r)
       PROVE  OwnerInv'
  BY <1>38 DEF purge_owner_repost, Free
<1>39. CASE PostPendingEnd
  BY <1>39 DEF PostPendingEnd
<1>40. ASSUME NEW o \in Owners, purge_owner(o)
       PROVE  OwnerInv'
  BY <1>40 DEF purge_owner, DueInv, Purging, own_requests
<1>41. ASSUME NEW o \in Owners, create_owner(o)
       PROVE  OwnerInv'
  BY <1>41 DEF create_owner, At, DeadProcesses
<1>42. ASSUME NEW o \in Owners, shutdownOwner_awake(o)
       PROVE  OwnerInv'
  BY <1>42 DEF shutdownOwner_awake, acquire_shmem
<1>43. ASSUME NEW p \in Processes, purge_process(p)
       PROVE  OwnerInv'
  BY <1>43 DEF purge_process
<1>44. ASSUME NEW t \in Threads, release_shmem(t)
       PROVE  OwnerInv'
  BY <1>44 DEF release_shmem, At
<1>45. ASSUME NEW t \in Threads, NEW q \in Requests, blocking_action(t, q)
       PROVE  OwnerInv'
  <2> DEFINE o == thread[t].serving
  <2>1. o \in Owners /\ q \in own_blocks[o] /\ own_blocks' = [own_blocks EXCEPT ![o] = @ \ {q}]
    BY <1>45 DEF blocking_action, Serving, Contexts
  <2>2. /\ \A r \in Requests \ {q} : /\ lrq_type'[r] = lrq_type[r] /\ lrq_owner'[r] = lrq_owner[r]
                                     /\ lrq_flags'[r] = lrq_flags[r]
        /\ \/ lrq_type'[q] = "null" /\ lrq_flags'[q] = {}
           \/ /\ lrq_type'[q] = lrq_type[q] /\ lrq_owner'[q] = lrq_owner[q]
              /\ "blocking" \in lrq_flags[q] /\ "blocking" \notin lrq_flags'[q]
    BY <1>45 DEF blocking_action, Free
  <2>3. /\ lhb_owners' = lhb_owners /\ lhb_processes' = lhb_processes /\ purge' = purge /\ purge = {}
        /\ call' = call /\ running' = running
        /\ (holder' = holder /\ next' = next) \/ next' = "done"
    BY <1>45 DEF blocking_action, Serving
  <2>4. \A r \in Requests : lrq_type'[r] # "null" => lrq_type[r] # "null" /\ lrq_owner'[r] = lrq_owner[r]
    BY <2>2
  <2> HIDE DEF o
  <2> QED
    BY <2>3, <2>4
<1>46. ASSUME NEW t \in Threads, ast_return(t)
       PROVE  OwnerInv'
  BY <1>46 DEF ast_return, acquire_shmem, AfterAction
<1>47. ASSUME NEW t \in Threads, blocking_action_end(t)
       PROVE  OwnerInv'
  BY <1>47 DEF blocking_action_end, Serving
<1>48. ASSUME NEW p \in Processes, blocking_thread_wake(p)
       PROVE  OwnerInv'
  BY <1>48 DEF blocking_thread_wake, acquire_shmem
<1>49. ASSUME NEW p \in Processes, blocking_thread_sleep(p)
       PROVE  OwnerInv'
  BY <1>49 DEF blocking_thread_sleep, At, Goto
<1>50. ASSUME NEW p \in Processes, NEW o \in Owners, blocking_thread_serve(p, o)
       PROVE  OwnerInv'
  BY <1>50 DEF blocking_thread_serve, At
<1>51. ASSUME NEW p \in Processes, die(p)
       PROVE  OwnerInv'
  BY <1>51 DEF die, Idle
<1> QED
  BY <1>1, <1>2, <1>3, <1>4, <1>5, <1>6, <1>7, <1>8, <1>9, <1>10, <1>11, <1>12, <1>13, <1>14, <1>15,
     <1>16, <1>17, <1>18, <1>19, <1>20, <1>21, <1>22, <1>23, <1>24, <1>25, <1>26, <1>27, <1>28,
     <1>29, <1>30, <1>31, <1>32, <1>33, <1>34, <1>35, <1>36, <1>37, <1>38, <1>39, <1>40, <1>41,
     <1>42, <1>43, <1>44, <1>45, <1>46, <1>47, <1>48, <1>49, <1>50, <1>51
     DEF Next, Client, RequestStep, TableStep, AstStep, Crash

\* Every step keeps what is known of blocking queues.
LEMMA DueStep ==
  ASSUME LrqOK, LblOK, OwnOK, PrcOK, TableOK, CallOK, ThreadInv, UseInv, QueueInv,
         BlockInv, OwnerInv, DueInv, Next
  PROVE  DueInv'
<1> USE ConstantsAssumption DEF ConstantsAssumption, Threads, NoCall, lrqVars, ownVars, CallOK, OwnOK,
       LrqOK, DueInv
<1>1. ASSUME NEW o \in Owners, NEW l \in Locks, NEW level \in Levels, NEW wait \in Waits,
             NEW ast \in Asts, NEW r \in Requests, enqueue(o, l, level, wait, ast, r)
       PROVE  DueInv'
  BY <1>1 DEF enqueue, acquire_shmem, Usable
<1>2. ASSUME NEW q \in Requests, NEW l \in Locks, NEW level \in Levels, NEW wait \in Waits,
             NEW ast \in Asts, NEW r \in Requests, enqueue_prior(q, l, level, wait, ast, r)
       PROVE  DueInv'
  BY <1>2 DEF enqueue_prior, acquire_shmem, Known, Usable, release_request, Free, Unblock
<1>3. ASSUME NEW r \in Requests, NEW level \in Levels, NEW wait \in Waits,
             NEW ast \in Asts, convert(r, level, wait, ast)
       PROVE  DueInv'
  BY <1>3 DEF convert, acquire_shmem, Known, Usable
<1>4. ASSUME NEW r \in Requests, downgrade(r)
       PROVE  DueInv'
  BY <1>4 DEF downgrade, Reduce, acquire_shmem, Known, Usable
<1>5. ASSUME NEW r \in Requests, dequeue(r)
       PROVE  DueInv'
  BY <1>5 DEF dequeue, Reduce, acquire_shmem, Known, Usable
<1>6. ASSUME NEW o \in Owners, NEW q \in Requests, repost(o, q)
       PROVE  DueInv'
  BY <1>6 DEF repost, acquire_shmem, OwnerInv, BlockInv
<1>7. ASSUME NEW o \in Owners, cancelWait(o)
       PROVE  DueInv'
  BY <1>7 DEF cancelWait
<1>8. ASSUME NEW o \in Owners, Usable(o), initializeOwner_again(o)
       PROVE  DueInv'
  BY <1>8 DEF initializeOwner_again
<1>9. ASSUME NEW o \in Owners, initializeOwner(o)
       PROVE  DueInv'
  BY <1>9 DEF initializeOwner, acquire_shmem
<1>10. ASSUME NEW o \in Owners, shutdownOwner(o)
       PROVE  DueInv'
  BY <1>10 DEF shutdownOwner, Usable, Quiet
<1>11. ASSUME NEW p \in Processes, destroy(p)
       PROVE  DueInv'
  BY <1>11 DEF destroy, Quiet
<1>12. ASSUME NEW r \in Requests, enqueue_insert(r)
       PROVE  DueInv'
  BY <1>12 DEF enqueue_insert, At, Goto, UseInv, ThreadInv
<1>13. ASSUME NEW r \in Requests, enqueue_grant(r)
       PROVE  DueInv'
  BY <1>13 DEF enqueue_grant, Succeed, At, Goto, grant
<1>14. ASSUME NEW r \in Requests, grant_or_que_grant(r)
       PROVE  DueInv'
  BY <1>14 DEF grant_or_que_grant, Succeed, At, grant
<1>15. ASSUME NEW r \in Requests, grant_or_que_block(r)
       PROVE  DueInv'
  BY <1>15 DEF grant_or_que_block, At, Goto
<1>16. ASSUME NEW r \in Requests, internal_dequeue(r)
       PROVE  DueInv'
  BY <1>16 DEF internal_dequeue, At, release_request, Free, Unblock, UseInv, ThreadInv
<1>17. ASSUME NEW r \in Requests, internal_convert_grant(r)
       PROVE  DueInv'
  BY <1>17 DEF internal_convert_grant, Succeed, At, grant
<1>18. ASSUME NEW r \in Requests, internal_convert_block(r)
       PROVE  DueInv'
  BY <1>18 DEF internal_convert_block, At, Goto
<1>19. ASSUME NEW r \in Requests, internal_convert_undo(r)
       PROVE  DueInv'
  BY <1>19 DEF internal_convert_undo, Fail, At, Goto
<1>20. ASSUME NEW r \in Requests, wait_for_request(r)
       PROVE  DueInv'
  BY <1>20 DEF wait_for_request, At, Goto
<1>21. ASSUME NEW r \in Requests, post_blockage(r)
       PROVE  DueInv'
  <2> DEFINE new == {b \in Blockers(r) : "blocking" \notin lrq_flags[b]}
  <2>1. \A b \in new : b \in Requests /\ lrq_type[b] = "lrq" /\ lrq_owner[b] \in Owners
    BY <1>21, BlockersType DEF post_blockage, QueueInv
  <2>2. /\ lrq_flags' = [b \in Requests |->
             IF b \in new THEN (lrq_flags[b] \cup {"blocking"}) \ {"just_granted"}
                          ELSE lrq_flags[b]]
        /\ own_blocks' = [o \in Owners |-> own_blocks[o] \cup {b \in new : lrq_owner[b] = o}]
        /\ lrq_type' = lrq_type /\ lrq_owner' = lrq_owner
    BY <1>21 DEF post_blockage
  <2>3. \A b \in Requests : lrq_type[b] # "null" => lrq_owner[b] \in Owners
    BY DEF OwnerInv
  <2>4. \A b \in Requests \ new : "blocking" \in lrq_flags'[b] => "blocking" \in lrq_flags[b]
    BY <2>2
  <2>5. \A b \in Requests : "blocking" \in lrq_flags[b] => lrq_owner[b] \in Owners
    BY <2>3 DEF BlockInv
  <2>6. \A b \in new : b \in own_blocks'[lrq_owner[b]]
    BY <2>1, <2>2
  <2>7. \A b \in Requests : lrq_owner[b] \in Owners => own_blocks[lrq_owner[b]] \subseteq own_blocks'[lrq_owner[b]]
    BY <2>2
  <2> HIDE DEF new
  <2> QED
    BY <2>2, <2>3, <2>4, <2>5, <2>6, <2>7
<1>22. ASSUME NEW r \in Requests, purge_unreachable(r)
       PROVE  DueInv'
  BY <1>22 DEF purge_unreachable, At
<1>23. ASSUME NEW r \in Requests, NEW b \in Owners, skip_owner(r, b)
       PROVE  DueInv'
  BY <1>23 DEF skip_owner, At
<1>24. ASSUME NEW r \in Requests, NEW b \in Owners, signal_owner(r, b)
       PROVE  DueInv'
  BY <1>24 DEF signal_owner, signal_locally, signal_remotely, signal_fails, At
<1>25. ASSUME NEW r \in Requests, wait_resolved(r)
       PROVE  DueInv'
  BY <1>25 DEF wait_resolved, At, Goto
<1>26. ASSUME NEW r \in Requests, wait_again(r)
       PROVE  DueInv'
  BY <1>26 DEF wait_again, At, Goto
<1>27. ASSUME NEW r \in Requests, wait_sleep(r)
       PROVE  DueInv'
  BY <1>27 DEF wait_sleep, At
<1>28. ASSUME NEW r \in Requests, event_wait(r)
       PROVE  DueInv'
  BY <1>28 DEF event_wait, acquire_shmem
<1>29. ASSUME NEW r \in Requests, wait_expired(r)
       PROVE  DueInv'
  BY <1>29 DEF wait_expired, At
<1>30. ASSUME NEW r \in Requests, wait_woken(r)
       PROVE  DueInv'
  BY <1>30 DEF wait_woken, At, Goto
<1>31. ASSUME NEW r \in Requests, wait_probe(r)
       PROVE  DueInv'
  BY <1>31 DEF wait_probe, At
<1>32. ASSUME NEW r \in Requests, wait_granted(r)
       PROVE  DueInv'
  BY <1>32 DEF wait_granted, Succeed, At, Goto
<1>33. ASSUME NEW r \in Requests, wait_rejected(r)
       PROVE  DueInv'
  BY <1>33 DEF wait_rejected, At
<1>34. ASSUME NEW r \in Requests, NEW v \in Requests, deadlock_found(r, v)
       PROVE  DueInv'
  BY <1>34 DEF deadlock_found, ScanDue, At, Goto
<1>35. ASSUME NEW r \in Requests, deadlock_not_found(r)
       PROVE  DueInv'
  BY <1>35 DEF deadlock_not_found, At, Goto
<1>36. ASSUME NEW r \in Requests, PostPendingGrant(r)
       PROVE  DueInv'
  BY <1>36 DEF PostPendingGrant, grant
<1>37. ASSUME NEW r \in Requests, purge_owner_request(r)
       PROVE  DueInv'
  BY <1>37 DEF purge_owner_request, release_request, Free, Unblock
<1>38. ASSUME NEW r \in Requests, purge_owner_repost(r)
       PROVE  DueInv'
  BY <1>38 DEF purge_owner_repost, Free
<1>39. CASE PostPendingEnd
  BY <1>39 DEF PostPendingEnd
<1>40. ASSUME NEW o \in Owners, purge_owner(o)
       PROVE  DueInv'
  BY <1>40 DEF purge_owner
<1>41. ASSUME NEW o \in Owners, create_owner(o)
       PROVE  DueInv'
  <2>1. o \notin lhb_owners
    BY <1>41 DEF create_owner, At, OwnerInv
  <2>2. /\ lrq_type' = lrq_type /\ lrq_owner' = lrq_owner /\ lrq_flags' = lrq_flags
        /\ own_blocks' = [own_blocks EXCEPT ![o] = {}]
    BY <1>41 DEF create_owner
  <2>3. \A r \in Requests : lrq_type[r] = "repost" \/ "blocking" \in lrq_flags[r] => lrq_owner[r] # o
    BY <2>1 DEF OwnerInv, BlockInv
  <2> QED
    BY <2>2, <2>3
<1>42. ASSUME NEW o \in Owners, shutdownOwner_awake(o)
       PROVE  DueInv'
  BY <1>42 DEF shutdownOwner_awake, acquire_shmem
<1>43. ASSUME NEW p \in Processes, purge_process(p)
       PROVE  DueInv'
  BY <1>43 DEF purge_process
<1>44. ASSUME NEW t \in Threads, release_shmem(t)
       PROVE  DueInv'
  BY <1>44 DEF release_shmem, At
<1>45. ASSUME NEW t \in Threads, NEW q \in Requests, blocking_action(t, q)
       PROVE  DueInv'
  <2> DEFINE o == thread[t].serving
  <2>1. o \in Owners /\ q \in own_blocks[o] /\ own_blocks' = [own_blocks EXCEPT ![o] = @ \ {q}]
    BY <1>45 DEF blocking_action, Serving, Contexts
  <2>2. /\ \A r \in Requests \ {q} : /\ lrq_type'[r] = lrq_type[r] /\ lrq_owner'[r] = lrq_owner[r]
                                     /\ lrq_flags'[r] = lrq_flags[r]
        /\ \/ lrq_type'[q] = "null" /\ lrq_flags'[q] = {}
           \/ /\ lrq_type'[q] = lrq_type[q] /\ lrq_owner'[q] = lrq_owner[q]
              /\ "blocking" \in lrq_flags[q] /\ "blocking" \notin lrq_flags'[q]
    BY <1>45 DEF blocking_action, Free
  <2>3. \A r \in Requests \ {q} : r \in own_blocks[lrq_owner[r]] => r \in own_blocks'[lrq_owner[r]]
    BY <2>1
  <2>4. lrq_type'[q] # "repost" /\ "blocking" \notin lrq_flags'[q]
    BY <2>2 DEF BlockInv
  <2> QED
    BY <2>2, <2>3, <2>4
<1>46. ASSUME NEW t \in Threads, ast_return(t)
       PROVE  DueInv'
  BY <1>46 DEF ast_return, acquire_shmem, AfterAction
<1>47. ASSUME NEW t \in Threads, blocking_action_end(t)
       PROVE  DueInv'
  BY <1>47 DEF blocking_action_end, Serving
<1>48. ASSUME NEW p \in Processes, blocking_thread_wake(p)
       PROVE  DueInv'
  BY <1>48 DEF blocking_thread_wake, acquire_shmem
<1>49. ASSUME NEW p \in Processes, blocking_thread_sleep(p)
       PROVE  DueInv'
  BY <1>49 DEF blocking_thread_sleep, At, Goto
<1>50. ASSUME NEW p \in Processes, NEW o \in Owners, blocking_thread_serve(p, o)
       PROVE  DueInv'
  BY <1>50 DEF blocking_thread_serve, At
<1>51. ASSUME NEW p \in Processes, die(p)
       PROVE  DueInv'
  BY <1>51 DEF die, Idle
<1> QED
  BY <1>1, <1>2, <1>3, <1>4, <1>5, <1>6, <1>7, <1>8, <1>9, <1>10, <1>11, <1>12, <1>13, <1>14, <1>15,
     <1>16, <1>17, <1>18, <1>19, <1>20, <1>21, <1>22, <1>23, <1>24, <1>25, <1>26, <1>27, <1>28,
     <1>29, <1>30, <1>31, <1>32, <1>33, <1>34, <1>35, <1>36, <1>37, <1>38, <1>39, <1>40, <1>41,
     <1>42, <1>43, <1>44, <1>45, <1>46, <1>47, <1>48, <1>49, <1>50, <1>51
     DEF Next, Client, RequestStep, TableStep, AstStep, Crash
\* What is known of who is in the table and of blocking queues.
PresenceInv == OwnerInv /\ DueInv

\* An empty lock table satisfies it.
LEMMA PresenceInit ==
  ASSUME Init
  PROVE  PresenceInv
BY ConstantsAssumption DEF ConstantsAssumption, Init, PresenceInv, OwnerInv, DueInv, Threads

\* Every step keeps it.
LEMMA PresenceStep == TableInv /\ PresenceInv /\ [Next]_vars => PresenceInv'
<1> SUFFICES ASSUME TableInv, PresenceInv, [Next]_vars PROVE PresenceInv'
  OBVIOUS
<1>1. CASE Next
  <2>1. LrqOK /\ LblOK /\ OwnOK /\ PrcOK /\ TableOK /\ CallOK
    BY TypeParts DEF TableInv
  <2>2. ThreadInv /\ UseInv /\ QueueInv /\ BlockInv /\ OwnerInv /\ DueInv
    BY DEF TableInv, PresenceInv
  <2>3. OwnerInv'
    BY <1>1, <2>1, <2>2, OwnerStep
  <2>4. DueInv'
    BY <1>1, <2>1, <2>2, DueStep
  <2> QED
    BY <2>3, <2>4 DEF PresenceInv
<1>2. CASE UNCHANGED vars
  BY <1>2 DEF vars, lrqVars, lblVars, ownVars, prcVars, tableVars, threadVars, PresenceInv, OwnerInv,
     DueInv
<1> QED
  BY <1>1, <1>2

\* What every step keeps of blocks, owners and blocking queues.
KeptInv == TableInv /\ PresenceInv

\* It holds from the start on.
LEMMA KeptInvHolds == Spec => []KeptInv
<1>1. Init => KeptInv
  BY TableInvInit, PresenceInit DEF KeptInv
<1>2. KeptInv /\ [Next]_vars => KeptInv'
  BY TableInvStep, PresenceStep DEF KeptInv
<1> QED
  BY <1>1, <1>2, PTL DEF Spec

\* The blocking queue of an owner holds the reposts and the requests flagged as
\* blocking and nothing else, whatever is released, purged, delivered or queued
\* once more in between.
THEOREM BlockingQueues == Spec => []BlocksMatchFlags
<1>1. KeptInv => BlocksMatchFlags
  <2> SUFFICES ASSUME KeptInv, NEW o \in Owners
               PROVE  own_blocks[o] =
                        {r \in Requests : /\ lrq_owner[r] = o
                                          /\ lrq_type[r] = "repost" \/ "blocking" \in lrq_flags[r]}
    BY DEF BlocksMatchFlags
  <2>1. own_blocks[o] \subseteq Requests
    BY DEF KeptInv, TableInv, TypeOK
  <2>2. BlockInv /\ DueInv
    BY DEF KeptInv, TableInv, PresenceInv
  <2>3. \A r \in own_blocks[o] : lrq_owner[r] = o
                                 /\ (lrq_type[r] = "repost" \/ "blocking" \in lrq_flags[r])
    BY <2>2 DEF BlockInv
  <2>4. \A r \in Requests : lrq_owner[r] = o /\ (lrq_type[r] = "repost" \/ "blocking" \in lrq_flags[r])
                            => r \in own_blocks[o]
    BY <2>2 DEF DueInv
  <2> QED
    BY <2>1, <2>3, <2>4
<1> QED
  BY <1>1, KeptInvHolds, PTL

-----------------------------------------------------------------------------
(* The counters are what a recount gives.                                    *)

\* The pending requests for lock l, and that their number is right.
PendingAt(l) == {r \in Requests : lrq_lock[r] = l /\ Pending(r)}
PendingRight(l) == lbl_pending_lrq_count[l] = Cardinality(PendingAt(l))

\* The request that the thread in the table works on is not pending before it
\* starts to wait and after it has been resolved; a pending request is waited
\* for, unless its process is dead.
PendInv ==
  /\ holder \in Requests /\ next \in {"grant", "grant_or_que", "convert", "wait", "undo", "exit"} =>
       ~Pending(holder)
  /\ \A r \in Requests : Pending(r) => call[r] # NoCall \/ Home[lrq_owner[r]] \notin running

\* Only requests of the table are pending.
LEMMA PendingTyped ==
  ASSUME QueueInv, BlockInv, NEW r \in Requests, Pending(r)
  PROVE  /\ lrq_type[r] = "lrq" /\ lrq_owner[r] \in Owners /\ lrq_lock[r] \in Locks
         /\ In(r, lbl_requests[lrq_lock[r]])
BY DEF QueueInv, BlockInv, Pending

\* There is a finite number of pending requests.
LEMMA PendingFinite ==
  ASSUME NEW l
  PROVE  IsFiniteSet(PendingAt(l)) /\ Cardinality(PendingAt(l)) \in Nat
BY FS_Subset, FS_CardinalityType, ConstantsAssumption DEF ConstantsAssumption, PendingAt

\* The counts are right after a step that counts one request out.
LEMMA PendingRemoved ==
  ASSUME LblOK, \A m \in Locks : PendingRight(m), NEW r \in Requests, NEW l \in Locks,
         lrq_lock[r] = l, ~Pending(r)',
         \A q \in Requests \ {r} : lrq_lock'[q] = lrq_lock[q] /\ (Pending(q)' <=> Pending(q)),
         lbl_pending_lrq_count' =
           [lbl_pending_lrq_count EXCEPT ![l] = IF Pending(r) THEN @ - 1 ELSE @]
  PROVE  \A m \in Locks : PendingRight(m)'
<1> TAKE m \in Locks
<1>1. lbl_pending_lrq_count \in [Locks -> Int]
  BY DEF LblOK
<1>2. PendingAt(m)' = PendingAt(m) \ {r}
  BY DEF PendingAt
<1>3. IsFiniteSet(PendingAt(m)) /\ lbl_pending_lrq_count[m] = Cardinality(PendingAt(m))
  BY PendingFinite DEF PendingRight
<1>4. CASE m = l /\ Pending(r)
  <2>1. r \in PendingAt(m)
    BY <1>4 DEF PendingAt
  <2>2. Cardinality(PendingAt(m) \ {r}) = Cardinality(PendingAt(m)) - 1
    BY <1>3, <2>1, FS_RemoveElement
  <2>3. lbl_pending_lrq_count'[m] = lbl_pending_lrq_count[m] - 1
    BY <1>1, <1>4
  <2> QED
    BY <1>2, <1>3, <2>2, <2>3 DEF PendingRight
<1>5. CASE ~(m = l /\ Pending(r))
  <2>1. r \notin PendingAt(m)
    BY <1>5 DEF PendingAt
  <2>2. PendingAt(m)' = PendingAt(m)
    BY <1>2, <2>1
  <2>3. lbl_pending_lrq_count'[m] = lbl_pending_lrq_count[m]
    BY <1>1, <1>5
  <2> QED
    BY <1>3, <2>2, <2>3 DEF PendingRight
<1> QED
  BY <1>4, <1>5

\* grant counts a pending request out,
LEMMA GrantPending ==
  ASSUME LrqOK, LblOK, \A m \in Locks : PendingRight(m), NEW r \in Requests,
         lrq_lock[r] \in Locks, NEW counts, grant(r, counts)
  PROVE  \A m \in Locks : PendingRight(m)'
<1>1. lbl_pending_lrq_count' =
        [lbl_pending_lrq_count EXCEPT ![lrq_lock[r]] = IF Pending(r) THEN @ - 1 ELSE @]
  BY DEF grant, Pending
<1>2. ~Pending(r)' /\ \A q \in Requests \ {r} : lrq_lock'[q] = lrq_lock[q] /\ (Pending(q)' <=> Pending(q))
  BY DEF grant, Pending, LrqOK
<1> QED
  BY <1>1, <1>2, PendingRemoved

\* and so does release_request.
LEMMA ReleasePending ==
  ASSUME LrqOK, LblOK, \A m \in Locks : PendingRight(m), NEW r \in Requests,
         lrq_lock[r] \in Locks, release_request(r)
  PROVE  \A m \in Locks : PendingRight(m)'
<1>1. lbl_pending_lrq_count' =
        [lbl_pending_lrq_count EXCEPT ![lrq_lock[r]] = IF Pending(r) THEN @ - 1 ELSE @]
  BY DEF release_request, Pending
<1>2. ~Pending(r)' /\ \A q \in Requests \ {r} : lrq_lock'[q] = lrq_lock[q] /\ (Pending(q)' <=> Pending(q))
  BY DEF release_request, Free, Pending, LrqOK
<1> QED
  BY <1>1, <1>2, PendingRemoved

\* No request becomes pending or stops being so, nor is it counted.
SamePending ==
  /\ lbl_pending_lrq_count' = lbl_pending_lrq_count
  /\ \A q \in Requests : /\ Pending(q)' <=> Pending(q)
                         /\ Pending(q) => lrq_lock'[q] = lrq_lock[q]

\* The counts are right after a step of which nothing pending has a part.
LEMMA PendingSame ==
  ASSUME SamePending, \A m \in Locks : PendingRight(m)
  PROVE  \A m \in Locks : PendingRight(m)'
<1> TAKE m \in Locks
<1>1. PendingAt(m)' = PendingAt(m)
  BY DEF SamePending, PendingAt
<1> QED
  BY <1>1 DEF SamePending, PendingRight

\* Every step keeps what is known of pending requests.
LEMMA PendStep ==
  ASSUME LrqOK, LblOK, OwnOK, PrcOK, TableOK, CallOK, ThreadInv, UseInv, QueueInv,
         BlockInv, OwnerInv, PendInv, Next
  PROVE  PendInv'
<1> USE ConstantsAssumption DEF ConstantsAssumption, Threads, NoCall, lrqVars, ownVars, prcVars,
       tableVars, threadVars, CallOK, TableOK, LrqOK, PendInv, Pending
<1>1. ASSUME NEW o \in Owners, NEW l \in Locks, NEW level \in Levels, NEW wait \in Waits,
             NEW ast \in Asts, NEW r \in Requests, enqueue(o, l, level, wait, ast, r)
       PROVE  PendInv'
  BY <1>1 DEF enqueue, acquire_shmem, Usable
<1>2. ASSUME NEW q \in Requests, NEW l \in Locks, NEW level \in Levels, NEW wait \in Waits,
             NEW ast \in Asts, NEW r \in Requests, enqueue_prior(q, l, level, wait, ast, r)
       PROVE  PendInv'
  BY <1>2 DEF enqueue_prior, acquire_shmem, Known, Usable, release_request, Free
<1>3. ASSUME NEW r \in Requests, NEW level \in Levels, NEW wait \in Waits,
             NEW ast \in Asts, convert(r, level, wait, ast)
       PROVE  PendInv'
  BY <1>3 DEF convert, acquire_shmem, Known, Usable
<1>4. ASSUME NEW r \in Requests, downgrade(r)
       PROVE  PendInv'
  <2>1. /\ lrq_type' = lrq_type /\ lrq_owner' = lrq_owner /\ running' = running
        /\ \A q \in Requests : Pending(q)' <=> Pending(q)
        /\ holder' = r /\ call'[r] # NoCall /\ \A q \in Requests \ {r} : call'[q] = call[q]
    BY <1>4 DEF downgrade, Reduce, acquire_shmem
  <2>2. ~Pending(r)
    BY <1>4 DEF downgrade, Reduce, Known, Usable
  <2> QED
    BY <2>1, <2>2
<1>5. ASSUME NEW r \in Requests, dequeue(r)
       PROVE  PendInv'
  BY <1>5 DEF dequeue, Reduce, acquire_shmem, Known, Usable
<1>6. ASSUME NEW o \in Owners, NEW q \in Requests, repost(o, q)
       PROVE  PendInv'
  BY <1>6 DEF repost, acquire_shmem, BlockInv
<1>7. ASSUME NEW o \in Owners, cancelWait(o)
       PROVE  PendInv'
  BY <1>7 DEF cancelWait
<1>8. ASSUME NEW o \in Owners, Usable(o), initializeOwner_again(o)
       PROVE  PendInv'
  BY <1>8 DEF initializeOwner_again
<1>9. ASSUME NEW o \in Owners, initializeOwner(o)
       PROVE  PendInv'
  BY <1>9 DEF initializeOwner, acquire_shmem
<1>10. ASSUME NEW o \in Owners, shutdownOwner(o)
       PROVE  PendInv'
  BY <1>10 DEF shutdownOwner, Usable, Quiet
<1>11. ASSUME NEW p \in Processes, destroy(p)
       PROVE  PendInv'
  BY <1>11 DEF destroy, Quiet
<1>12. ASSUME NEW r \in Requests, enqueue_insert(r)
       PROVE  PendInv'
  BY <1>12 DEF enqueue_insert, At, Goto
<1>13. ASSUME NEW r \in Requests, enqueue_grant(r)
       PROVE  PendInv'
  BY <1>13 DEF enqueue_grant, Succeed, At, Goto, grant
<1>14. ASSUME NEW r \in Requests, grant_or_que_grant(r)
       PROVE  PendInv'
  BY <1>14 DEF grant_or_que_grant, Succeed, At, grant
<1>15. ASSUME NEW r \in Requests, grant_or_que_block(r)
       PROVE  PendInv'
  BY <1>15 DEF grant_or_que_block, At, Goto
<1>16. ASSUME NEW r \in Requests, internal_dequeue(r)
       PROVE  PendInv'
  BY <1>16 DEF internal_dequeue, At, release_request, Free, UseInv, ThreadInv
<1>17. ASSUME NEW r \in Requests, internal_convert_grant(r)
       PROVE  PendInv'
  BY <1>17 DEF internal_convert_grant, Succeed, At, grant
<1>18. ASSUME NEW r \in Requests, internal_convert_block(r)
       PROVE  PendInv'
  BY <1>18 DEF internal_convert_block, At, Goto
<1>19. ASSUME NEW r \in Requests, internal_convert_undo(r)
       PROVE  PendInv'
  BY <1>19 DEF internal_convert_undo, Fail, At, Goto
<1>20. ASSUME NEW r \in Requests, wait_for_request(r)
       PROVE  PendInv'
  BY <1>20 DEF wait_for_request, At, Goto, ThreadInv
<1>21. ASSUME NEW r \in Requests, post_blockage(r)
       PROVE  PendInv'
  BY <1>21 DEF post_blockage, At, Goto
<1>22. ASSUME NEW r \in Requests, purge_unreachable(r)
       PROVE  PendInv'
  BY <1>22 DEF purge_unreachable, At
<1>23. ASSUME NEW r \in Requests, NEW b \in Owners, skip_owner(r, b)
       PROVE  PendInv'
  BY <1>23 DEF skip_owner, At
<1>24. ASSUME NEW r \in Requests, NEW b \in Owners, signal_owner(r, b)
       PROVE  PendInv'
  BY <1>24 DEF signal_owner, signal_locally, signal_remotely, signal_fails, At
<1>25. ASSUME NEW r \in Requests, wait_resolved(r)
       PROVE  PendInv'
  BY <1>25 DEF wait_resolved, At, Goto
<1>26. ASSUME NEW r \in Requests, wait_again(r)
       PROVE  PendInv'
  BY <1>26 DEF wait_again, At, Goto
<1>27. ASSUME NEW r \in Requests, wait_sleep(r)
       PROVE  PendInv'
  BY <1>27 DEF wait_sleep, At
<1>28. ASSUME NEW r \in Requests, event_wait(r)
       PROVE  PendInv'
  BY <1>28 DEF event_wait, acquire_shmem
<1>29. ASSUME NEW r \in Requests, wait_expired(r)
       PROVE  PendInv'
  BY <1>29 DEF wait_expired, At
<1>30. ASSUME NEW r \in Requests, wait_woken(r)
       PROVE  PendInv'
  BY <1>30 DEF wait_woken, At, Goto
<1>31. ASSUME NEW r \in Requests, wait_probe(r)
       PROVE  PendInv'
  BY <1>31 DEF wait_probe, At
<1>32. ASSUME NEW r \in Requests, wait_granted(r)
       PROVE  PendInv'
  BY <1>32 DEF wait_granted, Succeed, At, Goto
<1>33. ASSUME NEW r \in Requests, wait_rejected(r)
       PROVE  PendInv'
  BY <1>33 DEF wait_rejected, At
<1>34. ASSUME NEW r \in Requests, NEW v \in Requests, deadlock_found(r, v)
       PROVE  PendInv'
  <2>1. /\ lrq_owner' = lrq_owner /\ running' = running /\ call' = call /\ next' = "loop"
        /\ \A q \in Requests : Pending(q)' => Pending(q)
    BY <1>34 DEF deadlock_found, Goto
  <2> QED
    BY <2>1
<1>35. ASSUME NEW r \in Requests, deadlock_not_found(r)
       PROVE  PendInv'
  BY <1>35 DEF deadlock_not_found, At, Goto
<1>36. ASSUME NEW r \in Requests, PostPendingGrant(r)
       PROVE  PendInv'
  BY <1>36 DEF PostPendingGrant, grant
<1>37. ASSUME NEW r \in Requests, purge_owner_request(r)
       PROVE  PendInv'
  BY <1>37 DEF purge_owner_request, release_request, Free
<1>38. ASSUME NEW r \in Requests, purge_owner_repost(r)
       PROVE  PendInv'
  BY <1>38 DEF purge_owner_repost, Free
<1>39. CASE PostPendingEnd
  BY <1>39 DEF PostPendingEnd
<1>40. ASSUME NEW o \in Owners, purge_owner(o)
       PROVE  PendInv'
  BY <1>40 DEF purge_owner
<1>41. ASSUME NEW o \in Owners, create_owner(o)
       PROVE  PendInv'
  BY <1>41 DEF create_owner, At, OwnerInv, BlockInv
<1>42. ASSUME NEW o \in Owners, shutdownOwner_awake(o)
       PROVE  PendInv'
  BY <1>42 DEF shutdownOwner_awake, acquire_shmem
<1>43. ASSUME NEW p \in Processes, purge_process(p)
       PROVE  PendInv'
  BY <1>43 DEF purge_process
<1>44. ASSUME NEW t \in Threads, release_shmem(t)
       PROVE  PendInv'
  BY <1>44 DEF release_shmem, At
<1>45. ASSUME NEW t \in Threads, NEW q \in Requests, blocking_action(t, q)
       PROVE  PendInv'
  <2>1. /\ \A q1 \in Requests : Pending(q1)' => Pending(q1) /\ lrq_owner'[q1] = lrq_owner[q1]
        /\ (holder' = holder /\ next' = next) \/ holder' = NoThread
        /\ running' = running /\ call' = call
    BY <1>45 DEF blocking_action, Free
  <2> QED
    BY <2>1
<1>46. ASSUME NEW t \in Threads, ast_return(t)
       PROVE  PendInv'
  BY <1>46 DEF ast_return, acquire_shmem, AfterAction
<1>47. ASSUME NEW t \in Threads, blocking_action_end(t)
       PROVE  PendInv'
  BY <1>47 DEF blocking_action_end, Serving
<1>48. ASSUME NEW p \in Processes, blocking_thread_wake(p)
       PROVE  PendInv'
  BY <1>48 DEF blocking_thread_wake, acquire_shmem
<1>49. ASSUME NEW p \in Processes, blocking_thread_sleep(p)
       PROVE  PendInv'
  BY <1>49 DEF blocking_thread_sleep, At, Goto
<1>50. ASSUME NEW p \in Processes, NEW o \in Owners, blocking_thread_serve(p, o)
       PROVE  PendInv'
  BY <1>50 DEF blocking_thread_serve, At
<1>51. ASSUME NEW p \in Processes, die(p)
       PROVE  PendInv'
  BY <1>51 DEF die, Idle, UseInv, BlockInv
<1> QED
  BY <1>1, <1>2, <1>3, <1>4, <1>5, <1>6, <1>7, <1>8, <1>9, <1>10, <1>11, <1>12, <1>13, <1>14, <1>15,
     <1>16, <1>17, <1>18, <1>19, <1>20, <1>21, <1>22, <1>23, <1>24, <1>25, <1>26, <1>27, <1>28,
     <1>29, <1>30, <1>31, <1>32, <1>33, <1>34, <1>35, <1>36, <1>37, <1>38, <1>39, <1>40, <1>41,
     <1>42, <1>43, <1>44, <1>45, <1>46, <1>47, <1>48, <1>49, <1>50, <1>51
     DEF Next, Client, RequestStep, TableStep, AstStep, Crash

\* Every step keeps the numbers of pending requests right.
LEMMA PendingStep ==
  ASSUME LrqOK, LblOK, OwnOK, PrcOK, TableOK, CallOK, ThreadInv, UseInv, QueueInv,
         BlockInv, PendInv, \A m \in Locks : PendingRight(m), Next
  PROVE  \A m \in Locks : PendingRight(m)'
<1> USE DEF lrqVars, lblVars, Pending, LrqOK, SamePending
<1>1. ASSUME NEW o \in Owners, NEW l \in Locks, NEW level \in Levels, NEW wait \in Waits,
             NEW ast \in Asts, NEW r \in Requests, enqueue(o, l, level, wait, ast, r)
       PROVE  \A m \in Locks : PendingRight(m)'
  BY <1>1, PendingSame DEF enqueue, acquire_shmem, Usable
<1>2. ASSUME NEW q \in Requests, NEW l \in Locks, NEW level \in Levels, NEW wait \in Waits,
             NEW ast \in Asts, NEW r \in Requests, enqueue_prior(q, l, level, wait, ast, r)
       PROVE  \A m \in Locks : PendingRight(m)'
  <2>1. lrq_lock[q] \in Locks /\ release_request(q)
    BY <1>2 DEF enqueue_prior, Known, QueueInv
  <2> QED
    BY <2>1, ReleasePending
<1>3. ASSUME NEW r \in Requests, NEW level \in Levels, NEW wait \in Waits,
             NEW ast \in Asts, convert(r, level, wait, ast)
       PROVE  \A m \in Locks : PendingRight(m)'
  BY <1>3, PendingSame DEF convert, acquire_shmem, Known, Usable
<1>4. ASSUME NEW r \in Requests, downgrade(r)
       PROVE  \A m \in Locks : PendingRight(m)'
  <2>1. /\ lrq_lock' = lrq_lock /\ lbl_pending_lrq_count' = lbl_pending_lrq_count
        /\ \A q \in Requests : Pending(q)' <=> Pending(q)
    BY <1>4 DEF downgrade, Reduce
  <2> QED
    BY <2>1, PendingSame
<1>5. ASSUME NEW r \in Requests, dequeue(r)
       PROVE  \A m \in Locks : PendingRight(m)'
  BY <1>5, PendingSame DEF dequeue, Reduce, acquire_shmem, Known, Usable
<1>6. ASSUME NEW o \in Owners, NEW q \in Requests, repost(o, q)
       PROVE  \A m \in Locks : PendingRight(m)'
  BY <1>6, PendingSame DEF repost, acquire_shmem
<1>7. ASSUME NEW o \in Owners, cancelWait(o)
       PROVE  \A m \in Locks : PendingRight(m)'
  BY <1>7, PendingSame DEF cancelWait
<1>8. ASSUME NEW o \in Owners, Usable(o), initializeOwner_again(o)
       PROVE  \A m \in Locks : PendingRight(m)'
  BY <1>8, PendingSame DEF initializeOwner_again
<1>9. ASSUME NEW o \in Owners, initializeOwner(o)
       PROVE  \A m \in Locks : PendingRight(m)'
  BY <1>9, PendingSame DEF initializeOwner, acquire_shmem
<1>10. ASSUME NEW o \in Owners, shutdownOwner(o)
       PROVE  \A m \in Locks : PendingRight(m)'
  BY <1>10, PendingSame DEF shutdownOwner, Usable, Quiet
<1>11. ASSUME NEW p \in Processes, destroy(p)
       PROVE  \A m \in Locks : PendingRight(m)'
  BY <1>11, PendingSame DEF destroy, Quiet
<1>12. ASSUME NEW r \in Requests, enqueue_insert(r)
       PROVE  \A m \in Locks : PendingRight(m)'
  <2> DEFINE l == call[r].lock
  <2>1. call[r] \in Calls /\ lrq_type[r] = "null"
    BY <1>12, AtCall DEF enqueue_insert, At, UseInv, NoCall, ThreadInv
  <2>2. l \in Locks
    BY <2>1 DEF Calls
  <2>3. ~Pending(r) /\ ~Pending(r)'
    BY <1>12, <2>1 DEF enqueue_insert, BlockInv
  <2>4. \A q \in Requests \ {r} : lrq_lock'[q] = lrq_lock[q] /\ (Pending(q)' <=> Pending(q))
    BY <1>12 DEF enqueue_insert
  <2>5. \A m \in Locks : PendingAt(m)' = PendingAt(m)
    BY <2>3, <2>4 DEF PendingAt
  <2>6. lbl_pending_lrq_count' =
          [lbl_pending_lrq_count EXCEPT ![l] = IF lbl_requests[l] # <<>> THEN @ ELSE 0]
    BY <1>12 DEF enqueue_insert
  <2>7. ASSUME lbl_requests[l] = <<>>
        PROVE  Cardinality(PendingAt(l)) = 0
    <3>1. \A q \in Requests : lrq_lock[q] = l => ~Pending(q)
      BY <2>7, PendingTyped DEF In
    <3> QED
      BY <3>1, FS_EmptySet DEF PendingAt
  <2> HIDE DEF l
  <2>8. \A m \in Locks : lbl_pending_lrq_count'[m] = lbl_pending_lrq_count[m]
    BY <2>6, <2>7 DEF PendingRight, LblOK
  <2> QED
    BY <2>5, <2>8 DEF PendingRight
<1>13. ASSUME NEW r \in Requests, enqueue_grant(r)
       PROVE  \A m \in Locks : PendingRight(m)'
  <2>1. lrq_lock[r] \in Locks
    BY <1>13 DEF enqueue_grant, At, ThreadInv, UseInv, QueueInv
  <2> QED
    BY <1>13, <2>1, GrantPending DEF enqueue_grant
<1>14. ASSUME NEW r \in Requests, grant_or_que_grant(r)
       PROVE  \A m \in Locks : PendingRight(m)'
  <2>1. lrq_lock[r] \in Locks
    BY <1>14 DEF grant_or_que_grant, At, ThreadInv, UseInv, QueueInv
  <2> QED
    BY <1>14, <2>1, GrantPending DEF grant_or_que_grant
<1>15. ASSUME NEW r \in Requests, grant_or_que_block(r)
       PROVE  \A m \in Locks : PendingRight(m)'
  BY <1>15, PendingSame DEF grant_or_que_block, At, Goto
<1>16. ASSUME NEW r \in Requests, internal_dequeue(r)
       PROVE  \A m \in Locks : PendingRight(m)'
  <2>1. lrq_lock[r] \in Locks /\ release_request(r)
    BY <1>16 DEF internal_dequeue, At, ThreadInv, UseInv, QueueInv
  <2> QED
    BY <2>1, ReleasePending
<1>17. ASSUME NEW r \in Requests, internal_convert_grant(r)
       PROVE  \A m \in Locks : PendingRight(m)'
  <2>1. lrq_lock[r] \in Locks
    BY <1>17 DEF internal_convert_grant, At, ThreadInv, UseInv, QueueInv
  <2> QED
    BY <1>17, <2>1, GrantPending DEF internal_convert_grant
<1>18. ASSUME NEW r \in Requests, internal_convert_block(r)
       PROVE  \A m \in Locks : PendingRight(m)'
  BY <1>18, PendingSame DEF internal_convert_block, At, Goto
<1>19. ASSUME NEW r \in Requests, internal_convert_undo(r)
       PROVE  \A m \in Locks : PendingRight(m)'
  BY <1>19, PendingSame DEF internal_convert_undo, Fail, At, Goto
<1>20. ASSUME NEW r \in Requests, wait_for_request(r)
       PROVE  \A m \in Locks : PendingRight(m)'
  <2>1. PICK l \in Locks : lrq_lock[r] = l
    BY <1>20 DEF wait_for_request, At, ThreadInv, UseInv, QueueInv
  <2>2. ~Pending(r)
    BY <1>20 DEF wait_for_request, At, PendInv
  <2>3. /\ lrq_lock' = lrq_lock /\ Pending(r)'
        /\ \A q \in Requests \ {r} : Pending(q)' <=> Pending(q)
    BY <1>20 DEF wait_for_request
  <2>4. lbl_pending_lrq_count' = [lbl_pending_lrq_count EXCEPT ![l] = @ + 1]
    BY <1>20, <2>1 DEF wait_for_request
  <2>5. PendingAt(l)' = PendingAt(l) \cup {r} /\ r \notin PendingAt(l)
    BY <2>1, <2>2, <2>3 DEF PendingAt
  <2>6. Cardinality(PendingAt(l)') = Cardinality(PendingAt(l)) + 1
    BY <2>5, PendingFinite, FS_AddElement
  <2>7. \A m \in Locks \ {l} : PendingAt(m)' = PendingAt(m)
    BY <2>1, <2>3 DEF PendingAt
  <2>8. lbl_pending_lrq_count'[l] = lbl_pending_lrq_count[l] + 1
    BY <2>4 DEF LblOK
  <2>9. \A m \in Locks \ {l} : lbl_pending_lrq_count'[m] = lbl_pending_lrq_count[m]
    BY <2>4 DEF LblOK
  <2>10. PendingRight(l)'
    BY <2>6, <2>8 DEF PendingRight
  <2>11. \A m \in Locks \ {l} : PendingRight(m)'
    BY <2>7, <2>9 DEF PendingRight
  <2> QED
    BY <2>10, <2>11
<1>21. ASSUME NEW r \in Requests, post_blockage(r)
       PROVE  \A m \in Locks : PendingRight(m)'
  BY <1>21, PendingSame DEF post_blockage, At, Goto
<1>22. ASSUME NEW r \in Requests, purge_unreachable(r)
       PROVE  \A m \in Locks : PendingRight(m)'
  BY <1>22, PendingSame DEF purge_unreachable, At
<1>23. ASSUME NEW r \in Requests, NEW b \in Owners, skip_owner(r, b)
       PROVE  \A m \in Locks : PendingRight(m)'
  BY <1>23, PendingSame DEF skip_owner, At
<1>24. ASSUME NEW r \in Requests, NEW b \in Owners, signal_owner(r, b)
       PROVE  \A m \in Locks : PendingRight(m)'
  BY <1>24, PendingSame DEF signal_owner, signal_locally, signal_remotely, signal_fails, At
<1>25. ASSUME NEW r \in Requests, wait_resolved(r)
       PROVE  \A m \in Locks : PendingRight(m)'
  BY <1>25, PendingSame DEF wait_resolved, At, Goto
<1>26. ASSUME NEW r \in Requests, wait_again(r)
       PROVE  \A m \in Locks : PendingRight(m)'
  BY <1>26, PendingSame DEF wait_again, At, Goto
<1>27. ASSUME NEW r \in Requests, wait_sleep(r)
       PROVE  \A m \in Locks : PendingRight(m)'
  BY <1>27, PendingSame DEF wait_sleep, At
<1>28. ASSUME NEW r \in Requests, event_wait(r)
       PROVE  \A m \in Locks : PendingRight(m)'
  BY <1>28, PendingSame DEF event_wait, acquire_shmem
<1>29. ASSUME NEW r \in Requests, wait_expired(r)
       PROVE  \A m \in Locks : PendingRight(m)'
  <2>1. Pending(r)
    BY <1>29 DEF wait_expired
  <2>2. lrq_lock[r] \in Locks
    BY <2>1, PendingTyped
  <2>3. /\ lrq_lock' = lrq_lock
        /\ lrq_flags' = [lrq_flags EXCEPT ![r] = (@ \cup {"rejected"}) \ {"pending"}]
        /\ lbl_pending_lrq_count' = [lbl_pending_lrq_count EXCEPT ![lrq_lock[r]] = @ - 1]
    BY <1>29 DEF wait_expired
  <2>4. ~Pending(r)' /\ \A q \in Requests \ {r} : Pending(q)' <=> Pending(q)
    BY <2>3
  <2> QED
    BY <2>1, <2>2, <2>3, <2>4, PendingRemoved
<1>30. ASSUME NEW r \in Requests, wait_woken(r)
       PROVE  \A m \in Locks : PendingRight(m)'
  BY <1>30, PendingSame DEF wait_woken, At, Goto
<1>31. ASSUME NEW r \in Requests, wait_probe(r)
       PROVE  \A m \in Locks : PendingRight(m)'
  BY <1>31, PendingSame DEF wait_probe, At
<1>32. ASSUME NEW r \in Requests, wait_granted(r)
       PROVE  \A m \in Locks : PendingRight(m)'
  BY <1>32, PendingSame DEF wait_granted, Succeed, At, Goto
<1>33. ASSUME NEW r \in Requests, wait_rejected(r)
       PROVE  \A m \in Locks : PendingRight(m)'
  BY <1>33, PendingSame DEF wait_rejected, At
<1>34. ASSUME NEW r \in Requests, NEW v \in Requests, deadlock_found(r, v)
       PROVE  \A m \in Locks : PendingRight(m)'
  <2>1. Pending(v)
    BY <1>34 DEF deadlock_found, Victims, Pursued
  <2>2. lrq_lock[v] \in Locks
    BY <2>1, PendingTyped
  <2>3. /\ lrq_lock' = lrq_lock
        /\ lrq_flags' = [lrq_flags EXCEPT ![v] = (@ \cup {"rejected"}) \ {"pending"}]
        /\ lbl_pending_lrq_count' = [lbl_pending_lrq_count EXCEPT ![lrq_lock[v]] = @ - 1]
    BY <1>34 DEF deadlock_found
  <2>4. ~Pending(v)' /\ \A q \in Requests \ {v} : Pending(q)' <=> Pending(q)
    BY <2>3
  <2> QED
    BY <2>1, <2>2, <2>3, <2>4, PendingRemoved
<1>35. ASSUME NEW r \in Requests, deadlock_not_found(r)
       PROVE  \A m \in Locks : PendingRight(m)'
  BY <1>35, PendingSame DEF deadlock_not_found, At, Goto
<1>36. ASSUME NEW r \in Requests, PostPendingGrant(r)
       PROVE  \A m \in Locks : PendingRight(m)'
  <2>1. Pending(r)
    BY <1>36 DEF PostPendingGrant, FirstPending
  <2> QED
    BY <1>36, <2>1, PendingTyped, GrantPending DEF PostPendingGrant
<1>37. ASSUME NEW r \in Requests, purge_owner_request(r)
       PROVE  \A m \in Locks : PendingRight(m)'
  <2>1. lrq_lock[r] \in Locks /\ release_request(r)
    BY <1>37 DEF purge_owner_request, QueueInv
  <2> QED
    BY <2>1, ReleasePending
<1>38. ASSUME NEW r \in Requests, purge_owner_repost(r)
       PROVE  \A m \in Locks : PendingRight(m)'
  BY <1>38, PendingSame DEF purge_owner_repost, Free, BlockInv
<1>39. CASE PostPendingEnd
  BY <1>39, PendingSame DEF PostPendingEnd
<1>40. ASSUME NEW o \in Owners, purge_owner(o)
       PROVE  \A m \in Locks : PendingRight(m)'
  BY <1>40, PendingSame DEF purge_owner
<1>41. ASSUME NEW o \in Owners, create_owner(o)
       PROVE  \A m \in Locks : PendingRight(m)'
  BY <1>41, PendingSame DEF create_owner, At
<1>42. ASSUME NEW o \in Owners, shutdownOwner_awake(o)
       PROVE  \A m \in Locks : PendingRight(m)'
  BY <1>42, PendingSame DEF shutdownOwner_awake, acquire_shmem
<1>43. ASSUME NEW p \in Processes, purge_process(p)
       PROVE  \A m \in Locks : PendingRight(m)'
  BY <1>43, PendingSame DEF purge_process
<1>44. ASSUME NEW t \in Threads, release_shmem(t)
       PROVE  \A m \in Locks : PendingRight(m)'
  BY <1>44, PendingSame DEF release_shmem, At
<1>45. ASSUME NEW t \in Threads, NEW q \in Requests, blocking_action(t, q)
       PROVE  \A m \in Locks : PendingRight(m)'
  <2>1. "blocking" \notin lrq_flags[q] => lrq_type[q] = "repost"
    BY <1>45 DEF blocking_action, Serving, Contexts, CallOK, BlockInv
  <2>2. /\ lbl_pending_lrq_count' = lbl_pending_lrq_count
        /\ \A a \in Requests \ {q} : lrq_lock'[a] = lrq_lock[a] /\ (Pending(a)' <=> Pending(a))
        /\ "blocking" \in lrq_flags[q] => lrq_lock'[q] = lrq_lock[q] /\ (Pending(q)' <=> Pending(q))
        /\ "blocking" \notin lrq_flags[q] => ~Pending(q)'
    BY <1>45 DEF blocking_action, Free
  <2>3. SamePending
    BY <2>1, <2>2 DEF BlockInv
  <2> QED
    BY <2>3, PendingSame
<1>46. ASSUME NEW t \in Threads, ast_return(t)
       PROVE  \A m \in Locks : PendingRight(m)'
  BY <1>46, PendingSame DEF ast_return, acquire_shmem, AfterAction
<1>47. ASSUME NEW t \in Threads, blocking_action_end(t)
       PROVE  \A m \in Locks : PendingRight(m)'
  BY <1>47, PendingSame DEF blocking_action_end, Serving
<1>48. ASSUME NEW p \in Processes, blocking_thread_wake(p)
       PROVE  \A m \in Locks : PendingRight(m)'
  BY <1>48, PendingSame DEF blocking_thread_wake, acquire_shmem
<1>49. ASSUME NEW p \in Processes, blocking_thread_sleep(p)
       PROVE  \A m \in Locks : PendingRight(m)'
  BY <1>49, PendingSame DEF blocking_thread_sleep, At, Goto
<1>50. ASSUME NEW p \in Processes, NEW o \in Owners, blocking_thread_serve(p, o)
       PROVE  \A m \in Locks : PendingRight(m)'
  BY <1>50, PendingSame DEF blocking_thread_serve, At
<1>51. ASSUME NEW p \in Processes, die(p)
       PROVE  \A m \in Locks : PendingRight(m)'
  BY <1>51, PendingSame DEF die, Idle
<1> QED
  BY <1>1, <1>2, <1>3, <1>4, <1>5, <1>6, <1>7, <1>8, <1>9, <1>10, <1>11, <1>12, <1>13, <1>14, <1>15,
     <1>16, <1>17, <1>18, <1>19, <1>20, <1>21, <1>22, <1>23, <1>24, <1>25, <1>26, <1>27, <1>28,
     <1>29, <1>30, <1>31, <1>32, <1>33, <1>34, <1>35, <1>36, <1>37, <1>38, <1>39, <1>40, <1>41,
     <1>42, <1>43, <1>44, <1>45, <1>46, <1>47, <1>48, <1>49, <1>50, <1>51
     DEF Next, Client, RequestStep, TableStep, AstStep, Crash
\* What is known of pending requests.
RecountInv == PendInv /\ \A m \in Locks : PendingRight(m)

\* An empty lock table satisfies it.
LEMMA RecountInit ==
  ASSUME Init
  PROVE  RecountInv
<1>1. PendInv
  BY ConstantsAssumption DEF ConstantsAssumption, Init, PendInv, Pending
<1>2. \A m \in Locks : PendingAt(m) = {}
  BY DEF Init, PendingAt, Pending
<1> QED
  BY <1>1, <1>2, FS_EmptySet DEF Init, RecountInv, PendingRight

\* Every step keeps it.
LEMMA RecountStep == KeptInv /\ RecountInv /\ [Next]_vars => RecountInv'
<1> SUFFICES ASSUME KeptInv, RecountInv, [Next]_vars PROVE RecountInv'
  OBVIOUS
<1>1. LrqOK /\ LblOK /\ OwnOK /\ PrcOK /\ TableOK /\ CallOK
  BY TypeParts DEF KeptInv, TableInv
<1>2. ThreadInv /\ UseInv /\ QueueInv /\ BlockInv /\ OwnerInv
  BY DEF KeptInv, TableInv, PresenceInv
<1>3. CASE Next
  <2>1. PendInv'
    BY <1>1, <1>2, <1>3, PendStep DEF RecountInv
  <2>2. \A m \in Locks : PendingRight(m)'
    BY <1>1, <1>2, <1>3, PendingStep DEF RecountInv
  <2> QED
    BY <2>1, <2>2 DEF RecountInv
<1>4. CASE UNCHANGED vars
  <2>1. PendInv'
    BY <1>4 DEF vars, lrqVars, prcVars, tableVars, threadVars, RecountInv, PendInv, Pending
  <2>2. SamePending
    BY <1>4 DEF vars, lrqVars, lblVars, SamePending, Pending
  <2>3. \A m \in Locks : PendingRight(m)'
    BY <2>2, PendingSame DEF RecountInv
  <2> QED
    BY <2>1, <2>3 DEF RecountInv
<1> QED
  BY <1>3, <1>4

\* The counters of every lock are what a recount of its requests gives, and its
\* state is that of the counters whenever nobody is in the table: no release of
\* a pending request, rejected conversion, grant or purge leaves one behind.
THEOREM CountersRight == Spec => []CountersMatch
<1>1. Init => TableInv /\ GrantInv /\ RecountInv
  BY TableInvInit, GrantInvInit, RecountInit
<1>2. KeptInv /\ GrantInv /\ RecountInv /\ [Next]_vars => GrantInv' /\ RecountInv'
  BY GrantInvStep, RecountStep DEF KeptInv
<1>3. KeptInv /\ GrantInv /\ RecountInv => CountersMatch
  <2> SUFFICES ASSUME KeptInv, GrantInv, RecountInv, NEW l \in Locks
               PROVE  /\ CountsRight(l)
                      /\ lbl_pending_lrq_count[l] =
                           Cardinality({r \in ToSet(lbl_requests[l]) : "pending" \in lrq_flags[r]})
                      /\ holder = NoThread => StateRight(l)
    BY DEF CountersMatch, CountsRight, StateRight
  <2>1. CountsRight(l) /\ (holder = NoThread => StateRight(l))
    BY ConstantsAssumption DEF ConstantsAssumption, GrantInv, CountInv, SetUp
  <2>2. LblOK /\ QueueInv /\ BlockInv
    BY TypeParts DEF KeptInv, TableInv
  <2>3. \A r \in PendingAt(l) : In(r, lbl_requests[l])
    BY <2>2, PendingTyped DEF PendingAt
  <2>4. \A r : In(r, lbl_requests[l]) => r \in ToSet(lbl_requests[l])
    BY <2>2, QueueMembers DEF In, ToSet
  <2>5. \A r \in ToSet(lbl_requests[l]) : r \in Requests /\ lrq_lock[r] = l
    BY <2>2, QueueMembers
  <2>6. PendingAt(l) = {r \in ToSet(lbl_requests[l]) : "pending" \in lrq_flags[r]}
    BY <2>3, <2>4, <2>5 DEF PendingAt, Pending
  <2>7. PendingRight(l)
    BY DEF RecountInv
  <2> QED
    BY <2>1, <2>6, <2>7 DEF PendingRight
<1> QED
  BY <1>1, <1>2, <1>3, KeptInvHolds, PTL DEF Spec
-----------------------------------------------------------------------------
(* Signals and AST routines.                                                 *)

\* An owner is served by threads of its process, which is alive, and they hold
\* the mutex or run an AST routine.  The blocking thread of a live process
\* leaves the table only when no owner of its process is signalled.
ServeInv ==
  /\ \A t \in Threads : thread[t].serving # NoOwner =>
       /\ Home[thread[t].serving] = ProcessOf(t)
       /\ ProcessOf(t) \in running
       /\ holder = t \/ thread[t].pc = "ast"
  /\ \A p \in Processes : thread[p].pc = "ast" => p \in running
  /\ holder \in Processes =>
       /\ holder \in running
       /\ next # "poll" =>
            \A o \in lhb_owners : Home[o] = holder => "signaled" \notin own_flags[o]

\* It is kept by a step that leaves the threads alone that serve an owner.
LEMMA ServeKept ==
  ASSUME ServeInv, thread' = thread,
         \A t \in Threads : thread[t].serving # NoOwner =>
           /\ ProcessOf(t)' = ProcessOf(t)
           /\ ProcessOf(t) \in running'
           /\ holder' = t \/ thread[t].pc = "ast",
         \A p \in Processes : thread[p].pc = "ast" => p \in running',
         holder' \in Processes =>
           /\ holder' \in running'
           /\ next' # "poll" =>
                \A o \in lhb_owners' : Home[o] = holder' => "signaled" \notin own_flags'[o]
  PROVE  ServeInv'
BY DEF ServeInv

\* Every step keeps what is known of threads that serve owners.
LEMMA ServeStep ==
  ASSUME LrqOK, LblOK, OwnOK, PrcOK, TableOK, CallOK, ThreadInv, UseInv, QueueInv,
         BlockInv, OwnerInv, ServeInv, Next
  PROVE  ServeInv'
<1> USE ConstantsAssumption DEF ConstantsAssumption, Threads, NoCall, Idle, Contexts, lrqVars, lblVars, ownVars, prcVars,
       tableVars, threadVars, CallOK, TableOK, PrcOK, OwnOK, ServeInv, ProcessOf
<1>1. ASSUME NEW o \in Owners, NEW l \in Locks, NEW level \in Levels, NEW wait \in Waits,
             NEW ast \in Asts, NEW r \in Requests, enqueue(o, l, level, wait, ast, r)
       PROVE  ServeInv'
  <2>1. /\ holder = NoThread /\ holder' = r /\ thread' = thread /\ running' = running
        /\ call[r] = NoCall /\ \A x \in Requests \ {r} : call'[x] = call[x]
    BY <1>1 DEF enqueue, acquire_shmem
  <2>2. thread[r].serving = NoOwner /\ thread[r].pc = "idle"
    BY <2>1 DEF ThreadInv
  <2>3. \A t \in Threads : thread[t].serving # NoOwner => ProcessOf(t)' = ProcessOf(t)
    BY <2>1, <2>2
  <2> QED
    BY <2>1, <2>2, <2>3, ServeKept
<1>2. ASSUME NEW q \in Requests, NEW l \in Locks, NEW level \in Levels, NEW wait \in Waits,
             NEW ast \in Asts, NEW r \in Requests, enqueue_prior(q, l, level, wait, ast, r)
       PROVE  ServeInv'
  <2>1. /\ holder = NoThread /\ holder' = r /\ thread' = thread /\ running' = running
        /\ call[r] = NoCall /\ \A x \in Requests \ {r} : call'[x] = call[x]
    BY <1>2 DEF enqueue_prior, acquire_shmem, Known, release_request
  <2>2. thread[r].serving = NoOwner /\ thread[r].pc = "idle"
    BY <2>1 DEF ThreadInv
  <2>3. \A t \in Threads : thread[t].serving # NoOwner => ProcessOf(t)' = ProcessOf(t)
    BY <2>1, <2>2
  <2> QED
    BY <2>1, <2>2, <2>3, ServeKept
<1>3. ASSUME NEW r \in Requests, NEW level \in Levels, NEW wait \in Waits,
             NEW ast \in Asts, convert(r, level, wait, ast)
       PROVE  ServeInv'
  <2>1. /\ holder = NoThread /\ holder' = r /\ thread' = thread /\ running' = running
        /\ call[r] = NoCall /\ \A x \in Requests \ {r} : call'[x] = call[x]
    BY <1>3 DEF convert, acquire_shmem, Known
  <2>2. thread[r].serving = NoOwner /\ thread[r].pc = "idle"
    BY <2>1 DEF ThreadInv
  <2>3. \A t \in Threads : thread[t].serving # NoOwner => ProcessOf(t)' = ProcessOf(t)
    BY <2>1, <2>2
  <2> QED
    BY <2>1, <2>2, <2>3, ServeKept
<1>4. ASSUME NEW r \in Requests, downgrade(r)
       PROVE  ServeInv'
  <2>1. /\ holder = NoThread /\ holder' = r /\ thread' = thread /\ running' = running
        /\ call[r] = NoCall /\ \A x \in Requests \ {r} : call'[x] = call[x]
    BY <1>4 DEF downgrade, Reduce, acquire_shmem, Known
  <2>2. thread[r].serving = NoOwner /\ thread[r].pc = "idle"
    BY <2>1 DEF ThreadInv
  <2>3. \A t \in Threads : thread[t].serving # NoOwner => ProcessOf(t)' = ProcessOf(t)
    BY <2>1, <2>2
  <2> QED
    BY <2>1, <2>2, <2>3, ServeKept
<1>5. ASSUME NEW r \in Requests, dequeue(r)
       PROVE  ServeInv'
  <2>1. /\ holder = NoThread /\ holder' = r /\ thread' = thread /\ running' = running
        /\ call[r] = NoCall /\ \A x \in Requests \ {r} : call'[x] = call[x]
    BY <1>5 DEF dequeue, Reduce, acquire_shmem, Known
  <2>2. thread[r].serving = NoOwner /\ thread[r].pc = "idle"
    BY <2>1 DEF ThreadInv
  <2>3. \A t \in Threads : thread[t].serving # NoOwner => ProcessOf(t)' = ProcessOf(t)
    BY <2>1, <2>2
  <2> QED
    BY <2>1, <2>2, <2>3, ServeKept
<1>6. ASSUME NEW o \in Owners, NEW q \in Requests, repost(o, q)
       PROVE  ServeInv'
  BY <1>6 DEF repost, acquire_shmem
<1>7. ASSUME NEW o \in Owners, cancelWait(o)
       PROVE  ServeInv'
  BY <1>7 DEF cancelWait
<1>8. ASSUME NEW o \in Owners, Usable(o), initializeOwner_again(o)
       PROVE  ServeInv'
  BY <1>8 DEF initializeOwner_again
<1>9. ASSUME NEW o \in Owners, initializeOwner(o)
       PROVE  ServeInv'
  BY <1>9 DEF initializeOwner, acquire_shmem
<1>10. ASSUME NEW o \in Owners, shutdownOwner(o)
       PROVE  ServeInv'
  BY <1>10 DEF shutdownOwner, Usable, Quiet
<1>11. ASSUME NEW p \in Processes, destroy(p)
       PROVE  ServeInv'
  <2>1. /\ holder = NoThread /\ holder' = holder /\ thread' = thread /\ running' = running \ {p}
        /\ call' = call /\ thread[p].pc = "idle"
        /\ \A o \in Owners : Home[o] = p =>
             thread[o] = Idle /\ \A r \in Requests : call[r] # NoCall => call[r].owner # o
    BY <1>11 DEF destroy, Quiet
  <2>2. ASSUME NEW t \in Threads, thread[t].serving # NoOwner
        PROVE  ProcessOf(t) # p
    <3>1. thread[t].pc = "ast"
      BY <2>1, <2>2
    <3>2. CASE t \in Requests
      <4>1. call[t] # NoCall
        BY <2>2, <3>2 DEF ThreadInv
      <4>2. call[t].owner \in Owners
        BY <3>2, <4>1 DEF Calls
      <4> QED
        BY <2>1, <3>2, <4>1, <4>2
    <3>3. CASE t \in Owners
      BY <2>1, <3>1, <3>3
    <3>4. CASE t \in Processes
      BY <2>1, <3>1, <3>4
    <3> QED
      BY <3>2, <3>3, <3>4
  <2>3. \A t \in Threads : ProcessOf(t)' = ProcessOf(t)
    BY <2>1
  <2>4. holder' \notin Processes
    BY <2>1
  <2>5. \A t \in Threads : thread[t].serving # NoOwner => thread[t].pc = "ast"
    BY <2>1
  <2> HIDE DEF ProcessOf
  <2> QED
    BY <2>1, <2>2, <2>3, <2>4, <2>5, ServeKept
<1>12. ASSUME NEW r \in Requests, enqueue_insert(r)
       PROVE  ServeInv'
  BY <1>12 DEF enqueue_insert, At, Goto
<1>13. ASSUME NEW r \in Requests, enqueue_grant(r)
       PROVE  ServeInv'
  BY <1>13 DEF enqueue_grant, Succeed, At, Goto, grant
<1>14. ASSUME NEW r \in Requests, grant_or_que_grant(r)
       PROVE  ServeInv'
  BY <1>14 DEF grant_or_que_grant, Succeed, At, grant
<1>15. ASSUME NEW r \in Requests, grant_or_que_block(r)
       PROVE  ServeInv'
  BY <1>15 DEF grant_or_que_block, At, Goto
<1>16. ASSUME NEW r \in Requests, internal_dequeue(r)
       PROVE  ServeInv'
  BY <1>16 DEF internal_dequeue, At, release_request, Free
<1>17. ASSUME NEW r \in Requests, internal_convert_grant(r)
       PROVE  ServeInv'
  BY <1>17 DEF internal_convert_grant, Succeed, At, grant
<1>18. ASSUME NEW r \in Requests, internal_convert_block(r)
       PROVE  ServeInv'
  BY <1>18 DEF internal_convert_block, At, Goto
<1>19. ASSUME NEW r \in Requests, internal_convert_undo(r)
       PROVE  ServeInv'
  BY <1>19 DEF internal_convert_undo, Fail, At, Goto
<1>20. ASSUME NEW r \in Requests, wait_for_request(r)
       PROVE  ServeInv'
  BY <1>20 DEF wait_for_request, At, Goto
<1>21. ASSUME NEW r \in Requests, post_blockage(r)
       PROVE  ServeInv'
  BY <1>21 DEF post_blockage, At, Goto
<1>22. ASSUME NEW r \in Requests, purge_unreachable(r)
       PROVE  ServeInv'
  BY <1>22 DEF purge_unreachable, At
<1>23. ASSUME NEW r \in Requests, NEW b \in Owners, skip_owner(r, b)
       PROVE  ServeInv'
  BY <1>23 DEF skip_owner, At
<1>24. ASSUME NEW r \in Requests, NEW b \in Owners, signal_owner(r, b)
       PROVE  ServeInv'
  <2>1. /\ holder = r /\ holder' = holder /\ next' = next /\ lhb_owners' = lhb_owners
        /\ running' = running /\ call' = call
        /\ thread[r].serving = NoOwner
    BY <1>24 DEF signal_owner, At
  <2>2. /\ \A t \in Threads \ {r} : thread'[t] = thread[t]
        /\ thread'[r].pc = thread[r].pc
        /\ \/ thread'[r].serving = NoOwner
           \/ thread'[r].serving = b /\ Home[b] = ProcessOf(r)
    BY <1>24, <2>1 DEF signal_owner, signal_locally, signal_remotely, signal_fails
  <2>3. ProcessOf(r) \in running
    BY <1>24, <2>1 DEF signal_owner, At, UseInv, ThreadInv
  <2>4. \A t \in Threads : ProcessOf(t)' = ProcessOf(t)
    BY <2>1
  <2> HIDE DEF ProcessOf
  <2>5. \A t \in Threads : thread'[t].serving # NoOwner =>
          /\ Home[thread'[t].serving] = ProcessOf(t)'
          /\ ProcessOf(t)' \in running'
          /\ holder' = t \/ thread'[t].pc = "ast"
    BY <2>1, <2>2, <2>3, <2>4
  <2>6. \A p \in Processes : thread'[p].pc = "ast" => p \in running'
    BY <2>1, <2>2
  <2>7. holder' \notin Processes
    BY <2>1
  <2> QED
    BY <2>5, <2>6, <2>7
<1>25. ASSUME NEW r \in Requests, wait_resolved(r)
       PROVE  ServeInv'
  BY <1>25 DEF wait_resolved, At, Goto
<1>26. ASSUME NEW r \in Requests, wait_again(r)
       PROVE  ServeInv'
  BY <1>26 DEF wait_again, At, Goto
<1>27. ASSUME NEW r \in Requests, wait_sleep(r)
       PROVE  ServeInv'
  BY <1>27 DEF wait_sleep, At
<1>28. ASSUME NEW r \in Requests, event_wait(r)
       PROVE  ServeInv'
  BY <1>28 DEF event_wait, acquire_shmem
<1>29. ASSUME NEW r \in Requests, wait_expired(r)
       PROVE  ServeInv'
  BY <1>29 DEF wait_expired, At
<1>30. ASSUME NEW r \in Requests, wait_woken(r)
       PROVE  ServeInv'
  BY <1>30 DEF wait_woken, At, Goto
<1>31. ASSUME NEW r \in Requests, wait_probe(r)
       PROVE  ServeInv'
  BY <1>31 DEF wait_probe, At
<1>32. ASSUME NEW r \in Requests, wait_granted(r)
       PROVE  ServeInv'
  BY <1>32 DEF wait_granted, Succeed, At, Goto
<1>33. ASSUME NEW r \in Requests, wait_rejected(r)
       PROVE  ServeInv'
  BY <1>33 DEF wait_rejected, At
<1>34. ASSUME NEW r \in Requests, NEW v \in Requests, deadlock_found(r, v)
       PROVE  ServeInv'
  BY <1>34 DEF deadlock_found, ScanDue, At, Goto
<1>35. ASSUME NEW r \in Requests, deadlock_not_found(r)
       PROVE  ServeInv'
  BY <1>35 DEF deadlock_not_found, At, Goto
<1>36. ASSUME NEW r \in Requests, PostPendingGrant(r)
       PROVE  ServeInv'
  <2>1. /\ thread' = thread /\ running' = running /\ holder' = holder /\ next' = next
        /\ lhb_owners' = lhb_owners
        /\ \A t \in Threads : ProcessOf(t)' = ProcessOf(t)
    BY <1>36 DEF PostPendingGrant, grant
  <2>2. \A o \in lhb_owners : "signaled" \in own_flags'[o] => "signaled" \in own_flags[o]
    BY <1>36 DEF PostPendingGrant, grant, post_wakeup
  <2> QED
    BY <2>1, <2>2, ServeKept
<1>37. ASSUME NEW r \in Requests, purge_owner_request(r)
       PROVE  ServeInv'
  BY <1>37 DEF purge_owner_request, release_request, Free
<1>38. ASSUME NEW r \in Requests, purge_owner_repost(r)
       PROVE  ServeInv'
  BY <1>38 DEF purge_owner_repost, Free
<1>39. CASE PostPendingEnd
  <2>1. /\ thread' = thread /\ running' = running /\ holder' = holder /\ next' = next
        /\ lhb_owners' = lhb_owners
        /\ \A t \in Threads : ProcessOf(t)' = ProcessOf(t)
    BY <1>39 DEF PostPendingEnd
  <2>2. \A o \in lhb_owners : "signaled" \in own_flags'[o] => "signaled" \in own_flags[o]
    BY <1>39 DEF PostPendingEnd, post_wakeup
  <2> QED
    BY <2>1, <2>2, ServeKept
<1>40. ASSUME NEW o \in Owners, purge_owner(o)
       PROVE  ServeInv'
  BY <1>40 DEF purge_owner
<1>41. ASSUME NEW o \in Owners, create_owner(o)
       PROVE  ServeInv'
  BY <1>41 DEF create_owner, At
<1>42. ASSUME NEW o \in Owners, shutdownOwner_awake(o)
       PROVE  ServeInv'
  BY <1>42 DEF shutdownOwner_awake, acquire_shmem
<1>43. ASSUME NEW p \in Processes, purge_process(p)
       PROVE  ServeInv'
  BY <1>43 DEF purge_process
<1>44. ASSUME NEW t \in Threads, release_shmem(t)
       PROVE  ServeInv'
  BY <1>44 DEF release_shmem, At
<1>45. ASSUME NEW t \in Threads, NEW q \in Requests, blocking_action(t, q)
       PROVE  ServeInv'
  BY <1>45 DEF blocking_action, Serving
<1>46. ASSUME NEW t \in Threads, ast_return(t)
       PROVE  ServeInv'
  BY <1>46 DEF ast_return, acquire_shmem, AfterAction
<1>47. ASSUME NEW t \in Threads, blocking_action_end(t)
       PROVE  ServeInv'
  <2>1. /\ holder' = holder /\ next' = next /\ lhb_owners' = lhb_owners /\ holder = t
        /\ running' = running /\ \A x \in Threads : ProcessOf(x)' = ProcessOf(x)
        /\ \A x \in Threads \ {t} : thread'[x] = thread[x]
        /\ thread'[t].serving = NoOwner /\ thread'[t].pc = thread[t].pc
    BY <1>47 DEF blocking_action_end, Serving
  <2>2. \A o \in lhb_owners : "signaled" \in own_flags'[o] => "signaled" \in own_flags[o]
    BY <1>47 DEF blocking_action_end
  <2> HIDE DEF ProcessOf
  <2>3. \A x \in Threads : thread'[x].serving # NoOwner =>
          /\ Home[thread'[x].serving] = ProcessOf(x)'
          /\ ProcessOf(x)' \in running'
          /\ holder' = x \/ thread'[x].pc = "ast"
    BY <2>1
  <2>4. \A p \in Processes : thread'[p].pc = "ast" => p \in running'
    BY <2>1
  <2> QED
    BY <2>1, <2>2, <2>3, <2>4
<1>48. ASSUME NEW p \in Processes, blocking_thread_wake(p)
       PROVE  ServeInv'
  BY <1>48 DEF blocking_thread_wake, acquire_shmem
<1>49. ASSUME NEW p \in Processes, blocking_thread_sleep(p)
       PROVE  ServeInv'
  BY <1>49 DEF blocking_thread_sleep, At, Goto
<1>50. ASSUME NEW p \in Processes, NEW o \in Owners, blocking_thread_serve(p, o)
       PROVE  ServeInv'
  BY <1>50 DEF blocking_thread_serve, At
<1>51. ASSUME NEW p \in Processes, die(p)
       PROVE  ServeInv'
  <2>1. /\ holder = NoThread /\ holder' = holder /\ running' = running \ {p}
        /\ call' = [r \in Requests |->
             IF call[r] # NoCall /\ Home[call[r].owner] = p THEN NoCall ELSE call[r]]
        /\ thread' = [t \in Threads |->
             IF \/ t = p
                \/ t \in Owners /\ Home[t] = p
                \/ t \in Requests /\ call[t] # NoCall /\ Home[call[t].owner] = p
             THEN Idle ELSE thread[t]]
    BY <1>51 DEF die
  <2>2. ASSUME NEW t \in Threads, thread'[t].serving # NoOwner
        PROVE  /\ thread'[t] = thread[t] /\ ProcessOf(t)' = ProcessOf(t) /\ ProcessOf(t) # p
               /\ thread[t].pc = "ast"
    <3>1. thread'[t] = thread[t] /\ thread[t].serving # NoOwner
      BY <2>1, <2>2
    <3>5. thread[t].pc = "ast"
      BY <2>1, <3>1
    <3>2. CASE t \in Requests
      <4>1. call[t] # NoCall
        BY <3>1, <3>2 DEF ThreadInv
      <4>2. Home[call[t].owner] # p
        BY <2>1, <2>2, <3>2, <4>1
      <4>3. call'[t] = call[t]
        BY <2>1, <3>2, <4>2
      <4> QED
        BY <3>1, <3>2, <3>5, <4>2, <4>3
    <3>3. CASE t \in Owners
      BY <2>1, <2>2, <3>1, <3>3, <3>5
    <3>4. CASE t \in Processes
      BY <2>1, <2>2, <3>1, <3>4, <3>5
    <3> QED
      BY <3>2, <3>3, <3>4, <3>5
  <2>3. holder' \notin Processes
    BY <2>1
  <2> HIDE DEF ProcessOf
  <2>4. ASSUME NEW t \in Threads, thread'[t].serving # NoOwner
        PROVE  /\ Home[thread'[t].serving] = ProcessOf(t)'
               /\ ProcessOf(t)' \in running'
               /\ thread'[t].pc = "ast"
    <3>1. /\ thread'[t] = thread[t] /\ ProcessOf(t)' = ProcessOf(t) /\ ProcessOf(t) # p
          /\ thread[t].pc = "ast"
      BY <2>2, <2>4
    <3> QED
      BY <2>1, <2>4, <3>1
  <2>5. \A q \in Processes : thread'[q].pc = "ast" => q \in running'
    BY <2>1
  <2> QED
    BY <2>3, <2>4, <2>5
<1> QED
  BY <1>1, <1>2, <1>3, <1>4, <1>5, <1>6, <1>7, <1>8, <1>9, <1>10, <1>11, <1>12, <1>13, <1>14, <1>15,
     <1>16, <1>17, <1>18, <1>19, <1>20, <1>21, <1>22, <1>23, <1>24, <1>25, <1>26, <1>27, <1>28,
     <1>29, <1>30, <1>31, <1>32, <1>33, <1>34, <1>35, <1>36, <1>37, <1>38, <1>39, <1>40, <1>41,
     <1>42, <1>43, <1>44, <1>45, <1>46, <1>47, <1>48, <1>49, <1>50, <1>51
     DEF Next, Client, RequestStep, TableStep, AstStep, Crash
\* A step keeps SignalServed that signals nobody, frees no thread that serves an
\* owner and clears no event.
LEMMA SignalKept ==
  ASSUME SignalServed, lhb_owners' \subseteq lhb_owners, running' \subseteq running,
         \A o \in lhb_owners' : "signaled" \in own_flags'[o] /\ own_count'[o] > 0
                                  /\ Home[o] \in running' =>
           /\ "signaled" \in own_flags[o] /\ own_count[o] > 0
           /\ \A t \in Threads : thread[t].serving = o => thread'[t].serving = o
           /\ prc_blocking[Home[o]] => prc_blocking'[Home[o]]
           /\ thread[Home[o]].pc = "ast" => thread'[Home[o]].pc = "ast"
           /\ holder = Home[o] => holder' = Home[o]
  PROVE  SignalServed'
BY DEF SignalServed

\* Every step keeps SignalServed.
LEMMA SignalStep ==
  ASSUME LrqOK, LblOK, OwnOK, PrcOK, TableOK, CallOK, ThreadInv, UseInv, QueueInv,
         BlockInv, OwnerInv, ServeInv, SignalServed, Next
  PROVE  SignalServed'
<1> USE ConstantsAssumption DEF ConstantsAssumption, Threads, Idle, Contexts, lrqVars, lblVars, ownVars, prcVars,
       tableVars, threadVars, CallOK, TableOK, PrcOK, OwnOK
<1>1. ASSUME NEW o \in Owners, NEW l \in Locks, NEW level \in Levels, NEW wait \in Waits,
             NEW ast \in Asts, NEW r \in Requests, enqueue(o, l, level, wait, ast, r)
       PROVE  SignalServed'
  BY <1>1, SignalKept DEF enqueue, acquire_shmem, Usable
<1>2. ASSUME NEW q \in Requests, NEW l \in Locks, NEW level \in Levels, NEW wait \in Waits,
             NEW ast \in Asts, NEW r \in Requests, enqueue_prior(q, l, level, wait, ast, r)
       PROVE  SignalServed'
  BY <1>2, SignalKept DEF enqueue_prior, acquire_shmem, Known, Usable, release_request, Free
<1>3. ASSUME NEW r \in Requests, NEW level \in Levels, NEW wait \in Waits,
             NEW ast \in Asts, convert(r, level, wait, ast)
       PROVE  SignalServed'
  BY <1>3, SignalKept DEF convert, acquire_shmem, Known, Usable
<1>4. ASSUME NEW r \in Requests, downgrade(r)
       PROVE  SignalServed'
  BY <1>4, SignalKept DEF downgrade, Reduce, acquire_shmem, Known, Usable
<1>5. ASSUME NEW r \in Requests, dequeue(r)
       PROVE  SignalServed'
  BY <1>5, SignalKept DEF dequeue, Reduce, acquire_shmem, Known, Usable
<1>6. ASSUME NEW o \in Owners, NEW q \in Requests, repost(o, q)
       PROVE  SignalServed'
  <2>1. /\ holder = NoThread /\ lhb_owners' = lhb_owners /\ running' = running
        /\ own_count' = own_count /\ prc_blocking' = prc_blocking /\ o \in lhb_owners
        /\ thread[o].serving = NoOwner
        /\ own_flags' = [own_flags EXCEPT ![o] = @ \cup {"signaled"}]
        /\ thread' = [thread EXCEPT ![o].serving =
             IF "signaled" \in own_flags[o] THEN NoOwner ELSE o]
    BY <1>6 DEF repost, acquire_shmem
  <2>2. CASE "signaled" \in own_flags[o]
    BY <2>1, <2>2, SignalKept
  <2>3. CASE "signaled" \notin own_flags[o]
    <3>1. thread'[o].serving = o
      BY <2>1, <2>3
    <3>2. ASSUME NEW b \in lhb_owners, b # o, "signaled" \in own_flags'[b], own_count[b] > 0,
                 Home[b] \in running
          PROVE  \/ \E t \in Threads : thread'[t].serving = b
                 \/ prc_blocking[Home[b]]
                 \/ thread'[Home[b]].pc = "ast"
      <4>1. "signaled" \in own_flags[b]
        BY <2>1, <3>2
      <4>2. \A t \in Threads : thread[t].serving = b => thread'[t].serving = b
        BY <2>1
      <4>3. \A p \in Processes : thread'[p] = thread[p]
        BY <2>1
      <4>5. Home[b] \in Processes /\ Home[b] # NoThread
        OBVIOUS
      <4>4. \/ \E t \in Threads : thread[t].serving = b
            \/ prc_blocking[Home[b]]
            \/ thread[Home[b]].pc = "ast"
        BY <2>1, <3>2, <4>1, <4>5 DEF SignalServed
      <4> HIDE DEF Threads
      <4> QED
        BY <4>2, <4>3, <4>4, <4>5
    <3> QED
      BY <2>1, <3>1, <3>2 DEF SignalServed
  <2> QED
    BY <2>2, <2>3
<1>7. ASSUME NEW o \in Owners, cancelWait(o)
       PROVE  SignalServed'
  BY <1>7, SignalKept DEF cancelWait, post_wakeup, Usable
<1>8. ASSUME NEW o \in Owners, Usable(o), initializeOwner_again(o)
       PROVE  SignalServed'
  BY <1>8, SignalKept DEF initializeOwner_again, Usable
<1>9. ASSUME NEW o \in Owners, initializeOwner(o)
       PROVE  SignalServed'
  BY <1>9, SignalKept DEF initializeOwner, acquire_shmem
<1>10. ASSUME NEW o \in Owners, shutdownOwner(o)
       PROVE  SignalServed'
  BY <1>10, SignalKept DEF shutdownOwner, Usable, Quiet
<1>11. ASSUME NEW p \in Processes, destroy(p)
       PROVE  SignalServed'
  BY <1>11, SignalKept DEF destroy, Quiet
<1>12. ASSUME NEW r \in Requests, enqueue_insert(r)
       PROVE  SignalServed'
  BY <1>12, SignalKept DEF enqueue_insert, At, Goto
<1>13. ASSUME NEW r \in Requests, enqueue_grant(r)
       PROVE  SignalServed'
  BY <1>13, SignalKept DEF enqueue_grant, Succeed, At, Goto, grant, post_wakeup
<1>14. ASSUME NEW r \in Requests, grant_or_que_grant(r)
       PROVE  SignalServed'
  BY <1>14, SignalKept DEF grant_or_que_grant, Succeed, At, grant, post_wakeup
<1>15. ASSUME NEW r \in Requests, grant_or_que_block(r)
       PROVE  SignalServed'
  BY <1>15, SignalKept DEF grant_or_que_block, At, Goto
<1>16. ASSUME NEW r \in Requests, internal_dequeue(r)
       PROVE  SignalServed'
  BY <1>16, SignalKept DEF internal_dequeue, At, release_request, Free
<1>17. ASSUME NEW r \in Requests, internal_convert_grant(r)
       PROVE  SignalServed'
  BY <1>17, SignalKept DEF internal_convert_grant, Succeed, At, grant, post_wakeup
<1>18. ASSUME NEW r \in Requests, internal_convert_block(r)
       PROVE  SignalServed'
  BY <1>18, SignalKept DEF internal_convert_block, At, Goto
<1>19. ASSUME NEW r \in Requests, internal_convert_undo(r)
       PROVE  SignalServed'
  BY <1>19, SignalKept DEF internal_convert_undo, Fail, At, Goto
<1>20. ASSUME NEW r \in Requests, wait_for_request(r)
       PROVE  SignalServed'
  BY <1>20, SignalKept DEF wait_for_request, At, Goto
<1>21. ASSUME NEW r \in Requests, post_blockage(r)
       PROVE  SignalServed'
  BY <1>21, SignalKept DEF post_blockage, At, Goto
<1>22. ASSUME NEW r \in Requests, purge_unreachable(r)
       PROVE  SignalServed'
  BY <1>22, SignalKept DEF purge_unreachable, At
<1>23. ASSUME NEW r \in Requests, NEW b \in Owners, skip_owner(r, b)
       PROVE  SignalServed'
  BY <1>23, SignalKept DEF skip_owner, At
<1>24. ASSUME NEW r \in Requests, NEW b \in Owners, signal_owner(r, b)
       PROVE  SignalServed'
  <2>1. /\ holder = r /\ holder' = holder /\ lhb_owners' = lhb_owners /\ running' = running
        /\ own_count' = own_count /\ thread[r].serving = NoOwner
    BY <1>24 DEF signal_owner, At
  <2>2. /\ \A t \in Threads \ {r} : thread'[t] = thread[t]
        /\ \A o \in Owners \ {b} : own_flags'[o] = own_flags[o]
        /\ \A p \in Processes : prc_blocking[p] => prc_blocking'[p]
    <3>1. CASE signal_locally(r, b)
      BY <3>1 DEF signal_locally
    <3>2. CASE signal_remotely(r, b)
      BY <3>2 DEF signal_remotely
    <3>3. CASE signal_fails(r, b)
      BY <3>3 DEF signal_fails
    <3> QED
      BY <1>24, <3>1, <3>2, <3>3 DEF signal_owner
  <2>3. \/ thread'[r].serving = b
        \/ b \in lhb_owners => prc_blocking'[Home[b]]
        \/ own_flags'[b] = own_flags[b]
    <3>1. CASE signal_locally(r, b)
      BY <3>1, <2>1 DEF signal_locally
    <3>2. CASE signal_remotely(r, b)
      BY <3>2 DEF signal_remotely
    <3>3. CASE signal_fails(r, b)
      BY <3>3 DEF signal_fails
    <3> QED
      BY <1>24, <3>1, <3>2, <3>3 DEF signal_owner
  <2>4. ASSUME NEW o \in lhb_owners, own_flags'[o] = own_flags[o], "signaled" \in own_flags'[o],
               own_count[o] > 0, Home[o] \in running
        PROVE  \/ \E t \in Threads : thread'[t].serving = o
               \/ prc_blocking'[Home[o]]
               \/ thread'[Home[o]].pc = "ast"
    <3>1. Home[o] \in Processes /\ holder # Home[o] /\ thread'[Home[o]] = thread[Home[o]]
      BY <2>1, <2>2
    <3>2. ASSUME NEW t \in Threads, thread[t].serving = o PROVE thread'[t].serving = o
      BY <2>1, <2>2, <3>2
    <3>3. \/ \E t \in Threads : thread[t].serving = o
          \/ prc_blocking[Home[o]]
          \/ thread[Home[o]].pc = "ast"
      BY <2>4, <3>1 DEF SignalServed
    <3> HIDE DEF Threads
    <3> QED
      BY <2>2, <3>1, <3>2, <3>3
  <2>5. ASSUME NEW o \in lhb_owners, "signaled" \in own_flags'[o], own_count[o] > 0,
               Home[o] \in running
        PROVE  \/ \E t \in Threads : thread'[t].serving = o
               \/ prc_blocking'[Home[o]]
               \/ thread'[Home[o]].pc = "ast"
    <3>1. CASE own_flags'[o] = own_flags[o]
      BY <2>4, <2>5, <3>1
    <3>2. CASE own_flags'[o] # own_flags[o]
      <4>1. o = b
        BY <2>2, <3>2
      <4> QED
        BY <2>3, <3>2, <4>1
    <3> QED
      BY <3>1, <3>2
  <2> HIDE DEF Threads
  <2> QED
    BY <2>1, <2>5 DEF SignalServed
<1>25. ASSUME NEW r \in Requests, wait_resolved(r)
       PROVE  SignalServed'
  BY <1>25, SignalKept DEF wait_resolved, At, Goto
<1>26. ASSUME NEW r \in Requests, wait_again(r)
       PROVE  SignalServed'
  BY <1>26, SignalKept DEF wait_again, At, Goto
<1>27. ASSUME NEW r \in Requests, wait_sleep(r)
       PROVE  SignalServed'
  BY <1>27, SignalKept DEF wait_sleep, At
<1>28. ASSUME NEW r \in Requests, event_wait(r)
       PROVE  SignalServed'
  BY <1>28, SignalKept DEF event_wait, acquire_shmem
<1>29. ASSUME NEW r \in Requests, wait_expired(r)
       PROVE  SignalServed'
  BY <1>29, SignalKept DEF wait_expired, At
<1>30. ASSUME NEW r \in Requests, wait_woken(r)
       PROVE  SignalServed'
  BY <1>30, SignalKept DEF wait_woken, At, Goto
<1>31. ASSUME NEW r \in Requests, wait_probe(r)
       PROVE  SignalServed'
  BY <1>31, SignalKept DEF wait_probe, At
<1>32. ASSUME NEW r \in Requests, wait_granted(r)
       PROVE  SignalServed'
  BY <1>32, SignalKept DEF wait_granted, Succeed, At, Goto
<1>33. ASSUME NEW r \in Requests, wait_rejected(r)
       PROVE  SignalServed'
  BY <1>33, SignalKept DEF wait_rejected, At
<1>34. ASSUME NEW r \in Requests, NEW v \in Requests, deadlock_found(r, v)
       PROVE  SignalServed'
  BY <1>34, SignalKept DEF deadlock_found, ScanDue, At, Goto, post_wakeup
<1>35. ASSUME NEW r \in Requests, deadlock_not_found(r)
       PROVE  SignalServed'
  BY <1>35, SignalKept DEF deadlock_not_found, At, Goto
<1>36. ASSUME NEW r \in Requests, PostPendingGrant(r)
       PROVE  SignalServed'
  BY <1>36, SignalKept DEF PostPendingGrant, grant, post_wakeup
<1>37. ASSUME NEW r \in Requests, purge_owner_request(r)
       PROVE  SignalServed'
  BY <1>37, SignalKept DEF purge_owner_request, release_request, Free
<1>38. ASSUME NEW r \in Requests, purge_owner_repost(r)
       PROVE  SignalServed'
  BY <1>38, SignalKept DEF purge_owner_repost, Free
<1>39. CASE PostPendingEnd
  BY <1>39, SignalKept DEF PostPendingEnd, post_wakeup
<1>40. ASSUME NEW o \in Owners, purge_owner(o)
       PROVE  SignalServed'
  BY <1>40, SignalKept DEF purge_owner
<1>41. ASSUME NEW o \in Owners, create_owner(o)
       PROVE  SignalServed'
  <2>1. /\ holder = o /\ next = "create" /\ purge = {} /\ thread' = thread
        /\ lhb_owners' = lhb_owners \cup {o} /\ running' = running \cup {Home[o]}
        /\ own_count' = [own_count EXCEPT ![o] = 1] /\ own_flags' = [own_flags EXCEPT ![o] = {}]
        /\ prc_blocking' = prc_blocking /\ holder' = holder
    BY <1>41 DEF create_owner, At
  <2>2. \A b \in lhb_owners : Home[b] \in running' => Home[b] \in running
    BY <2>1 DEF OwnerInv
  <2> QED
    BY <2>1, <2>2 DEF SignalServed
<1>42. ASSUME NEW o \in Owners, shutdownOwner_awake(o)
       PROVE  SignalServed'
  BY <1>42, SignalKept DEF shutdownOwner_awake, acquire_shmem
<1>43. ASSUME NEW p \in Processes, purge_process(p)
       PROVE  SignalServed'
  BY <1>43, SignalKept DEF purge_process
<1>44. ASSUME NEW t \in Threads, release_shmem(t)
       PROVE  SignalServed'
  <2>1. /\ holder = t /\ next = "done" /\ thread' = thread /\ prc_blocking' = prc_blocking
        /\ lhb_owners' = lhb_owners /\ running' = running /\ own_flags' = own_flags
        /\ own_count' = own_count
    BY <1>44 DEF release_shmem, At
  <2>2. \A o \in lhb_owners : Home[o] = t => "signaled" \notin own_flags[o]
    BY <2>1 DEF ServeInv
  <2> QED
    BY <2>1, <2>2, SignalKept
<1>45. ASSUME NEW t \in Threads, NEW q \in Requests, blocking_action(t, q)
       PROVE  SignalServed'
  <2>1. /\ holder = t
        /\ holder' = holder \/ thread'[t].pc = "ast"
        /\ \A x \in Threads : /\ thread'[x].serving = thread[x].serving
                              /\ thread[x].pc = "ast" => thread'[x].pc = "ast"
        /\ prc_blocking' = prc_blocking
        /\ lhb_owners' = lhb_owners /\ running' = running /\ own_flags' = own_flags
        /\ own_count' = own_count
    BY <1>45 DEF blocking_action, Serving
  <2>2. ASSUME NEW o \in lhb_owners, "signaled" \in own_flags[o], own_count[o] > 0,
               Home[o] \in running
        PROVE  \/ \E x \in Threads : thread'[x].serving = o
               \/ prc_blocking[Home[o]]
               \/ holder' = Home[o] \/ thread'[Home[o]].pc = "ast"
    <3>1. Home[o] \in Threads /\ Home[o] # NoThread
      OBVIOUS
    <3>2. \/ \E x \in Threads : thread[x].serving = o
          \/ prc_blocking[Home[o]]
          \/ holder = Home[o] \/ thread[Home[o]].pc = "ast"
      BY <2>2 DEF SignalServed
    <3> HIDE DEF Threads
    <3> QED
      BY <2>1, <3>1, <3>2
  <2> HIDE DEF Threads
  <2> QED
    BY <2>1, <2>2 DEF SignalServed
<1>46. ASSUME NEW t \in Threads, ast_return(t)
       PROVE  SignalServed'
  <2>1. /\ holder = NoThread /\ holder' = t
        /\ \A x \in Threads : /\ thread'[x].serving = thread[x].serving
                              /\ x # t => thread'[x] = thread[x]
        /\ prc_blocking' = prc_blocking
        /\ lhb_owners' = lhb_owners /\ running' = running /\ own_flags' = own_flags
        /\ own_count' = own_count
    BY <1>46 DEF ast_return, acquire_shmem
  <2>2. ASSUME NEW o \in lhb_owners, "signaled" \in own_flags[o], own_count[o] > 0,
               Home[o] \in running
        PROVE  \/ \E x \in Threads : thread'[x].serving = o
               \/ prc_blocking[Home[o]]
               \/ holder' = Home[o] \/ thread'[Home[o]].pc = "ast"
    <3>1. Home[o] \in Threads /\ Home[o] # NoThread
      OBVIOUS
    <3>2. \/ \E x \in Threads : thread[x].serving = o
          \/ prc_blocking[Home[o]]
          \/ holder = Home[o] \/ thread[Home[o]].pc = "ast"
      BY <2>2 DEF SignalServed
    <3> HIDE DEF Threads
    <3> QED
      BY <2>1, <3>1, <3>2
  <2> HIDE DEF Threads
  <2> QED
    BY <2>1, <2>2 DEF SignalServed
<1>47. ASSUME NEW t \in Threads, blocking_action_end(t)
       PROVE  SignalServed'
  BY <1>47, SignalKept DEF blocking_action_end, Serving
<1>48. ASSUME NEW p \in Processes, blocking_thread_wake(p)
       PROVE  SignalServed'
  <2>1. /\ holder = NoThread /\ holder' = p /\ thread' = thread
        /\ \A x \in Processes \ {p} : prc_blocking'[x] = prc_blocking[x]
        /\ lhb_owners' = lhb_owners /\ running' = running /\ own_flags' = own_flags
        /\ own_count' = own_count
    BY <1>48 DEF blocking_thread_wake, acquire_shmem
  <2> QED
    BY <2>1 DEF SignalServed
<1>49. ASSUME NEW p \in Processes, blocking_thread_sleep(p)
       PROVE  SignalServed'
  BY <1>49, SignalKept DEF blocking_thread_sleep, At, Goto
<1>50. ASSUME NEW p \in Processes, NEW o \in Owners, blocking_thread_serve(p, o)
       PROVE  SignalServed'
  BY <1>50, SignalKept DEF blocking_thread_serve, At
<1>51. ASSUME NEW p \in Processes, die(p)
       PROVE  SignalServed'
  <2>1. /\ holder = NoThread /\ holder' = holder /\ running' = running \ {p}
        /\ lhb_owners' = lhb_owners /\ own_flags' = own_flags /\ own_count' = own_count
        /\ prc_blocking' = prc_blocking
        /\ thread' = [t \in Threads |->
             IF \/ t = p
                \/ t \in Owners /\ Home[t] = p
                \/ t \in Requests /\ call[t] # NoCall /\ Home[call[t].owner] = p
             THEN Idle ELSE thread[t]]
    BY <1>51 DEF die
  <2>2. ASSUME NEW o \in Owners, Home[o] # p, NEW t \in Threads, thread[t].serving = o
        PROVE  thread'[t] = thread[t]
    <3>1. ProcessOf(t) # p
      BY <2>2 DEF ServeInv
    <3>2. t \in Requests => Home[call[t].owner] # p
      BY <3>1 DEF ProcessOf
    <3>3. t \in Owners => Home[t] # p
      BY <3>1 DEF ProcessOf
    <3>4. t # p
      BY <3>1 DEF ProcessOf
    <3> QED
      BY <2>1, <3>2, <3>3, <3>4
  <2>3. \A q \in Processes \ {p} : thread'[q] = thread[q]
    BY <2>1
  <2>4. \A o \in Owners : Home[o] \in Processes
    OBVIOUS
  <2> HIDE DEF Threads
  <2>5. \A o \in lhb_owners' : Home[o] \in running' =>
          /\ \A t \in Threads : thread[t].serving = o => thread'[t].serving = o
          /\ thread[Home[o]].pc = "ast" => thread'[Home[o]].pc = "ast"
    BY <2>1, <2>2, <2>3, <2>4
  <2> QED
    BY <2>1, <2>5, SignalKept
<1> QED
  BY <1>1, <1>2, <1>3, <1>4, <1>5, <1>6, <1>7, <1>8, <1>9, <1>10, <1>11, <1>12, <1>13, <1>14, <1>15,
     <1>16, <1>17, <1>18, <1>19, <1>20, <1>21, <1>22, <1>23, <1>24, <1>25, <1>26, <1>27, <1>28,
     <1>29, <1>30, <1>31, <1>32, <1>33, <1>34, <1>35, <1>36, <1>37, <1>38, <1>39, <1>40, <1>41,
     <1>42, <1>43, <1>44, <1>45, <1>46, <1>47, <1>48, <1>49, <1>50, <1>51
     DEF Next, Client, RequestStep, TableStep, AstStep, Crash
\* What is known of signals and of the threads that serve owners.
SignalInv == ServeInv /\ SignalServed

\* An empty lock table satisfies it.
LEMMA SignalInit ==
  ASSUME Init
  PROVE  SignalInv
BY ConstantsAssumption DEF ConstantsAssumption, Init, Idle, Threads, SignalInv, ServeInv, SignalServed

\* Every step keeps it.
LEMMA SignalInvStep == KeptInv /\ SignalInv /\ [Next]_vars => SignalInv'
<1> SUFFICES ASSUME KeptInv, SignalInv, [Next]_vars PROVE SignalInv'
  OBVIOUS
<1>1. LrqOK /\ LblOK /\ OwnOK /\ PrcOK /\ TableOK /\ CallOK
  BY TypeParts DEF KeptInv, TableInv
<1>2. ThreadInv /\ UseInv /\ QueueInv /\ BlockInv /\ OwnerInv
  BY DEF KeptInv, TableInv, PresenceInv
<1>3. CASE Next
  BY <1>1, <1>2, <1>3, ServeStep, SignalStep DEF SignalInv
<1>4. CASE UNCHANGED vars
  <2>1. ServeInv'
    BY <1>4 DEF vars, ownVars, prcVars, tableVars, threadVars, SignalInv, ServeInv, ProcessOf
  <2>2. SignalServed'
    BY <1>4 DEF vars, ownVars, prcVars, tableVars, threadVars, SignalInv, SignalServed
  <2> QED
    BY <2>1, <2>2 DEF SignalInv
<1> QED
  BY <1>3, <1>4

\* A signalled owner of a live process is served, or its process will look at
\* it: no post of the event between its being cleared and the owners being
\* looked at, no end of a routine and no death of another process loses a signal.
THEOREM SignalsServed == Spec => []SignalServed
<1>1. Init => SignalInv
  BY SignalInit
<1>2. KeptInv /\ SignalInv /\ [Next]_vars => SignalInv'
  BY SignalInvStep
<1>3. SignalInv => SignalServed
  BY DEF SignalInv
<1> QED
  BY <1>1, <1>2, <1>3, KeptInvHolds, PTL DEF Spec
-----------------------------------------------------------------------------
(* Who is purged.                                                            *)

\* post_blockage purges the processes that it could not signal when all blockers
\* have been seen to, and gives the table up in between.  This says of a step
\* that no process which somebody has found dead that way is started anew by it,
\* so that the place of a dead one is not taken before it is purged.
NoTakeover == \A r \in Requests : thread[r].dead \cap (running' \ running) = {}

\* What follows from it is that no process which runs is being purged.
NoneMistaken == purge \cap running = {}

\* Nor is one noted that runs.
NotedDead ==
  /\ NoneMistaken
  /\ \A r \in Requests : thread[r].dead \cap running = {}

\* Every step keeps it in which nobody takes such a place.
LEMMA NotedStep ==
  ASSUME OwnOK, PrcOK, TableOK, CallOK, NotedDead, NoTakeover, Next
  PROVE  NotedDead'
<1> USE ConstantsAssumption DEF ConstantsAssumption, Threads, Idle, lrqVars, lblVars, ownVars, prcVars,
       tableVars, threadVars, CallOK, TableOK, PrcOK, OwnOK, NotedDead, NoneMistaken
<1>1. ASSUME NEW o \in Owners, NEW l \in Locks, NEW level \in Levels, NEW wait \in Waits,
             NEW ast \in Asts, NEW r \in Requests, enqueue(o, l, level, wait, ast, r)
       PROVE  NotedDead'
  BY <1>1 DEF enqueue, acquire_shmem, Usable
<1>2. ASSUME NEW q \in Requests, NEW l \in Locks, NEW level \in Levels, NEW wait \in Waits,
             NEW ast \in Asts, NEW r \in Requests, enqueue_prior(q, l, level, wait, ast, r)
       PROVE  NotedDead'
  BY <1>2 DEF enqueue_prior, acquire_shmem, Known, Usable, release_request, Free
<1>3. ASSUME NEW r \in Requests, NEW level \in Levels, NEW wait \in Waits,
             NEW ast \in Asts, convert(r, level, wait, ast)
       PROVE  NotedDead'
  BY <1>3 DEF convert, acquire_shmem, Known, Usable
<1>4. ASSUME NEW r \in Requests, downgrade(r)
       PROVE  NotedDead'
  BY <1>4 DEF downgrade, Reduce, acquire_shmem, Known, Usable
<1>5. ASSUME NEW r \in Requests, dequeue(r)
       PROVE  NotedDead'
  BY <1>5 DEF dequeue, Reduce, acquire_shmem, Known, Usable
<1>6. ASSUME NEW o \in Owners, NEW q \in Requests, repost(o, q)
       PROVE  NotedDead'
  BY <1>6 DEF repost, acquire_shmem
<1>7. ASSUME NEW o \in Owners, cancelWait(o)
       PROVE  NotedDead'
  BY <1>7 DEF cancelWait
<1>8. ASSUME NEW o \in Owners, Usable(o), initializeOwner_again(o)
       PROVE  NotedDead'
  BY <1>8 DEF initializeOwner_again
<1>9. ASSUME NEW o \in Owners, initializeOwner(o)
       PROVE  NotedDead'
  BY <1>9 DEF initializeOwner, acquire_shmem
<1>10. ASSUME NEW o \in Owners, shutdownOwner(o)
       PROVE  NotedDead'
  BY <1>10 DEF shutdownOwner, Usable, Quiet
<1>11. ASSUME NEW p \in Processes, destroy(p)
       PROVE  NotedDead'
  BY <1>11 DEF destroy, Quiet
<1>12. ASSUME NEW r \in Requests, enqueue_insert(r)
       PROVE  NotedDead'
  BY <1>12 DEF enqueue_insert, At, Goto
<1>13. ASSUME NEW r \in Requests, enqueue_grant(r)
       PROVE  NotedDead'
  BY <1>13 DEF enqueue_grant, Succeed, At, Goto, grant
<1>14. ASSUME NEW r \in Requests, grant_or_que_grant(r)
       PROVE  NotedDead'
  BY <1>14 DEF grant_or_que_grant, Succeed, At, grant
<1>15. ASSUME NEW r \in Requests, grant_or_que_block(r)
       PROVE  NotedDead'
  BY <1>15 DEF grant_or_que_block, At, Goto
<1>16. ASSUME NEW r \in Requests, internal_dequeue(r)
       PROVE  NotedDead'
  BY <1>16 DEF internal_dequeue, At, release_request, Free
<1>17. ASSUME NEW r \in Requests, internal_convert_grant(r)
       PROVE  NotedDead'
  BY <1>17 DEF internal_convert_grant, Succeed, At, grant
<1>18. ASSUME NEW r \in Requests, internal_convert_block(r)
       PROVE  NotedDead'
  BY <1>18 DEF internal_convert_block, At, Goto
<1>19. ASSUME NEW r \in Requests, internal_convert_undo(r)
       PROVE  NotedDead'
  BY <1>19 DEF internal_convert_undo, Fail, At, Goto
<1>20. ASSUME NEW r \in Requests, wait_for_request(r)
       PROVE  NotedDead'
  BY <1>20 DEF wait_for_request, At, Goto
<1>21. ASSUME NEW r \in Requests, post_blockage(r)
       PROVE  NotedDead'
  BY <1>21 DEF post_blockage, At, Goto
<1>22. ASSUME NEW r \in Requests, purge_unreachable(r)
       PROVE  NotedDead'
  BY <1>22 DEF purge_unreachable, At
<1>23. ASSUME NEW r \in Requests, NEW b \in Owners, skip_owner(r, b)
       PROVE  NotedDead'
  BY <1>23 DEF skip_owner, At
<1>24. ASSUME NEW r \in Requests, NEW b \in Owners, signal_owner(r, b)
       PROVE  NotedDead'
  <2>1. \A q \in Requests : thread'[q].dead \cap running = {}
    <3>1. CASE signal_locally(r, b)
      BY <3>1 DEF signal_locally
    <3>2. CASE signal_remotely(r, b)
      BY <3>2 DEF signal_remotely
    <3>3. CASE signal_fails(r, b)
      BY <3>3 DEF signal_fails, DeadProcesses
    <3> QED
      BY <1>24, <3>1, <3>2, <3>3 DEF signal_owner
  <2> QED
    BY <1>24, <2>1 DEF signal_owner, At
<1>25. ASSUME NEW r \in Requests, wait_resolved(r)
       PROVE  NotedDead'
  BY <1>25 DEF wait_resolved, At, Goto
<1>26. ASSUME NEW r \in Requests, wait_again(r)
       PROVE  NotedDead'
  BY <1>26 DEF wait_again, At, Goto
<1>27. ASSUME NEW r \in Requests, wait_sleep(r)
       PROVE  NotedDead'
  BY <1>27 DEF wait_sleep, At
<1>28. ASSUME NEW r \in Requests, event_wait(r)
       PROVE  NotedDead'
  BY <1>28 DEF event_wait, acquire_shmem
<1>29. ASSUME NEW r \in Requests, wait_expired(r)
       PROVE  NotedDead'
  BY <1>29 DEF wait_expired, At, DeadProcesses
<1>30. ASSUME NEW r \in Requests, wait_woken(r)
       PROVE  NotedDead'
  BY <1>30 DEF wait_woken, At, Goto
<1>31. ASSUME NEW r \in Requests, wait_probe(r)
       PROVE  NotedDead'
  BY <1>31 DEF wait_probe, At, DeadProcesses
<1>32. ASSUME NEW r \in Requests, wait_granted(r)
       PROVE  NotedDead'
  BY <1>32 DEF wait_granted, Succeed, At, Goto
<1>33. ASSUME NEW r \in Requests, wait_rejected(r)
       PROVE  NotedDead'
  BY <1>33 DEF wait_rejected, At
<1>34. ASSUME NEW r \in Requests, NEW v \in Requests, deadlock_found(r, v)
       PROVE  NotedDead'
  BY <1>34 DEF deadlock_found, ScanDue, At, Goto
<1>35. ASSUME NEW r \in Requests, deadlock_not_found(r)
       PROVE  NotedDead'
  BY <1>35 DEF deadlock_not_found, At, Goto
<1>36. ASSUME NEW r \in Requests, PostPendingGrant(r)
       PROVE  NotedDead'
  BY <1>36 DEF PostPendingGrant, grant
<1>37. ASSUME NEW r \in Requests, purge_owner_request(r)
       PROVE  NotedDead'
  BY <1>37 DEF purge_owner_request, release_request, Free
<1>38. ASSUME NEW r \in Requests, purge_owner_repost(r)
       PROVE  NotedDead'
  BY <1>38 DEF purge_owner_repost, Free
<1>39. CASE PostPendingEnd
  BY <1>39 DEF PostPendingEnd
<1>40. ASSUME NEW o \in Owners, purge_owner(o)
       PROVE  NotedDead'
  BY <1>40 DEF purge_owner
<1>41. ASSUME NEW o \in Owners, create_owner(o)
       PROVE  NotedDead'
  BY <1>41 DEF create_owner, At, DeadProcesses, NoTakeover
<1>42. ASSUME NEW o \in Owners, shutdownOwner_awake(o)
       PROVE  NotedDead'
  BY <1>42 DEF shutdownOwner_awake, acquire_shmem
<1>43. ASSUME NEW p \in Processes, purge_process(p)
       PROVE  NotedDead'
  BY <1>43 DEF purge_process
<1>44. ASSUME NEW t \in Threads, release_shmem(t)
       PROVE  NotedDead'
  BY <1>44 DEF release_shmem, At
<1>45. ASSUME NEW t \in Threads, NEW q \in Requests, blocking_action(t, q)
       PROVE  NotedDead'
  BY <1>45 DEF blocking_action, Serving
<1>46. ASSUME NEW t \in Threads, ast_return(t)
       PROVE  NotedDead'
  BY <1>46 DEF ast_return, acquire_shmem, AfterAction
<1>47. ASSUME NEW t \in Threads, blocking_action_end(t)
       PROVE  NotedDead'
  BY <1>47 DEF blocking_action_end, Serving
<1>48. ASSUME NEW p \in Processes, blocking_thread_wake(p)
       PROVE  NotedDead'
  BY <1>48 DEF blocking_thread_wake, acquire_shmem
<1>49. ASSUME NEW p \in Processes, blocking_thread_sleep(p)
       PROVE  NotedDead'
  BY <1>49 DEF blocking_thread_sleep, At, Goto
<1>50. ASSUME NEW p \in Processes, NEW o \in Owners, blocking_thread_serve(p, o)
       PROVE  NotedDead'
  BY <1>50 DEF blocking_thread_serve, At
<1>51. ASSUME NEW p \in Processes, die(p)
       PROVE  NotedDead'
  BY <1>51 DEF die
<1> QED
  BY <1>1, <1>2, <1>3, <1>4, <1>5, <1>6, <1>7, <1>8, <1>9, <1>10, <1>11, <1>12, <1>13, <1>14, <1>15,
     <1>16, <1>17, <1>18, <1>19, <1>20, <1>21, <1>22, <1>23, <1>24, <1>25, <1>26, <1>27, <1>28,
     <1>29, <1>30, <1>31, <1>32, <1>33, <1>34, <1>35, <1>36, <1>37, <1>38, <1>39, <1>40, <1>41,
     <1>42, <1>43, <1>44, <1>45, <1>46, <1>47, <1>48, <1>49, <1>50, <1>51
     DEF Next, Client, RequestStep, TableStep, AstStep, Crash

\* Purges of all kinds (by create_process, by probe_processes before a scan and
\* after a timeout, by post_blockage, by shutdownOwner) are then of the dead.
LEMMA OnlyTheDead == Spec /\ [][NoTakeover]_vars => []NoneMistaken
<1>1. Init => NotedDead
  BY DEF Init, NotedDead, NoneMistaken, Idle, Threads
<1>2. KeptInv /\ NotedDead /\ [Next]_vars /\ [NoTakeover]_vars => NotedDead'
  <2> SUFFICES ASSUME KeptInv, NotedDead, [Next]_vars, [NoTakeover]_vars PROVE NotedDead'
    OBVIOUS
  <2>1. OwnOK /\ PrcOK /\ TableOK /\ CallOK
    BY TypeParts DEF KeptInv, TableInv
  <2>2. CASE UNCHANGED vars
    BY <2>2 DEF vars, prcVars, tableVars, threadVars, NotedDead, NoneMistaken
  <2>3. CASE Next /\ NoTakeover
    BY <2>1, <2>3, NotedStep
  <2> QED
    BY <2>2, <2>3
<1>3. NotedDead => NoneMistaken
  BY DEF NotedDead
<1> QED
  BY <1>1, <1>2, <1>3, KeptInvHolds, PTL DEF Spec

-----------------------------------------------------------------------------
(* Owners under AST routines.                                                *)

\* The threads that run an AST routine for owner o.
AstThreads(o) == {t \in Threads : thread[t].pc = "ast" /\ thread[t].serving = o}
AstCounted(o) == IsFiniteSet(AstThreads(o)) /\ Cardinality(AstThreads(o)) <= own_ast_count[o]

\* own_ast_count counts them all; the owners of live processes that are purged
\* have none; the thread in the table runs no AST routine.
AstInv ==
  /\ \A o \in Owners : AstCounted(o)
  /\ \A t \in Threads : thread[t].pc = "ast" => thread[t].serving \in lhb_owners
  /\ \A o \in purge \cap Owners : Home[o] \in running => AstThreads(o) = {}
  /\ \A o \in Owners : thread[o].serving \in {o, NoOwner}
  /\ holder # NoThread => thread[holder].pc # "ast"

\* A finite set with one element more, and one with one element less.
LEMMA OneMore ==
  ASSUME NEW S, NEW T, NEW x, IsFiniteSet(S), T = S \cup {x}
  PROVE  IsFiniteSet(T) /\ Cardinality(T) <= Cardinality(S) + 1
<1>1. /\ IsFiniteSet(S \cup {x})
      /\ Cardinality(S \cup {x}) = IF x \in S THEN Cardinality(S) ELSE Cardinality(S) + 1
  BY FS_AddElement
<1>2. Cardinality(S) \in Nat
  BY FS_CardinalityType
<1> QED
  BY <1>1, <1>2

LEMMA OneLess ==
  ASSUME NEW S, NEW T, NEW x \in S, IsFiniteSet(S), T = S \ {x}
  PROVE  IsFiniteSet(T) /\ Cardinality(T) = Cardinality(S) - 1
BY FS_RemoveElement

\* It is kept by a step that starts no AST routine and takes no owner away that
\* is served by one.
LEMMA AstKept ==
  ASSUME AstInv, own_ast_count \in [Owners -> Int],
         \A t \in Threads : thread'[t].pc = "ast" =>
           /\ thread[t].pc = "ast" /\ thread'[t].serving = thread[t].serving
           /\ thread[t].serving \in lhb_owners',
         \A o \in Owners : own_ast_count'[o] = own_ast_count[o]
                             \/ (own_ast_count'[o] = 0 /\ AstThreads(o) = {}),
         \A o \in purge' \cap Owners : Home[o] \in running' => AstThreads(o) = {},
         \A o \in Owners : thread'[o].serving \in {o, NoOwner},
         holder' # NoThread => thread'[holder'].pc # "ast"
  PROVE  AstInv'
<1>1. \A o : AstThreads(o)' \subseteq AstThreads(o)
  BY DEF AstThreads
<1>2. ASSUME NEW o \in Owners PROVE AstCounted(o)'
  <2>1. IsFiniteSet(AstThreads(o)) /\ Cardinality(AstThreads(o)) <= own_ast_count[o]
    BY DEF AstInv, AstCounted
  <2>2. IsFiniteSet(AstThreads(o)') /\ Cardinality(AstThreads(o)') <= Cardinality(AstThreads(o))
    BY <1>1, <2>1, FS_Subset
  <2>3. Cardinality(AstThreads(o)') \in Nat /\ Cardinality(AstThreads(o)) \in Nat
    BY <2>1, <2>2, FS_CardinalityType
  <2>4. CASE own_ast_count'[o] = own_ast_count[o]
    BY <2>1, <2>2, <2>3, <2>4 DEF AstCounted
  <2>5. CASE own_ast_count'[o] = 0 /\ AstThreads(o) = {}
    BY <1>1, <2>2, <2>5, FS_EmptySet DEF AstCounted
  <2> QED
    BY <2>4, <2>5
<1>3. \A o \in purge' \cap Owners : Home[o] \in running' => AstThreads(o)' = {}
  BY <1>1
<1> QED
  BY <1>2, <1>3 DEF AstInv

\* Every step keeps what is known of AST routines.
LEMMA AstStepKeeps ==
  ASSUME LrqOK, LblOK, OwnOK, PrcOK, TableOK, CallOK, ThreadInv, UseInv, QueueInv,
         BlockInv, OwnerInv, ServeInv, AstInv, NoneMistaken, Next
  PROVE  AstInv'
<1> USE ConstantsAssumption DEF ConstantsAssumption, Threads, Idle, Contexts, lrqVars, lblVars, ownVars, prcVars,
       tableVars, threadVars, CallOK, TableOK, PrcOK, OwnOK
<1>1. ASSUME NEW o \in Owners, NEW l \in Locks, NEW level \in Levels, NEW wait \in Waits,
             NEW ast \in Asts, NEW r \in Requests, enqueue(o, l, level, wait, ast, r)
       PROVE  AstInv'
  BY <1>1, AstKept DEF enqueue, acquire_shmem, Usable, AstInv, ThreadInv
<1>2. ASSUME NEW q \in Requests, NEW l \in Locks, NEW level \in Levels, NEW wait \in Waits,
             NEW ast \in Asts, NEW r \in Requests, enqueue_prior(q, l, level, wait, ast, r)
       PROVE  AstInv'
  BY <1>2, AstKept DEF enqueue_prior, acquire_shmem, Known, Usable, release_request, Free, AstInv,
     ThreadInv
<1>3. ASSUME NEW r \in Requests, NEW level \in Levels, NEW wait \in Waits,
             NEW ast \in Asts, convert(r, level, wait, ast)
       PROVE  AstInv'
  BY <1>3, AstKept DEF convert, acquire_shmem, Known, Usable, AstInv, ThreadInv
<1>4. ASSUME NEW r \in Requests, downgrade(r)
       PROVE  AstInv'
  BY <1>4, AstKept DEF downgrade, Reduce, acquire_shmem, Known, Usable, AstInv, ThreadInv
<1>5. ASSUME NEW r \in Requests, dequeue(r)
       PROVE  AstInv'
  BY <1>5, AstKept DEF dequeue, Reduce, acquire_shmem, Known, Usable, AstInv, ThreadInv
<1>6. ASSUME NEW o \in Owners, NEW q \in Requests, repost(o, q)
       PROVE  AstInv'
  BY <1>6, AstKept DEF repost, acquire_shmem, AstInv
<1>7. ASSUME NEW o \in Owners, cancelWait(o)
       PROVE  AstInv'
  BY <1>7, AstKept DEF cancelWait, AstInv
<1>8. ASSUME NEW o \in Owners, Usable(o), initializeOwner_again(o)
       PROVE  AstInv'
  BY <1>8, AstKept DEF initializeOwner_again, AstInv
<1>9. ASSUME NEW o \in Owners, initializeOwner(o)
       PROVE  AstInv'
  BY <1>9, AstKept DEF initializeOwner, acquire_shmem, AstInv
<1>10. ASSUME NEW o \in Owners, shutdownOwner(o)
       PROVE  AstInv'
  <2>1. /\ holder = NoThread /\ purge = {} /\ thread' = thread /\ lhb_owners' = lhb_owners
        /\ own_ast_count' = own_ast_count
        /\ \/ own_ast_count[o] = 0 /\ holder' = o /\ purge' = {o}
           \/ holder' = holder /\ purge' = purge
    BY <1>10 DEF shutdownOwner, UseInv
  <2>2. own_ast_count[o] = 0 => AstThreads(o) = {}
    <3>1. IsFiniteSet(AstThreads(o)) /\ Cardinality(AstThreads(o)) <= own_ast_count[o]
      BY DEF AstInv, AstCounted
    <3>2. Cardinality(AstThreads(o)) \in Nat
      BY <3>1, FS_CardinalityType
    <3>3. own_ast_count[o] = 0 => Cardinality(AstThreads(o)) = 0
      BY <3>1, <3>2
    <3> QED
      BY <3>1, <3>3, FS_EmptySet
  <2>3. AstThreads(o) = {} => thread[o].pc # "ast"
    BY DEF AstInv, AstThreads
  <2> QED
    BY <2>1, <2>2, <2>3, AstKept DEF AstInv
<1>11. ASSUME NEW p \in Processes, destroy(p)
       PROVE  AstInv'
  BY <1>11, AstKept DEF destroy, Quiet, AstInv
<1>12. ASSUME NEW r \in Requests, enqueue_insert(r)
       PROVE  AstInv'
  BY <1>12, AstKept DEF enqueue_insert, At, Goto, AstInv
<1>13. ASSUME NEW r \in Requests, enqueue_grant(r)
       PROVE  AstInv'
  BY <1>13, AstKept DEF enqueue_grant, Succeed, At, Goto, grant, AstInv
<1>14. ASSUME NEW r \in Requests, grant_or_que_grant(r)
       PROVE  AstInv'
  BY <1>14, AstKept DEF grant_or_que_grant, Succeed, At, grant, AstInv
<1>15. ASSUME NEW r \in Requests, grant_or_que_block(r)
       PROVE  AstInv'
  BY <1>15, AstKept DEF grant_or_que_block, At, Goto, AstInv
<1>16. ASSUME NEW r \in Requests, internal_dequeue(r)
       PROVE  AstInv'
  BY <1>16, AstKept DEF internal_dequeue, At, release_request, Free, AstInv
<1>17. ASSUME NEW r \in Requests, internal_convert_grant(r)
       PROVE  AstInv'
  BY <1>17, AstKept DEF internal_convert_grant, Succeed, At, grant, AstInv
<1>18. ASSUME NEW r \in Requests, internal_convert_block(r)
       PROVE  AstInv'
  BY <1>18, AstKept DEF internal_convert_block, At, Goto, AstInv
<1>19. ASSUME NEW r \in Requests, internal_convert_undo(r)
       PROVE  AstInv'
  BY <1>19, AstKept DEF internal_convert_undo, Fail, At, Goto, AstInv
<1>20. ASSUME NEW r \in Requests, wait_for_request(r)
       PROVE  AstInv'
  BY <1>20, AstKept DEF wait_for_request, At, Goto, AstInv
<1>21. ASSUME NEW r \in Requests, post_blockage(r)
       PROVE  AstInv'
  BY <1>21, AstKept DEF post_blockage, At, Goto, AstInv
<1>22. ASSUME NEW r \in Requests, purge_unreachable(r)
       PROVE  AstInv'
  BY <1>22, AstKept DEF purge_unreachable, At, AstInv
<1>23. ASSUME NEW r \in Requests, NEW b \in Owners, skip_owner(r, b)
       PROVE  AstInv'
  BY <1>23, AstKept DEF skip_owner, At, AstInv
<1>24. ASSUME NEW r \in Requests, NEW b \in Owners, signal_owner(r, b)
       PROVE  AstInv'
  <2>1. /\ holder = r /\ holder' = holder /\ lhb_owners' = lhb_owners /\ running' = running
        /\ own_ast_count' = own_ast_count /\ purge' = purge
    BY <1>24 DEF signal_owner, At, signal_locally, signal_remotely, signal_fails
  <2>2. /\ \A t \in Threads \ {r} : thread'[t] = thread[t]
        /\ thread'[r].pc = thread[r].pc
    <3>1. CASE signal_locally(r, b)
      BY <3>1 DEF signal_locally
    <3>2. CASE signal_remotely(r, b)
      BY <3>2 DEF signal_remotely
    <3>3. CASE signal_fails(r, b)
      BY <3>3 DEF signal_fails
    <3> QED
      BY <1>24, <3>1, <3>2, <3>3 DEF signal_owner
  <2>3. thread[r].pc # "ast"
    BY <2>1 DEF AstInv
  <2>4. \A t \in Threads : thread'[t].pc = "ast" =>
          thread[t].pc = "ast" /\ thread'[t].serving = thread[t].serving
    BY <2>2, <2>3
  <2>6. \A o \in Owners : thread'[o].serving = thread[o].serving
    <3>1. \A o \in Owners : o \in Threads \ {r}
      OBVIOUS
    <3> HIDE DEF Threads
    <3> QED
      BY <2>2, <3>1
  <2>5. holder' # NoThread => thread'[holder'].pc # "ast"
    BY <2>1, <2>2, <2>3
  <2> HIDE DEF Threads
  <2> QED
    BY <2>1, <2>4, <2>5, <2>6, AstKept DEF AstInv
<1>25. ASSUME NEW r \in Requests, wait_resolved(r)
       PROVE  AstInv'
  BY <1>25, AstKept DEF wait_resolved, At, Goto, AstInv
<1>26. ASSUME NEW r \in Requests, wait_again(r)
       PROVE  AstInv'
  BY <1>26, AstKept DEF wait_again, At, Goto, AstInv
<1>27. ASSUME NEW r \in Requests, wait_sleep(r)
       PROVE  AstInv'
  BY <1>27, AstKept DEF wait_sleep, At, AstInv
<1>28. ASSUME NEW r \in Requests, event_wait(r)
       PROVE  AstInv'
  BY <1>28, AstKept DEF event_wait, acquire_shmem, AstInv
<1>29. ASSUME NEW r \in Requests, wait_expired(r)
       PROVE  AstInv'
  BY <1>29, AstKept DEF wait_expired, At, AstInv, DeadProcesses
<1>30. ASSUME NEW r \in Requests, wait_woken(r)
       PROVE  AstInv'
  BY <1>30, AstKept DEF wait_woken, At, Goto, AstInv
<1>31. ASSUME NEW r \in Requests, wait_probe(r)
       PROVE  AstInv'
  BY <1>31, AstKept DEF wait_probe, At, AstInv, DeadProcesses
<1>32. ASSUME NEW r \in Requests, wait_granted(r)
       PROVE  AstInv'
  BY <1>32, AstKept DEF wait_granted, Succeed, At, Goto, AstInv
<1>33. ASSUME NEW r \in Requests, wait_rejected(r)
       PROVE  AstInv'
  BY <1>33, AstKept DEF wait_rejected, At, AstInv
<1>34. ASSUME NEW r \in Requests, NEW v \in Requests, deadlock_found(r, v)
       PROVE  AstInv'
  BY <1>34, AstKept DEF deadlock_found, ScanDue, At, Goto, AstInv
<1>35. ASSUME NEW r \in Requests, deadlock_not_found(r)
       PROVE  AstInv'
  BY <1>35, AstKept DEF deadlock_not_found, At, Goto, AstInv
<1>36. ASSUME NEW r \in Requests, PostPendingGrant(r)
       PROVE  AstInv'
  BY <1>36, AstKept DEF PostPendingGrant, grant, AstInv
<1>37. ASSUME NEW r \in Requests, purge_owner_request(r)
       PROVE  AstInv'
  BY <1>37, AstKept DEF purge_owner_request, release_request, Free, AstInv
<1>38. ASSUME NEW r \in Requests, purge_owner_repost(r)
       PROVE  AstInv'
  BY <1>38, AstKept DEF purge_owner_repost, Free, AstInv
<1>39. CASE PostPendingEnd
  BY <1>39, AstKept DEF PostPendingEnd, AstInv
<1>40. ASSUME NEW o \in Owners, purge_owner(o)
       PROVE  AstInv'
  <2>1. /\ thread' = thread /\ lhb_owners' = lhb_owners \ {o} /\ purge' = purge \ {o}
        /\ own_ast_count' = own_ast_count /\ holder' = holder /\ running' = running
        /\ o \in purge \/ Home[o] \in purge
    BY <1>40 DEF purge_owner, Purging
  <2>2. ASSUME NEW t \in Threads, thread[t].pc = "ast"
        PROVE  thread[t].serving \in lhb_owners /\ thread[t].serving # o
    <3>1. thread[t].serving \in lhb_owners
      BY <2>2 DEF AstInv
    <3>2. Home[thread[t].serving] \in running
      BY <3>1 DEF ServeInv
    <3>3. ASSUME thread[t].serving = o PROVE FALSE
      <4>1. Home[o] \in running /\ o \in purge
        BY <2>1, <3>2, <3>3 DEF NoneMistaken
      <4>2. AstThreads(o) = {}
        BY <4>1 DEF AstInv
      <4> QED
        BY <2>2, <3>3, <4>2 DEF AstThreads
    <3> QED
      BY <3>1, <3>3
  <2> QED
    BY <2>1, <2>2, AstKept DEF AstInv
<1>41. ASSUME NEW o \in Owners, create_owner(o)
       PROVE  AstInv'
  <2>1. /\ holder = o /\ next = "create" /\ purge = {} /\ thread' = thread /\ holder' = holder
        /\ lhb_owners' = lhb_owners \cup {o} /\ own_ast_count' = [own_ast_count EXCEPT ![o] = 0]
        /\ purge' \cap Owners = {}
    BY <1>41 DEF create_owner, At, DeadProcesses
  <2>2. o \notin lhb_owners
    BY <2>1 DEF OwnerInv
  <2>3. AstThreads(o) = {}
    BY <2>2 DEF AstInv, AstThreads
  <2> QED
    BY <2>1, <2>3, AstKept DEF AstInv
<1>42. ASSUME NEW o \in Owners, shutdownOwner_awake(o)
       PROVE  AstInv'
  <2>1. /\ thread' = thread /\ lhb_owners' = lhb_owners /\ own_ast_count' = own_ast_count
        /\ own_ast_count[o] = 0 /\ holder' = o /\ purge' = {o}
    BY <1>42 DEF shutdownOwner_awake, acquire_shmem
  <2>2. own_ast_count[o] = 0 => AstThreads(o) = {}
    <3>1. IsFiniteSet(AstThreads(o)) /\ Cardinality(AstThreads(o)) <= own_ast_count[o]
      BY DEF AstInv, AstCounted
    <3>2. Cardinality(AstThreads(o)) \in Nat
      BY <3>1, FS_CardinalityType
    <3>3. own_ast_count[o] = 0 => Cardinality(AstThreads(o)) = 0
      BY <3>1, <3>2
    <3> QED
      BY <3>1, <3>3, FS_EmptySet
  <2>3. AstThreads(o) = {} => thread[o].pc # "ast"
    BY DEF AstInv, AstThreads
  <2> QED
    BY <2>1, <2>2, <2>3, AstKept DEF AstInv
<1>43. ASSUME NEW p \in Processes, purge_process(p)
       PROVE  AstInv'
  BY <1>43, AstKept DEF purge_process, AstInv
<1>44. ASSUME NEW t \in Threads, release_shmem(t)
       PROVE  AstInv'
  BY <1>44, AstKept DEF release_shmem, At, AstInv
<1>45. ASSUME NEW t \in Threads, NEW q \in Requests, blocking_action(t, q)
       PROVE  AstInv'
  <2>7. thread[t].serving \in Owners
    BY <1>45 DEF blocking_action, Serving
  <2>1. PICK o \in Owners :
        /\ thread[t].serving = o
        /\ holder = t /\ purge = {} /\ purge' = purge /\ lhb_owners' = lhb_owners
        /\ q \in own_blocks[o]
        /\ own_ast_count' = [own_ast_count EXCEPT ![o] = IF lrq_ast[q] THEN @ + 1 ELSE @]
        /\ thread' = [thread EXCEPT ![t].pc = IF lrq_ast[q] THEN "ast" ELSE @]
        /\ holder' = IF lrq_ast[q] THEN NoThread ELSE holder
    BY <1>45, <2>7 DEF blocking_action, Serving
  <2>3. o \in lhb_owners
    BY <2>1 DEF BlockInv, OwnerInv
  <2>4. \A x \in Threads : thread'[x].serving = thread[x].serving
                            /\ (x # t => thread'[x].pc = thread[x].pc)
    BY <2>1
  <2>5. CASE lrq_ast[q]
    <3>1. thread'[t].pc = "ast" /\ holder' = NoThread
      BY <2>1, <2>5
    <3>2. AstThreads(o)' = AstThreads(o) \cup {t}
      BY <2>1, <2>4, <3>1 DEF AstThreads
    <3>3. \A b \in Owners \ {o} : AstThreads(b)' = AstThreads(b)
      BY <2>1, <2>4 DEF AstThreads
    <3>4. IsFiniteSet(AstThreads(o)) /\ Cardinality(AstThreads(o)) <= own_ast_count[o]
      BY DEF AstInv, AstCounted
    <3>5. /\ IsFiniteSet(AstThreads(o)')
          /\ Cardinality(AstThreads(o)') <= Cardinality(AstThreads(o)) + 1
      BY <3>2, <3>4, OneMore
    <3>6. Cardinality(AstThreads(o)') \in Nat /\ Cardinality(AstThreads(o)) \in Nat
      BY <3>4, <3>5, FS_CardinalityType
    <3>7. own_ast_count'[o] = own_ast_count[o] + 1 /\ own_ast_count[o] \in Int
      BY <2>1, <2>5
    <3>8. AstCounted(o)'
      BY <3>4, <3>5, <3>6, <3>7 DEF AstCounted
    <3>9. ASSUME NEW b \in Owners \ {o} PROVE AstCounted(b)'
      <4>1. own_ast_count'[b] = own_ast_count[b]
        BY <2>1
      <4> QED
        BY <3>3, <4>1 DEF AstInv, AstCounted
    <3>10. \A x \in Threads : thread'[x].pc = "ast" => thread'[x].serving \in lhb_owners'
      BY <2>1, <2>3, <2>4 DEF AstInv
    <3> QED
      BY <2>1, <2>4, <3>1, <3>8, <3>9, <3>10 DEF AstInv
  <2>6. CASE ~lrq_ast[q]
    BY <2>1, <2>4, <2>6, AstKept DEF AstInv
  <2> QED
    BY <2>5, <2>6
<1>46. ASSUME NEW t \in Threads, ast_return(t)
       PROVE  AstInv'
  <2>2. thread[t].serving \in Owners
    BY <1>46 DEF ast_return, AstInv
  <2>1. PICK o \in Owners :
        /\ thread[t].serving = o
        /\ holder = NoThread /\ holder' = t /\ purge = {} /\ purge' = purge
        /\ lhb_owners' = lhb_owners /\ thread[t].pc = "ast"
        /\ own_ast_count' = [own_ast_count EXCEPT ![o] = @ - 1]
        /\ thread' = [thread EXCEPT ![t].pc = "idle"]
    BY <1>46, <2>2 DEF ast_return, acquire_shmem, UseInv
  <2>3. thread'[t].pc = "idle"
    BY <2>1
  <2>4. \A x \in Threads : thread'[x].serving = thread[x].serving
                            /\ (x # t => thread'[x].pc = thread[x].pc)
    BY <2>1
  <2>5. t \in AstThreads(o) /\ AstThreads(o)' = AstThreads(o) \ {t}
    BY <2>1, <2>3, <2>4 DEF AstThreads
  <2>6. \A b \in Owners \ {o} : AstThreads(b)' = AstThreads(b)
    BY <2>1, <2>3, <2>4 DEF AstThreads
  <2>7. IsFiniteSet(AstThreads(o)) /\ Cardinality(AstThreads(o)) <= own_ast_count[o]
    BY DEF AstInv, AstCounted
  <2>8. /\ IsFiniteSet(AstThreads(o)')
        /\ Cardinality(AstThreads(o)') = Cardinality(AstThreads(o)) - 1
    BY <2>5, <2>7, OneLess
  <2>9. Cardinality(AstThreads(o)) \in Nat
    BY <2>7, FS_CardinalityType
  <2>10. own_ast_count'[o] = own_ast_count[o] - 1 /\ own_ast_count[o] \in Int
    BY <2>1
  <2>11. AstCounted(o)'
    BY <2>7, <2>8, <2>9, <2>10 DEF AstCounted
  <2>12. ASSUME NEW b \in Owners \ {o} PROVE AstCounted(b)'
    <3>1. own_ast_count'[b] = own_ast_count[b]
      BY <2>1
    <3> QED
      BY <2>6, <3>1 DEF AstInv, AstCounted
  <2>13. \A x \in Threads : thread'[x].pc = "ast" => thread'[x].serving \in lhb_owners'
    BY <2>1, <2>3, <2>4 DEF AstInv
  <2> QED
    BY <2>1, <2>3, <2>4, <2>11, <2>12, <2>13 DEF AstInv
<1>47. ASSUME NEW t \in Threads, blocking_action_end(t)
       PROVE  AstInv'
  BY <1>47, AstKept DEF blocking_action_end, Serving, AstInv
<1>48. ASSUME NEW p \in Processes, blocking_thread_wake(p)
       PROVE  AstInv'
  BY <1>48, AstKept DEF blocking_thread_wake, acquire_shmem, AstInv
<1>49. ASSUME NEW p \in Processes, blocking_thread_sleep(p)
       PROVE  AstInv'
  BY <1>49, AstKept DEF blocking_thread_sleep, At, Goto, AstInv
<1>50. ASSUME NEW p \in Processes, NEW o \in Owners, blocking_thread_serve(p, o)
       PROVE  AstInv'
  BY <1>50, AstKept DEF blocking_thread_serve, At, AstInv
<1>51. ASSUME NEW p \in Processes, die(p)
       PROVE  AstInv'
  BY <1>51, AstKept DEF die, Idle, AstInv
<1> QED
  BY <1>1, <1>2, <1>3, <1>4, <1>5, <1>6, <1>7, <1>8, <1>9, <1>10, <1>11, <1>12, <1>13, <1>14, <1>15,
     <1>16, <1>17, <1>18, <1>19, <1>20, <1>21, <1>22, <1>23, <1>24, <1>25, <1>26, <1>27, <1>28,
     <1>29, <1>30, <1>31, <1>32, <1>33, <1>34, <1>35, <1>36, <1>37, <1>38, <1>39, <1>40, <1>41,
     <1>42, <1>43, <1>44, <1>45, <1>46, <1>47, <1>48, <1>49, <1>50, <1>51
     DEF Next, Client, RequestStep, TableStep, AstStep, Crash
\* An empty lock table satisfies it.
LEMMA AstInit ==
  ASSUME Init
  PROVE  AstInv
<1>1. \A o : AstThreads(o) = {}
  BY DEF Init, Idle, AstThreads
<1>2. \A o \in Owners : AstCounted(o)
  <2>1. ASSUME NEW o \in Owners PROVE AstCounted(o)
    <3>1. own_ast_count[o] = 0 /\ AstThreads(o) = {}
      BY <1>1 DEF Init
    <3> QED
      BY <3>1, FS_EmptySet DEF AstCounted
  <2> QED
    BY <2>1
<1> QED
  BY <1>1, <1>2 DEF Init, AstInv, Idle, Threads

\* Every step keeps it.
LEMMA AstInvStep ==
  KeptInv /\ SignalInv /\ AstInv /\ NoneMistaken /\ [Next]_vars => AstInv'
<1> SUFFICES ASSUME KeptInv, SignalInv, AstInv, NoneMistaken, [Next]_vars PROVE AstInv'
  OBVIOUS
<1>1. LrqOK /\ LblOK /\ OwnOK /\ PrcOK /\ TableOK /\ CallOK
  BY TypeParts DEF KeptInv, TableInv
<1>2. ThreadInv /\ UseInv /\ QueueInv /\ BlockInv /\ OwnerInv /\ ServeInv
  BY DEF KeptInv, TableInv, PresenceInv, SignalInv
<1>3. CASE Next
  BY <1>1, <1>2, <1>3, AstStepKeeps
<1>4. CASE UNCHANGED vars
  BY <1>1, <1>4, AstKept DEF vars, ownVars, prcVars, tableVars, threadVars, AstInv, OwnOK
<1> QED
  BY <1>3, <1>4

\* As long as nobody takes the place of a dead process that is still to be
\* purged, an owner block is not freed under an AST routine that runs for it, and
\* own_ast_count says that there is one: the last user of an owner leaves, and its
\* block is made anew, only when every routine has returned, whichever threads ran
\* them.
THEOREM AstOwnersStay == Spec /\ [][NoTakeover]_vars => []AstOwnerPresent
<1>1. Init => SignalInv /\ AstInv
  BY SignalInit, AstInit
<1>2. KeptInv /\ SignalInv /\ AstInv /\ NoneMistaken /\ [Next]_vars => SignalInv' /\ AstInv'
  BY SignalInvStep, AstInvStep
<1>3. KeptInv /\ AstInv => AstOwnerPresent
  <2> SUFFICES ASSUME KeptInv, AstInv, NEW t \in Threads, thread[t].pc = "ast"
               PROVE  /\ thread[t].serving \in lhb_owners
                      /\ own_ast_count[thread[t].serving] > 0
    BY DEF AstOwnerPresent
  <2>1. thread[t].serving \in lhb_owners
    BY DEF AstInv
  <2>2. PICK o \in Owners : o = thread[t].serving
    BY <2>1 DEF KeptInv, TableInv, TypeOK
  <2>3. t \in AstThreads(o)
    BY <2>2 DEF AstThreads
  <2>4. IsFiniteSet(AstThreads(o)) /\ Cardinality(AstThreads(o)) <= own_ast_count[o]
    BY DEF AstInv, AstCounted
  <2>5. Cardinality(AstThreads(o)) \in Nat /\ Cardinality(AstThreads(o)) # 0
    BY <2>3, <2>4, FS_CardinalityType, FS_EmptySet
  <2>6. own_ast_count[o] \in Int
    BY DEF KeptInv, TableInv, TypeOK
  <2> QED
    BY <2>1, <2>2, <2>4, <2>5, <2>6
<1> QED
  BY <1>1, <1>2, <1>3, KeptInvHolds, OnlyTheDead, PTL DEF Spec

-----------------------------------------------------------------------------
(* What owners of live processes were granted.                               *)

\* One request in one step: what LiveLocksKept says.
LiveLockKept(x) ==
  /\ lrq_type[x] = "lrq" /\ ~Pending(x)
  /\ Home[lrq_owner[x]] \in running
  /\ lrq_type'[x] # "lrq" \/ lrq_state'[x] < lrq_state[x]
  => Home[lrq_owner[x]] = (IF holder = NoThread THEN ProcessOf(holder)' ELSE ProcessOf(holder))

\* Every step keeps it.
LEMMA LiveLockStep ==
  ASSUME LrqOK, LblOK, OwnOK, PrcOK, TableOK, CallOK, ThreadInv, UseInv, QueueInv,
         BlockInv, OwnerInv, NoneMistaken,
         NEW x \in Requests, Next
  PROVE  LiveLockKept(x)
<1> USE ConstantsAssumption DEF ConstantsAssumption, Threads, NoCall, Idle, Contexts, lrqVars, lblVars, ownVars, prcVars,
       tableVars, threadVars, CallOK, TableOK, PrcOK, LrqOK, LckLevels, LiveLockKept
<1>1. ASSUME NEW o \in Owners, NEW l \in Locks, NEW level \in Levels, NEW wait \in Waits,
             NEW ast \in Asts, NEW r \in Requests, enqueue(o, l, level, wait, ast, r)
       PROVE  LiveLockKept(x)
  BY <1>1 DEF enqueue, acquire_shmem, Usable
<1>2. ASSUME NEW q \in Requests, NEW l \in Locks, NEW level \in Levels, NEW wait \in Waits,
             NEW ast \in Asts, NEW r \in Requests, enqueue_prior(q, l, level, wait, ast, r)
       PROVE  LiveLockKept(x)
  <2>1. /\ holder = NoThread /\ lrq_type[q] = "lrq"
        /\ call' = [call EXCEPT ![r] = [op |-> "enqueue", owner |-> lrq_owner[q], lock |-> l,
                                        level |-> level, wait |-> wait, ast |-> ast]]
        /\ \A y \in Requests \ {q} : lrq_type'[y] = lrq_type[y] /\ lrq_state'[y] = lrq_state[y]
        /\ holder' = r
    BY <1>2 DEF enqueue_prior, acquire_shmem, Known, release_request, Free
  <2>2. call'[r].owner = lrq_owner[q]
    BY <2>1
  <2>3. ProcessOf(holder)' = Home[lrq_owner[q]]
    BY <2>1, <2>2 DEF ProcessOf
  <2>4. lrq_state[x] \in LckLevels /\ ~(lrq_state[x] < lrq_state[x])
    OBVIOUS
  <2> QED
    BY <2>1, <2>3, <2>4
<1>3. ASSUME NEW r \in Requests, NEW level \in Levels, NEW wait \in Waits,
             NEW ast \in Asts, convert(r, level, wait, ast)
       PROVE  LiveLockKept(x)
  BY <1>3 DEF convert, acquire_shmem, Known, Usable
<1>4. ASSUME NEW r \in Requests, downgrade(r)
       PROVE  LiveLockKept(x)
  BY <1>4 DEF downgrade, Reduce, acquire_shmem, Known, Usable
<1>5. ASSUME NEW r \in Requests, dequeue(r)
       PROVE  LiveLockKept(x)
  BY <1>5 DEF dequeue, Reduce, acquire_shmem, Known, Usable
<1>6. ASSUME NEW o \in Owners, NEW q \in Requests, repost(o, q)
       PROVE  LiveLockKept(x)
  BY <1>6 DEF repost, acquire_shmem
<1>7. ASSUME NEW o \in Owners, cancelWait(o)
       PROVE  LiveLockKept(x)
  BY <1>7 DEF cancelWait
<1>8. ASSUME NEW o \in Owners, Usable(o), initializeOwner_again(o)
       PROVE  LiveLockKept(x)
  BY <1>8 DEF initializeOwner_again
<1>9. ASSUME NEW o \in Owners, initializeOwner(o)
       PROVE  LiveLockKept(x)
  BY <1>9 DEF initializeOwner, acquire_shmem
<1>10. ASSUME NEW o \in Owners, shutdownOwner(o)
       PROVE  LiveLockKept(x)
  BY <1>10 DEF shutdownOwner, Usable, Quiet
<1>11. ASSUME NEW p \in Processes, destroy(p)
       PROVE  LiveLockKept(x)
  BY <1>11 DEF destroy, Quiet
<1>12. ASSUME NEW r \in Requests, enqueue_insert(r)
       PROVE  LiveLockKept(x)
  <2>1. holder = r /\ next # "done" /\ \A y \in Requests \ {r} :
          lrq_type'[y] = lrq_type[y] /\ lrq_state'[y] = lrq_state[y]
    BY <1>12 DEF enqueue_insert, At
  <2>2. ASSUME lrq_type[r] = "lrq"
        PROVE  Home[lrq_owner[r]] = ProcessOf(r)
    BY <2>1, <2>2 DEF ThreadInv, UseInv, ProcessOf
  <2>3. lrq_state[x] \in LckLevels /\ ~(lrq_state[x] < lrq_state[x])
    OBVIOUS
  <2> QED
    BY <2>1, <2>2, <2>3
<1>13. ASSUME NEW r \in Requests, enqueue_grant(r)
       PROVE  LiveLockKept(x)
  <2>1. holder = r /\ next # "done" /\ \A y \in Requests \ {r} :
          lrq_type'[y] = lrq_type[y] /\ lrq_state'[y] = lrq_state[y]
    BY <1>13 DEF enqueue_grant, At, grant
  <2>2. ASSUME lrq_type[r] = "lrq"
        PROVE  Home[lrq_owner[r]] = ProcessOf(r)
    BY <2>1, <2>2 DEF ThreadInv, UseInv, ProcessOf
  <2>3. lrq_state[x] \in LckLevels /\ ~(lrq_state[x] < lrq_state[x])
    OBVIOUS
  <2> QED
    BY <2>1, <2>2, <2>3
<1>14. ASSUME NEW r \in Requests, grant_or_que_grant(r)
       PROVE  LiveLockKept(x)
  <2>1. holder = r /\ next # "done" /\ \A y \in Requests \ {r} :
          lrq_type'[y] = lrq_type[y] /\ lrq_state'[y] = lrq_state[y]
    BY <1>14 DEF grant_or_que_grant, At, grant
  <2>2. ASSUME lrq_type[r] = "lrq"
        PROVE  Home[lrq_owner[r]] = ProcessOf(r)
    BY <2>1, <2>2 DEF ThreadInv, UseInv, ProcessOf
  <2>3. lrq_state[x] \in LckLevels /\ ~(lrq_state[x] < lrq_state[x])
    OBVIOUS
  <2> QED
    BY <2>1, <2>2, <2>3
<1>15. ASSUME NEW r \in Requests, grant_or_que_block(r)
       PROVE  LiveLockKept(x)
  BY <1>15 DEF grant_or_que_block, At, Goto
<1>16. ASSUME NEW r \in Requests, internal_dequeue(r)
       PROVE  LiveLockKept(x)
  <2>1. holder = r /\ next # "done" /\ \A y \in Requests \ {r} :
          lrq_type'[y] = lrq_type[y] /\ lrq_state'[y] = lrq_state[y]
    BY <1>16 DEF internal_dequeue, At, release_request, Free
  <2>2. ASSUME lrq_type[r] = "lrq"
        PROVE  Home[lrq_owner[r]] = ProcessOf(r)
    BY <2>1, <2>2 DEF ThreadInv, UseInv, ProcessOf
  <2>3. lrq_state[x] \in LckLevels /\ ~(lrq_state[x] < lrq_state[x])
    OBVIOUS
  <2> QED
    BY <2>1, <2>2, <2>3
<1>17. ASSUME NEW r \in Requests, internal_convert_grant(r)
       PROVE  LiveLockKept(x)
  <2>1. holder = r /\ next # "done" /\ \A y \in Requests \ {r} :
          lrq_type'[y] = lrq_type[y] /\ lrq_state'[y] = lrq_state[y]
    BY <1>17 DEF internal_convert_grant, At, grant
  <2>2. ASSUME lrq_type[r] = "lrq"
        PROVE  Home[lrq_owner[r]] = ProcessOf(r)
    BY <2>1, <2>2 DEF ThreadInv, UseInv, ProcessOf
  <2>3. lrq_state[x] \in LckLevels /\ ~(lrq_state[x] < lrq_state[x])
    OBVIOUS
  <2> QED
    BY <2>1, <2>2, <2>3
<1>18. ASSUME NEW r \in Requests, internal_convert_block(r)
       PROVE  LiveLockKept(x)
  BY <1>18 DEF internal_convert_block, At, Goto
<1>19. ASSUME NEW r \in Requests, internal_convert_undo(r)
       PROVE  LiveLockKept(x)
  BY <1>19 DEF internal_convert_undo, Fail, At, Goto
<1>20. ASSUME NEW r \in Requests, wait_for_request(r)
       PROVE  LiveLockKept(x)
  BY <1>20 DEF wait_for_request, At, Goto
<1>21. ASSUME NEW r \in Requests, post_blockage(r)
       PROVE  LiveLockKept(x)
  BY <1>21 DEF post_blockage, At, Goto
<1>22. ASSUME NEW r \in Requests, purge_unreachable(r)
       PROVE  LiveLockKept(x)
  BY <1>22 DEF purge_unreachable, At
<1>23. ASSUME NEW r \in Requests, NEW b \in Owners, skip_owner(r, b)
       PROVE  LiveLockKept(x)
  BY <1>23 DEF skip_owner, At
<1>24. ASSUME NEW r \in Requests, NEW b \in Owners, signal_owner(r, b)
       PROVE  LiveLockKept(x)
  BY <1>24 DEF signal_owner, signal_locally, signal_remotely, signal_fails, At
<1>25. ASSUME NEW r \in Requests, wait_resolved(r)
       PROVE  LiveLockKept(x)
  BY <1>25 DEF wait_resolved, At, Goto
<1>26. ASSUME NEW r \in Requests, wait_again(r)
       PROVE  LiveLockKept(x)
  BY <1>26 DEF wait_again, At, Goto
<1>27. ASSUME NEW r \in Requests, wait_sleep(r)
       PROVE  LiveLockKept(x)
  BY <1>27 DEF wait_sleep, At
<1>28. ASSUME NEW r \in Requests, event_wait(r)
       PROVE  LiveLockKept(x)
  BY <1>28 DEF event_wait, acquire_shmem
<1>29. ASSUME NEW r \in Requests, wait_expired(r)
       PROVE  LiveLockKept(x)
  BY <1>29 DEF wait_expired, At
<1>30. ASSUME NEW r \in Requests, wait_woken(r)
       PROVE  LiveLockKept(x)
  BY <1>30 DEF wait_woken, At, Goto
<1>31. ASSUME NEW r \in Requests, wait_probe(r)
       PROVE  LiveLockKept(x)
  BY <1>31 DEF wait_probe, At
<1>32. ASSUME NEW r \in Requests, wait_granted(r)
       PROVE  LiveLockKept(x)
  BY <1>32 DEF wait_granted, Succeed, At, Goto
<1>33. ASSUME NEW r \in Requests, wait_rejected(r)
       PROVE  LiveLockKept(x)
  BY <1>33 DEF wait_rejected, At
<1>34. ASSUME NEW r \in Requests, NEW v \in Requests, deadlock_found(r, v)
       PROVE  LiveLockKept(x)
  BY <1>34 DEF deadlock_found, ScanDue, At, Goto
<1>35. ASSUME NEW r \in Requests, deadlock_not_found(r)
       PROVE  LiveLockKept(x)
  BY <1>35 DEF deadlock_not_found, At, Goto
<1>36. ASSUME NEW r \in Requests, PostPendingGrant(r)
       PROVE  LiveLockKept(x)
  <2>1. /\ \A y \in Requests \ {r} : lrq_state'[y] = lrq_state[y]
        /\ lrq_type' = lrq_type /\ Pending(r)
    BY <1>36 DEF PostPendingGrant, grant, FirstPending, Pending
  <2>2. lrq_state[x] \in LckLevels /\ ~(lrq_state[x] < lrq_state[x])
    OBVIOUS
  <2> QED
    BY <2>1, <2>2
<1>37. ASSUME NEW r \in Requests, purge_owner_request(r)
       PROVE  LiveLockKept(x)
  <2>1. /\ \A y \in Requests \ {r} : lrq_type'[y] = lrq_type[y] /\ lrq_state'[y] = lrq_state[y]
        /\ lrq_owner[r] \in purge \/ Home[lrq_owner[r]] \in purge
        /\ lrq_owner[r] \in lhb_owners
    BY <1>37 DEF purge_owner_request, release_request, Free, Purging
  <2>2. CASE Home[lrq_owner[r]] \in purge
    BY <2>1, <2>2 DEF NoneMistaken
  <2>3. CASE lrq_owner[r] \in purge
    <3>1. lrq_owner[r] \in Owners /\ holder = lrq_owner[r]
      BY <2>1, <2>3 DEF OwnerInv, OwnOK
    <3>2. ProcessOf(holder) = Home[lrq_owner[r]] /\ holder # NoThread
      BY <3>1 DEF ProcessOf
    <3> QED
      BY <2>1, <3>2
  <2> QED
    BY <2>1, <2>2, <2>3
<1>38. ASSUME NEW r \in Requests, purge_owner_repost(r)
       PROVE  LiveLockKept(x)
  BY <1>38 DEF purge_owner_repost, Free
<1>39. CASE PostPendingEnd
  BY <1>39 DEF PostPendingEnd
<1>40. ASSUME NEW o \in Owners, purge_owner(o)
       PROVE  LiveLockKept(x)
  BY <1>40 DEF purge_owner
<1>41. ASSUME NEW o \in Owners, create_owner(o)
       PROVE  LiveLockKept(x)
  BY <1>41 DEF create_owner, At
<1>42. ASSUME NEW o \in Owners, shutdownOwner_awake(o)
       PROVE  LiveLockKept(x)
  BY <1>42 DEF shutdownOwner_awake, acquire_shmem
<1>43. ASSUME NEW p \in Processes, purge_process(p)
       PROVE  LiveLockKept(x)
  BY <1>43 DEF purge_process
<1>44. ASSUME NEW t \in Threads, release_shmem(t)
       PROVE  LiveLockKept(x)
  BY <1>44 DEF release_shmem, At
<1>45. ASSUME NEW t \in Threads, NEW q \in Requests, blocking_action(t, q)
       PROVE  LiveLockKept(x)
  <2>1. thread[t].serving \in Owners /\ q \in own_blocks[thread[t].serving]
    BY <1>45 DEF blocking_action, Serving
  <2>2. "blocking" \notin lrq_flags[q] => lrq_type[q] = "repost"
    BY <2>1 DEF BlockInv
  <2>3. /\ \A y \in Requests \ {q} : lrq_type'[y] = lrq_type[y] /\ lrq_state'[y] = lrq_state[y]
        /\ "blocking" \in lrq_flags[q] => lrq_type' = lrq_type /\ lrq_state' = lrq_state
    BY <1>45 DEF blocking_action, Free
  <2> QED
    BY <2>2, <2>3
<1>46. ASSUME NEW t \in Threads, ast_return(t)
       PROVE  LiveLockKept(x)
  BY <1>46 DEF ast_return, acquire_shmem, AfterAction
<1>47. ASSUME NEW t \in Threads, blocking_action_end(t)
       PROVE  LiveLockKept(x)
  BY <1>47 DEF blocking_action_end, Serving
<1>48. ASSUME NEW p \in Processes, blocking_thread_wake(p)
       PROVE  LiveLockKept(x)
  BY <1>48 DEF blocking_thread_wake, acquire_shmem
<1>49. ASSUME NEW p \in Processes, blocking_thread_sleep(p)
       PROVE  LiveLockKept(x)
  BY <1>49 DEF blocking_thread_sleep, At, Goto
<1>50. ASSUME NEW p \in Processes, NEW o \in Owners, blocking_thread_serve(p, o)
       PROVE  LiveLockKept(x)
  BY <1>50 DEF blocking_thread_serve, At
<1>51. ASSUME NEW p \in Processes, die(p)
       PROVE  LiveLockKept(x)
  BY <1>51 DEF die, Idle
<1> QED
  BY <1>1, <1>2, <1>3, <1>4, <1>5, <1>6, <1>7, <1>8, <1>9, <1>10, <1>11, <1>12, <1>13, <1>14, <1>15,
     <1>16, <1>17, <1>18, <1>19, <1>20, <1>21, <1>22, <1>23, <1>24, <1>25, <1>26, <1>27, <1>28,
     <1>29, <1>30, <1>31, <1>32, <1>33, <1>34, <1>35, <1>36, <1>37, <1>38, <1>39, <1>40, <1>41,
     <1>42, <1>43, <1>44, <1>45, <1>46, <1>47, <1>48, <1>49, <1>50, <1>51
     DEF Next, Client, RequestStep, TableStep, AstStep, Crash
\* As long as nobody takes the place of a dead process that is still to be
\* purged, what a request of a live process was granted is not taken away or
\* lowered but by a thread of the same process: no purge after a probe, a timeout,
\* a failed signal or the start of a process with the pid of a dead one, no
\* post_pending and no deadlock scan of another process does it.
THEOREM LiveLocksStay == Spec /\ [][NoTakeover]_vars => LiveLocksKept
<1> DEFINE Kept ==
      \A r \in Requests :
        /\ lrq_type[r] = "lrq" /\ ~Pending(r)
        /\ Home[lrq_owner[r]] \in running
        /\ lrq_type'[r] # "lrq" \/ lrq_state'[r] < lrq_state[r]
        => Home[lrq_owner[r]] = (IF holder = NoThread THEN ProcessOf(holder)' ELSE ProcessOf(holder))
<1>1. KeptInv /\ NoneMistaken /\ [Next]_vars => [Kept]_vars
  <2> SUFFICES ASSUME KeptInv, NoneMistaken, Next, NEW r \in Requests
               PROVE  LiveLockKept(r)
    BY DEF LiveLockKept
  <2>1. LrqOK /\ LblOK /\ OwnOK /\ PrcOK /\ TableOK /\ CallOK
    BY TypeParts DEF KeptInv, TableInv
  <2>2. ThreadInv /\ UseInv /\ QueueInv /\ BlockInv /\ OwnerInv
    BY DEF KeptInv, TableInv, PresenceInv
  <2> QED
    BY <2>1, <2>2, LiveLockStep
<1>2. []KeptInv /\ []NoneMistaken /\ [][Next]_vars => [][Kept]_vars
  BY <1>1, PTL
<1> QED
  BY <1>2, KeptInvHolds, OnlyTheDead, PTL DEF Spec, LiveLocksKept

\* Where no process dies, every process of the table is alive, none is ever found
\* dead and only owners are purged.
AliveInv ==
  /\ lhb_processes = running
  /\ purge \cap Processes = {}
  /\ \A r \in Requests : thread[r].dead = {}

\* Every step of a system in which no process dies keeps it.
LEMMA AliveStep ==
  ASSUME OwnOK, PrcOK, TableOK, CallOK, AliveInv, "die" \notin Ops, Next
  PROVE  AliveInv'
<1> USE ConstantsAssumption DEF ConstantsAssumption, Threads, Idle, lrqVars, lblVars, ownVars, prcVars,
       tableVars, threadVars, CallOK, TableOK, PrcOK, OwnOK, AliveInv
<1>1. ASSUME NEW o \in Owners, NEW l \in Locks, NEW level \in Levels, NEW wait \in Waits,
             NEW ast \in Asts, NEW r \in Requests, enqueue(o, l, level, wait, ast, r)
       PROVE  AliveInv'
  BY <1>1 DEF enqueue, acquire_shmem, Usable
<1>2. ASSUME NEW q \in Requests, NEW l \in Locks, NEW level \in Levels, NEW wait \in Waits,
             NEW ast \in Asts, NEW r \in Requests, enqueue_prior(q, l, level, wait, ast, r)
       PROVE  AliveInv'
  BY <1>2 DEF enqueue_prior, acquire_shmem, Known, Usable, release_request, Free
<1>3. ASSUME NEW r \in Requests, NEW level \in Levels, NEW wait \in Waits,
             NEW ast \in Asts, convert(r, level, wait, ast)
       PROVE  AliveInv'
  BY <1>3 DEF convert, acquire_shmem, Known, Usable
<1>4. ASSUME NEW r \in Requests, downgrade(r)
       PROVE  AliveInv'
  BY <1>4 DEF downgrade, Reduce, acquire_shmem, Known, Usable
<1>5. ASSUME NEW r \in Requests, dequeue(r)
       PROVE  AliveInv'
  BY <1>5 DEF dequeue, Reduce, acquire_shmem, Known, Usable
<1>6. ASSUME NEW o \in Owners, NEW q \in Requests, repost(o, q)
       PROVE  AliveInv'
  BY <1>6 DEF repost, acquire_shmem
<1>7. ASSUME NEW o \in Owners, cancelWait(o)
       PROVE  AliveInv'
  BY <1>7 DEF cancelWait
<1>8. ASSUME NEW o \in Owners, Usable(o), initializeOwner_again(o)
       PROVE  AliveInv'
  BY <1>8 DEF initializeOwner_again
<1>9. ASSUME NEW o \in Owners, initializeOwner(o)
       PROVE  AliveInv'
  BY <1>9 DEF initializeOwner, acquire_shmem
<1>10. ASSUME NEW o \in Owners, shutdownOwner(o)
       PROVE  AliveInv'
  BY <1>10 DEF shutdownOwner, Usable, Quiet
<1>11. ASSUME NEW p \in Processes, destroy(p)
       PROVE  AliveInv'
  BY <1>11 DEF destroy, Quiet
<1>12. ASSUME NEW r \in Requests, enqueue_insert(r)
       PROVE  AliveInv'
  BY <1>12 DEF enqueue_insert, At, Goto
<1>13. ASSUME NEW r \in Requests, enqueue_grant(r)
       PROVE  AliveInv'
  BY <1>13 DEF enqueue_grant, Succeed, At, Goto, grant
<1>14. ASSUME NEW r \in Requests, grant_or_que_grant(r)
       PROVE  AliveInv'
  BY <1>14 DEF grant_or_que_grant, Succeed, At, grant
<1>15. ASSUME NEW r \in Requests, grant_or_que_block(r)
       PROVE  AliveInv'
  BY <1>15 DEF grant_or_que_block, At, Goto
<1>16. ASSUME NEW r \in Requests, internal_dequeue(r)
       PROVE  AliveInv'
  BY <1>16 DEF internal_dequeue, At, release_request, Free
<1>17. ASSUME NEW r \in Requests, internal_convert_grant(r)
       PROVE  AliveInv'
  BY <1>17 DEF internal_convert_grant, Succeed, At, grant
<1>18. ASSUME NEW r \in Requests, internal_convert_block(r)
       PROVE  AliveInv'
  BY <1>18 DEF internal_convert_block, At, Goto
<1>19. ASSUME NEW r \in Requests, internal_convert_undo(r)
       PROVE  AliveInv'
  BY <1>19 DEF internal_convert_undo, Fail, At, Goto
<1>20. ASSUME NEW r \in Requests, wait_for_request(r)
       PROVE  AliveInv'
  BY <1>20 DEF wait_for_request, At, Goto
<1>21. ASSUME NEW r \in Requests, post_blockage(r)
       PROVE  AliveInv'
  BY <1>21 DEF post_blockage, At, Goto
<1>22. ASSUME NEW r \in Requests, purge_unreachable(r)
       PROVE  AliveInv'
  BY <1>22 DEF purge_unreachable, At
<1>23. ASSUME NEW r \in Requests, NEW b \in Owners, skip_owner(r, b)
       PROVE  AliveInv'
  BY <1>23 DEF skip_owner, At
<1>24. ASSUME NEW r \in Requests, NEW b \in Owners, signal_owner(r, b)
       PROVE  AliveInv'
  <2>1. \A q \in Requests : thread'[q].dead = thread[q].dead
    <3>1. CASE signal_locally(r, b)
      BY <3>1 DEF signal_locally
    <3>2. CASE signal_remotely(r, b)
      BY <3>2 DEF signal_remotely
    <3>3. ~signal_fails(r, b)
      BY DEF signal_fails, DeadProcesses
    <3> QED
      BY <1>24, <3>1, <3>2, <3>3 DEF signal_owner
  <2> QED
    BY <1>24, <2>1 DEF signal_owner, At
<1>25. ASSUME NEW r \in Requests, wait_resolved(r)
       PROVE  AliveInv'
  BY <1>25 DEF wait_resolved, At, Goto
<1>26. ASSUME NEW r \in Requests, wait_again(r)
       PROVE  AliveInv'
  BY <1>26 DEF wait_again, At, Goto
<1>27. ASSUME NEW r \in Requests, wait_sleep(r)
       PROVE  AliveInv'
  BY <1>27 DEF wait_sleep, At
<1>28. ASSUME NEW r \in Requests, event_wait(r)
       PROVE  AliveInv'
  BY <1>28 DEF event_wait, acquire_shmem
<1>29. ASSUME NEW r \in Requests, wait_expired(r)
       PROVE  AliveInv'
  BY <1>29 DEF wait_expired, At, DeadProcesses
<1>30. ASSUME NEW r \in Requests, wait_woken(r)
       PROVE  AliveInv'
  BY <1>30 DEF wait_woken, At, Goto
<1>31. ASSUME NEW r \in Requests, wait_probe(r)
       PROVE  AliveInv'
  BY <1>31 DEF wait_probe, At, DeadProcesses
<1>32. ASSUME NEW r \in Requests, wait_granted(r)
       PROVE  AliveInv'
  BY <1>32 DEF wait_granted, Succeed, At, Goto
<1>33. ASSUME NEW r \in Requests, wait_rejected(r)
       PROVE  AliveInv'
  BY <1>33 DEF wait_rejected, At
<1>34. ASSUME NEW r \in Requests, NEW v \in Requests, deadlock_found(r, v)
       PROVE  AliveInv'
  BY <1>34 DEF deadlock_found, ScanDue, At, Goto
<1>35. ASSUME NEW r \in Requests, deadlock_not_found(r)
       PROVE  AliveInv'
  BY <1>35 DEF deadlock_not_found, At, Goto
<1>36. ASSUME NEW r \in Requests, PostPendingGrant(r)
       PROVE  AliveInv'
  BY <1>36 DEF PostPendingGrant, grant
<1>37. ASSUME NEW r \in Requests, purge_owner_request(r)
       PROVE  AliveInv'
  BY <1>37 DEF purge_owner_request, release_request, Free
<1>38. ASSUME NEW r \in Requests, purge_owner_repost(r)
       PROVE  AliveInv'
  BY <1>38 DEF purge_owner_repost, Free
<1>39. CASE PostPendingEnd
  BY <1>39 DEF PostPendingEnd
<1>40. ASSUME NEW o \in Owners, purge_owner(o)
       PROVE  AliveInv'
  BY <1>40 DEF purge_owner
<1>41. ASSUME NEW o \in Owners, create_owner(o)
       PROVE  AliveInv'
  BY <1>41 DEF create_owner, At, DeadProcesses
<1>42. ASSUME NEW o \in Owners, shutdownOwner_awake(o)
       PROVE  AliveInv'
  BY <1>42 DEF shutdownOwner_awake, acquire_shmem
<1>43. ASSUME NEW p \in Processes, purge_process(p)
       PROVE  AliveInv'
  BY <1>43 DEF purge_process
<1>44. ASSUME NEW t \in Threads, release_shmem(t)
       PROVE  AliveInv'
  BY <1>44 DEF release_shmem, At
<1>45. ASSUME NEW t \in Threads, NEW q \in Requests, blocking_action(t, q)
       PROVE  AliveInv'
  BY <1>45 DEF blocking_action, Serving
<1>46. ASSUME NEW t \in Threads, ast_return(t)
       PROVE  AliveInv'
  BY <1>46 DEF ast_return, acquire_shmem, AfterAction
<1>47. ASSUME NEW t \in Threads, blocking_action_end(t)
       PROVE  AliveInv'
  BY <1>47 DEF blocking_action_end, Serving
<1>48. ASSUME NEW p \in Processes, blocking_thread_wake(p)
       PROVE  AliveInv'
  BY <1>48 DEF blocking_thread_wake, acquire_shmem
<1>49. ASSUME NEW p \in Processes, blocking_thread_sleep(p)
       PROVE  AliveInv'
  BY <1>49 DEF blocking_thread_sleep, At, Goto
<1>50. ASSUME NEW p \in Processes, NEW o \in Owners, blocking_thread_serve(p, o)
       PROVE  AliveInv'
  BY <1>50 DEF blocking_thread_serve, At
<1> QED
  BY <1>1, <1>2, <1>3, <1>4, <1>5, <1>6, <1>7, <1>8, <1>9, <1>10, <1>11, <1>12, <1>13, <1>14, <1>15,
     <1>16, <1>17, <1>18, <1>19, <1>20, <1>21, <1>22, <1>23, <1>24, <1>25, <1>26, <1>27, <1>28,
     <1>29, <1>30, <1>31, <1>32, <1>33, <1>34, <1>35, <1>36, <1>37, <1>38, <1>39, <1>40, <1>41,
     <1>42, <1>43, <1>44, <1>45, <1>46, <1>47, <1>48, <1>49, <1>50
     DEF Next, Client, RequestStep, TableStep, AstStep, Crash

\* Where no process dies, nobody takes the place of a dead one: the condition of
\* the theorems above is a fact.
THEOREM NoPlaceTaken ==
  ASSUME "die" \notin Ops
  PROVE  Spec => [][NoTakeover]_vars
<1>1. Init => AliveInv
  BY DEF Init, AliveInv, Idle, Threads
<1>2. KeptInv /\ AliveInv /\ [Next]_vars => AliveInv'
  <2> SUFFICES ASSUME KeptInv, AliveInv, [Next]_vars PROVE AliveInv'
    OBVIOUS
  <2>1. OwnOK /\ PrcOK /\ TableOK /\ CallOK
    BY TypeParts DEF KeptInv, TableInv
  <2>2. CASE Next
    BY <2>1, <2>2, AliveStep
  <2>3. CASE UNCHANGED vars
    BY <2>3 DEF vars, prcVars, tableVars, threadVars, AliveInv
  <2> QED
    BY <2>2, <2>3
<1>3. AliveInv => NoTakeover
  BY DEF AliveInv, NoTakeover
<1> QED
  BY <1>1, <1>2, <1>3, KeptInvHolds, PTL DEF Spec

-----------------------------------------------------------------------------
(* Wakeups.                                                                  *)

\* The call on r is in wait_for_request.
InWait(r) ==
  \/ thread[r].pc # "idle"
  \/ holder = r /\ next \in {"blockage", "signal", "loop", "awake", "scan", "exit"}

\* A call has its request, once that is in a queue.  Of the calls of an owner that
\* is not shared by threads one may wait, and own_waits counts it.
WaitInv ==
  /\ \A r \in Requests : call[r] # NoCall =>
       (holder = r /\ next = "insert") \/ lrq_type[r] = "lrq"
  /\ \A r, q \in Requests :
       call[r] # NoCall /\ call[q] # NoCall /\ call[r].owner = call[q].owner
         /\ call[r].wait # "nowait" /\ call[q].wait # "nowait" /\ call[r].owner \notin Shared
       => r = q
  /\ \A r \in Requests : InWait(r) =>
       /\ call[r] # NoCall /\ call[r].wait # "nowait"
       /\ call[r].owner \notin Shared => own_waits[call[r].owner] > 0
  /\ holder \in Requests /\ next = "wait" => call[holder].wait # "nowait"
  /\ \A o \in Owners \ Shared : own_waits[o] >= 0

\* A call begins,
LEMMA CallBegins ==
  ASSUME WaitInv, ThreadInv, NEW r \in Requests, NEW c, holder = NoThread, call[r] = NoCall,
         call \in [Requests -> Calls \cup {NoCall}], c # NoCall,
         call' = [call EXCEPT ![r] = c],
         c.wait # "nowait" => \/ c.owner \in Shared
                              \/ \A q \in Requests : call[q] # NoCall => call[q].owner # c.owner,
         thread' = thread, own_waits' = own_waits, holder' = r,
         next' \in {"insert", "convert", "release"},
         next' = "insert" \/ lrq_type'[r] = "lrq",
         \A q \in Requests : call[q] # NoCall => lrq_type'[q] = lrq_type[q]
  PROVE  WaitInv'
<1> USE ConstantsAssumption DEF ConstantsAssumption
<1>1. call'[r] = c /\ \A q \in Requests \ {r} : call'[q] = call[q]
  OBVIOUS
<1>2. \A q \in Requests : InWait(q)' => InWait(q) /\ q # r
  BY DEF InWait, ThreadInv
<1>3. \A q \in Requests : call'[q] # NoCall =>
        (holder' = q /\ next' = "insert") \/ lrq_type'[q] = "lrq"
  BY <1>1 DEF WaitInv
<1>4. ASSUME NEW q \in Requests, NEW p \in Requests, call'[q] # NoCall, call'[p] # NoCall,
             call'[q].owner = call'[p].owner, call'[q].wait # "nowait", call'[p].wait # "nowait",
             call'[q].owner \notin Shared
      PROVE  q = p
  BY <1>1, <1>4 DEF WaitInv
<1>5. \A q \in Requests : InWait(q)' =>
        /\ call'[q] # NoCall /\ call'[q].wait # "nowait"
        /\ call'[q].owner \notin Shared => own_waits'[call'[q].owner] > 0
  BY <1>1, <1>2 DEF WaitInv
<1> QED
  BY <1>3, <1>4, <1>5 DEF WaitInv

\* ends,
LEMMA CallEnds ==
  ASSUME WaitInv, ThreadInv, NEW r \in Requests, holder = r,
         call \in [Requests -> Calls \cup {NoCall}], call' = [call EXCEPT ![r] = NoCall],
         thread' = thread, own_waits' = own_waits, holder' = r, next' = "done",
         \A q \in Requests \ {r} : lrq_type'[q] = lrq_type[q]
  PROVE  WaitInv'
<1>1. call'[r] = NoCall /\ \A q \in Requests \ {r} : call'[q] = call[q]
  OBVIOUS
<1>2. \A q \in Requests : InWait(q)' => InWait(q) /\ q # r
  BY DEF InWait, ThreadInv
<1>3. \A q \in Requests : call'[q] # NoCall => lrq_type'[q] = "lrq"
  BY <1>1 DEF WaitInv
<1>4. ASSUME NEW q \in Requests, NEW p \in Requests, call'[q] # NoCall, call'[p] # NoCall,
             call'[q].owner = call'[p].owner, call'[q].wait # "nowait", call'[p].wait # "nowait",
             call'[q].owner \notin Shared
      PROVE  q = p
  BY <1>1, <1>4 DEF WaitInv
<1>5. \A q \in Requests : InWait(q)' =>
        /\ call'[q] # NoCall /\ call'[q].wait # "nowait"
        /\ call'[q].owner \notin Shared => own_waits'[call'[q].owner] > 0
  BY <1>1, <1>2 DEF WaitInv
<1> QED
  BY <1>3, <1>4, <1>5 DEF WaitInv

\* or leaves wait_for_request, and its owner waits once less.
LEMMA WaitEnds ==
  ASSUME WaitInv, ThreadInv, UseInv, NEW r \in Requests, holder = r, next = "exit",
         call \in [Requests -> Calls \cup {NoCall}], own_waits \in [Owners -> Int],
         own_waits' = [own_waits EXCEPT ![lrq_owner[r]] = @ - 1],
         call' = [call EXCEPT ![r] = NoCall] \/ call' = call,
         thread' = thread, holder' = r, next' \in {"done", "release", "undo"}, lrq_type' = lrq_type
  PROVE  WaitInv'
<1> USE DEF Calls, NoCall
<1>1. /\ InWait(r) /\ call[r] # NoCall /\ call[r].wait # "nowait" /\ call[r].owner \in Owners
      /\ thread[r].pc = "idle" /\ lrq_type[r] = "lrq" /\ lrq_owner[r] = call[r].owner
  BY DEF InWait, WaitInv, ThreadInv, UseInv
<1>2. \A q \in Requests : call'[q] # NoCall => call'[q] = call[q] /\ call[q] # NoCall
  OBVIOUS
<1>3. \A q \in Requests : InWait(q)' => InWait(q) /\ q # r
  BY <1>1 DEF InWait
<1>4. \A q \in Requests : InWait(q)' =>
        /\ call'[q] = call[q] /\ call[q] # NoCall /\ call[q].wait # "nowait"
        /\ call[q].owner \in Owners
        /\ call[q].owner \notin Shared => call[q].owner # call[r].owner /\ own_waits[call[q].owner] > 0
  BY <1>1, <1>3 DEF WaitInv
<1>5. \A o \in Owners \ Shared : own_waits'[o] >= 0
  <2>1. call[r].owner \notin Shared => own_waits[call[r].owner] > 0
    BY <1>1 DEF WaitInv
  <2> QED
    BY <1>1, <2>1 DEF WaitInv
<1>6. \A q \in Requests : InWait(q)' /\ call'[q].owner \notin Shared
        => own_waits'[call'[q].owner] > 0
  BY <1>1, <1>4
<1> QED
  BY <1>2, <1>4, <1>5, <1>6 DEF WaitInv

\* Every step keeps what is known of waiting calls.
LEMMA WaitStep ==
  ASSUME LrqOK, LblOK, OwnOK, PrcOK, TableOK, CallOK, ThreadInv, UseInv, QueueInv,
         BlockInv, OwnerInv, WaitInv, NoneMistaken, Next
  PROVE  WaitInv'
<1> USE ConstantsAssumption DEF ConstantsAssumption, Threads, NoCall, Idle, Contexts, Calls, lrqVars, lblVars, ownVars, prcVars,
       tableVars, threadVars, CallOK, TableOK, PrcOK, LrqOK, OwnOK, WaitInv, InWait
<1>1. ASSUME NEW o \in Owners, NEW l \in Locks, NEW level \in Levels, NEW wait \in Waits,
             NEW ast \in Asts, NEW r \in Requests, enqueue(o, l, level, wait, ast, r)
       PROVE  WaitInv'
  <2> DEFINE c == [op |-> "enqueue", owner |-> o, lock |-> l, level |-> level, wait |-> wait, ast |-> ast]
  <2>1. c # NoCall /\ call[r] = NoCall /\ holder = NoThread
    BY <1>1 DEF enqueue, acquire_shmem, MayWait
  <2>2. /\ call' = [call EXCEPT ![r] = c] /\ thread' = thread /\ own_waits' = own_waits
        /\ holder' = r /\ next' = "insert"
    BY <1>1 DEF enqueue, acquire_shmem, MayWait
  <2>3. c.wait # "nowait" => \/ c.owner \in Shared
                             \/ \A x \in Requests : call[x] # NoCall => call[x].owner # c.owner
    BY <1>1 DEF enqueue, acquire_shmem, MayWait
  <2>4. \A x \in Requests : call[x] # NoCall => lrq_type'[x] = lrq_type[x]
    BY <1>1 DEF enqueue, acquire_shmem, MayWait
  <2> HIDE DEF c
  <2> QED
    BY <2>1, <2>2, <2>3, <2>4, CallBegins
<1>2. ASSUME NEW q \in Requests, NEW l \in Locks, NEW level \in Levels, NEW wait \in Waits,
             NEW ast \in Asts, NEW r \in Requests, enqueue_prior(q, l, level, wait, ast, r)
       PROVE  WaitInv'
  <2> DEFINE c == [op |-> "enqueue", owner |-> lrq_owner[q], lock |-> l, level |-> level,
                 wait |-> wait, ast |-> ast]
  <2>1. c # NoCall /\ call[r] = NoCall /\ holder = NoThread
    BY <1>2 DEF enqueue_prior, acquire_shmem, Known, MayWait, release_request, Free
  <2>2. /\ call' = [call EXCEPT ![r] = c] /\ thread' = thread /\ own_waits' = own_waits
        /\ holder' = r /\ next' = "insert"
    BY <1>2 DEF enqueue_prior, acquire_shmem, Known, MayWait, release_request, Free
  <2>3. c.wait # "nowait" => \/ c.owner \in Shared
                             \/ \A x \in Requests : call[x] # NoCall => call[x].owner # c.owner
    BY <1>2 DEF enqueue_prior, acquire_shmem, Known, MayWait, release_request, Free
  <2>4. \A x \in Requests : call[x] # NoCall => lrq_type'[x] = lrq_type[x]
    BY <1>2 DEF enqueue_prior, acquire_shmem, Known, MayWait, release_request, Free
  <2> HIDE DEF c
  <2> QED
    BY <2>1, <2>2, <2>3, <2>4, CallBegins
<1>3. ASSUME NEW r \in Requests, NEW level \in Levels, NEW wait \in Waits,
             NEW ast \in Asts, convert(r, level, wait, ast)
       PROVE  WaitInv'
  BY <1>3, CallBegins DEF convert, acquire_shmem, Known, MayWait
<1>4. ASSUME NEW r \in Requests, downgrade(r)
       PROVE  WaitInv'
  BY <1>4, CallBegins DEF downgrade, Reduce, acquire_shmem, Known
<1>5. ASSUME NEW r \in Requests, dequeue(r)
       PROVE  WaitInv'
  BY <1>5, CallBegins DEF dequeue, Reduce, acquire_shmem, Known
<1>6. ASSUME NEW o \in Owners, NEW q \in Requests, repost(o, q)
       PROVE  WaitInv'
  BY <1>6 DEF repost, acquire_shmem
<1>7. ASSUME NEW o \in Owners, cancelWait(o)
       PROVE  WaitInv'
  BY <1>7 DEF cancelWait
<1>8. ASSUME NEW o \in Owners, Usable(o), initializeOwner_again(o)
       PROVE  WaitInv'
  BY <1>8 DEF initializeOwner_again
<1>9. ASSUME NEW o \in Owners, initializeOwner(o)
       PROVE  WaitInv'
  BY <1>9 DEF initializeOwner, acquire_shmem
<1>10. ASSUME NEW o \in Owners, shutdownOwner(o)
       PROVE  WaitInv'
  BY <1>10 DEF shutdownOwner, Usable, Quiet
<1>11. ASSUME NEW p \in Processes, destroy(p)
       PROVE  WaitInv'
  BY <1>11 DEF destroy, Quiet
<1>12. ASSUME NEW r \in Requests, enqueue_insert(r)
       PROVE  WaitInv'
  BY <1>12 DEF enqueue_insert, At, Goto
<1>13. ASSUME NEW r \in Requests, enqueue_grant(r)
       PROVE  WaitInv'
  BY <1>13, CallEnds DEF enqueue_grant, Succeed, At, Goto, grant
<1>14. ASSUME NEW r \in Requests, grant_or_que_grant(r)
       PROVE  WaitInv'
  BY <1>14, CallEnds DEF grant_or_que_grant, Succeed, At, grant
<1>15. ASSUME NEW r \in Requests, grant_or_que_block(r)
       PROVE  WaitInv'
  BY <1>15 DEF grant_or_que_block, At, Goto
<1>16. ASSUME NEW r \in Requests, internal_dequeue(r)
       PROVE  WaitInv'
  <2>1. /\ holder = r /\ holder' = r /\ next' = "done" /\ call' = [call EXCEPT ![r] = NoCall]
        /\ thread' = thread /\ own_waits' = own_waits
    BY <1>16 DEF internal_dequeue, At, release_request
  <2>2. \A q \in Requests \ {r} : lrq_type'[q] = lrq_type[q]
    BY <1>16 DEF internal_dequeue, release_request, Free
  <2> QED
    BY <2>1, <2>2, CallEnds
<1>17. ASSUME NEW r \in Requests, internal_convert_grant(r)
       PROVE  WaitInv'
  BY <1>17, CallEnds DEF internal_convert_grant, Succeed, At, grant
<1>18. ASSUME NEW r \in Requests, internal_convert_block(r)
       PROVE  WaitInv'
  BY <1>18 DEF internal_convert_block, At, Goto
<1>19. ASSUME NEW r \in Requests, internal_convert_undo(r)
       PROVE  WaitInv'
  BY <1>19, CallEnds DEF internal_convert_undo, Fail, At, Goto
<1>20. ASSUME NEW r \in Requests, wait_for_request(r)
       PROVE  WaitInv'
  <2>1. /\ holder = r /\ holder' = r /\ next = "wait" /\ next' = "blockage" /\ call' = call
        /\ thread' = thread /\ lrq_type' = lrq_type
        /\ own_waits' = [own_waits EXCEPT ![lrq_owner[r]] = @ + 1]
    BY <1>20 DEF wait_for_request, At, Goto
  <2>2. /\ call[r] # NoCall /\ call[r].wait # "nowait" /\ call[r].owner \in Owners
        /\ lrq_owner[r] = call[r].owner
    BY <2>1 DEF ThreadInv, UseInv
  <2>3. \A q \in Requests : InWait(q)' => InWait(q) \/ q = r
    BY <2>1
  <2>4. \A o \in Owners : /\ o # call[r].owner => own_waits'[o] = own_waits[o]
                          /\ o = call[r].owner => own_waits'[o] = own_waits[o] + 1
                          /\ own_waits[o] \in Int
    BY <2>1, <2>2
  <2>5. \A q \in Requests : call[q] # NoCall => call[q].owner \in Owners
    OBVIOUS
  <2>6. ASSUME NEW q \in Requests, InWait(q)'
        PROVE  /\ call[q] # NoCall /\ call[q].wait # "nowait"
               /\ call[q].owner \notin Shared => own_waits'[call[q].owner] > 0
    <3> HIDE DEF InWait, OwnOK, CallOK, Calls, ConstantsAssumption, NoCall, Threads
    <3>1. CASE q = r
      <4>1. call[r].owner \notin Shared => own_waits[call[r].owner] >= 0
        BY <2>2
      <4> QED
        BY <2>2, <2>4, <3>1, <4>1
    <3>2. CASE InWait(q)
      <4>1. /\ call[q] # NoCall /\ call[q].wait # "nowait"
            /\ call[q].owner \notin Shared => own_waits[call[q].owner] > 0
        BY <3>2
      <4>2. call[q].owner \in Owners
        BY <2>5, <4>1
      <4> QED
        BY <2>4, <4>1, <4>2
    <3> QED
      BY <2>3, <2>6, <3>1, <3>2
  <2>7. ASSUME NEW o \in Owners \ Shared PROVE own_waits'[o] >= 0
    <3>1. own_waits[o] >= 0
      OBVIOUS
    <3> HIDE DEF OwnOK, CallOK, Calls, ConstantsAssumption, NoCall, Threads, WaitInv
    <3> QED
      BY <2>4, <3>1
  <2> HIDE DEF InWait, OwnOK, CallOK, Calls, ConstantsAssumption
  <2> QED
    BY <2>1, <2>6, <2>7
<1>21. ASSUME NEW r \in Requests, post_blockage(r)
       PROVE  WaitInv'
  BY <1>21 DEF post_blockage, At, Goto
<1>22. ASSUME NEW r \in Requests, purge_unreachable(r)
       PROVE  WaitInv'
  BY <1>22 DEF purge_unreachable, At
<1>23. ASSUME NEW r \in Requests, NEW b \in Owners, skip_owner(r, b)
       PROVE  WaitInv'
  BY <1>23 DEF skip_owner, At
<1>24. ASSUME NEW r \in Requests, NEW b \in Owners, signal_owner(r, b)
       PROVE  WaitInv'
  BY <1>24 DEF signal_owner, signal_locally, signal_remotely, signal_fails, At
<1>25. ASSUME NEW r \in Requests, wait_resolved(r)
       PROVE  WaitInv'
  BY <1>25 DEF wait_resolved, At, Goto
<1>26. ASSUME NEW r \in Requests, wait_again(r)
       PROVE  WaitInv'
  BY <1>26 DEF wait_again, At, Goto
<1>27. ASSUME NEW r \in Requests, wait_sleep(r)
       PROVE  WaitInv'
  BY <1>27 DEF wait_sleep, At
<1>28. ASSUME NEW r \in Requests, event_wait(r)
       PROVE  WaitInv'
  BY <1>28 DEF event_wait, acquire_shmem
<1>29. ASSUME NEW r \in Requests, wait_expired(r)
       PROVE  WaitInv'
  BY <1>29 DEF wait_expired, At
<1>30. ASSUME NEW r \in Requests, wait_woken(r)
       PROVE  WaitInv'
  BY <1>30 DEF wait_woken, At, Goto
<1>31. ASSUME NEW r \in Requests, wait_probe(r)
       PROVE  WaitInv'
  BY <1>31 DEF wait_probe, At
<1>32. ASSUME NEW r \in Requests, wait_granted(r)
       PROVE  WaitInv'
  BY <1>32, WaitEnds DEF wait_granted, Succeed, At, Goto
<1>33. ASSUME NEW r \in Requests, wait_rejected(r)
       PROVE  WaitInv'
  BY <1>33, WaitEnds DEF wait_rejected, At
<1>34. ASSUME NEW r \in Requests, NEW v \in Requests, deadlock_found(r, v)
       PROVE  WaitInv'
  BY <1>34 DEF deadlock_found, ScanDue, At, Goto
<1>35. ASSUME NEW r \in Requests, deadlock_not_found(r)
       PROVE  WaitInv'
  BY <1>35 DEF deadlock_not_found, At, Goto
<1>36. ASSUME NEW r \in Requests, PostPendingGrant(r)
       PROVE  WaitInv'
  BY <1>36 DEF PostPendingGrant, grant
<1>37. ASSUME NEW r \in Requests, purge_owner_request(r)
       PROVE  WaitInv'
  <2>1. /\ \A y \in Requests \ {r} : lrq_type'[y] = lrq_type[y]
        /\ lrq_owner[r] \in purge \/ Home[lrq_owner[r]] \in purge
        /\ lrq_type[r] = "lrq" /\ call' = call /\ thread' = thread /\ own_waits' = own_waits
        /\ holder' = holder /\ next' = next
    BY <1>37 DEF purge_owner_request, release_request, Free, Purging
  <2>2. call[r] = NoCall
    BY <2>1 DEF UseInv, NoneMistaken
  <2>3. \A q \in Requests : InWait(q)' <=> InWait(q)
    BY <2>1
  <2> HIDE DEF InWait, OwnOK, CallOK, Calls, ConstantsAssumption, NoCall
  <2> QED
    BY <2>1, <2>2, <2>3
<1>38. ASSUME NEW r \in Requests, purge_owner_repost(r)
       PROVE  WaitInv'
  BY <1>38 DEF purge_owner_repost, Free
<1>39. CASE PostPendingEnd
  BY <1>39 DEF PostPendingEnd
<1>40. ASSUME NEW o \in Owners, purge_owner(o)
       PROVE  WaitInv'
  BY <1>40 DEF purge_owner
<1>41. ASSUME NEW o \in Owners, create_owner(o)
       PROVE  WaitInv'
  <2>1. /\ holder = o /\ next = "create" /\ purge = {} /\ thread' = thread /\ holder' = holder
        /\ own_waits' = [own_waits EXCEPT ![o] = 0] /\ lrq_type' = lrq_type /\ call' = call
    BY <1>41 DEF create_owner, At
  <2>2. o \notin lhb_owners
    BY <2>1 DEF OwnerInv
  <2>3. ASSUME NEW r \in Requests, call[r] # NoCall
        PROVE  call[r].owner # o /\ call[r].owner \in Owners
    <3>1. lrq_type[r] = "lrq" /\ holder # r
      BY <2>1, <2>3
    <3>2. lrq_owner[r] = call[r].owner /\ lrq_owner[r] \in lhb_owners
      BY <2>3, <3>1 DEF UseInv, OwnerInv
    <3>3. call[r].owner \in Owners
      BY <2>3
    <3> QED
      BY <2>2, <3>2, <3>3
  <2>4. \A q \in Requests : InWait(q)' <=> InWait(q)
    BY <2>1
  <2>5. \A b \in Owners : own_waits'[b] = IF b = o THEN 0 ELSE own_waits[b]
    BY <2>1
  <2>6. holder' \notin Requests
    BY <2>1
  <2> HIDE DEF InWait, OwnOK, CallOK, Calls, ConstantsAssumption, NoCall
  <2> QED
    BY <2>1, <2>3, <2>4, <2>5, <2>6
<1>42. ASSUME NEW o \in Owners, shutdownOwner_awake(o)
       PROVE  WaitInv'
  BY <1>42 DEF shutdownOwner_awake, acquire_shmem
<1>43. ASSUME NEW p \in Processes, purge_process(p)
       PROVE  WaitInv'
  BY <1>43 DEF purge_process
<1>44. ASSUME NEW t \in Threads, release_shmem(t)
       PROVE  WaitInv'
  BY <1>44 DEF release_shmem, At
<1>45. ASSUME NEW t \in Threads, NEW q \in Requests, blocking_action(t, q)
       PROVE  WaitInv'
  <2>1. /\ holder = t /\ call' = call /\ own_waits' = own_waits
        /\ \A x \in Threads \ {t} : thread'[x] = thread[x]
        /\ \/ holder' = holder /\ next' = next /\ thread'[t] = thread[t]
           \/ holder' = NoThread
        /\ thread[t].serving \in Owners /\ q \in own_blocks[thread[t].serving]
    BY <1>45 DEF blocking_action, Serving
  <2>2. "blocking" \notin lrq_flags[q] => lrq_type[q] = "repost"
    BY <2>1 DEF BlockInv
  <2>3. /\ \A y \in Requests \ {q} : lrq_type'[y] = lrq_type[y]
        /\ "blocking" \in lrq_flags[q] => lrq_type' = lrq_type
    BY <1>45 DEF blocking_action, Free
  <2>4. t \in Requests => InWait(t)
    BY <2>1 DEF ThreadInv
  <2>5. \A y \in Requests : InWait(y)' => InWait(y)
    BY <2>1, <2>4
  <2>6. holder' = NoThread \/ (holder' = holder /\ next' = next)
    BY <2>1
  <2>7. \A y \in Requests : lrq_type[y] = "lrq" => lrq_type'[y] = "lrq"
    BY <2>2, <2>3
  <2>12. NoThread \notin Requests
    OBVIOUS
  <2>8. holder = t => ~(t \in Requests /\ next = "insert")
    BY <2>1 DEF ThreadInv
  <2> HIDE DEF InWait, OwnOK, CallOK, Calls, ConstantsAssumption, NoCall, Threads
  <2>9. \A r \in Requests : call'[r] # NoCall =>
          (holder' = r /\ next' = "insert") \/ lrq_type'[r] = "lrq"
    BY <2>1, <2>6, <2>7, <2>8
  <2>10. \A r \in Requests : InWait(r)' =>
           /\ call'[r] # NoCall /\ call'[r].wait # "nowait"
           /\ call'[r].owner \notin Shared => own_waits'[call'[r].owner] > 0
    BY <2>1, <2>5
  <2>11. holder' \in Requests /\ next' = "wait" => call'[holder'].wait # "nowait"
    BY <2>1, <2>6, <2>12
  <2> QED
    BY <2>1, <2>9, <2>10, <2>11
<1>46. ASSUME NEW t \in Threads, ast_return(t)
       PROVE  WaitInv'
  BY <1>46 DEF ast_return, acquire_shmem, AfterAction
<1>47. ASSUME NEW t \in Threads, blocking_action_end(t)
       PROVE  WaitInv'
  BY <1>47 DEF blocking_action_end, Serving
<1>48. ASSUME NEW p \in Processes, blocking_thread_wake(p)
       PROVE  WaitInv'
  BY <1>48 DEF blocking_thread_wake, acquire_shmem
<1>49. ASSUME NEW p \in Processes, blocking_thread_sleep(p)
       PROVE  WaitInv'
  BY <1>49 DEF blocking_thread_sleep, At, Goto
<1>50. ASSUME NEW p \in Processes, NEW o \in Owners, blocking_thread_serve(p, o)
       PROVE  WaitInv'
  BY <1>50 DEF blocking_thread_serve, At
<1>51. ASSUME NEW p \in Processes, die(p)
       PROVE  WaitInv'
  BY <1>51 DEF die, Idle
<1> QED
  BY <1>1, <1>2, <1>3, <1>4, <1>5, <1>6, <1>7, <1>8, <1>9, <1>10, <1>11, <1>12, <1>13, <1>14, <1>15,
     <1>16, <1>17, <1>18, <1>19, <1>20, <1>21, <1>22, <1>23, <1>24, <1>25, <1>26, <1>27, <1>28,
     <1>29, <1>30, <1>31, <1>32, <1>33, <1>34, <1>35, <1>36, <1>37, <1>38, <1>39, <1>40, <1>41,
     <1>42, <1>43, <1>44, <1>45, <1>46, <1>47, <1>48, <1>49, <1>50, <1>51
     DEF Next, Client, RequestStep, TableStep, AstStep, Crash
\* A step keeps NoLostWakeup that puts no thread to sleep, resolves no request
\* without a wakeup and takes no wakeup from a thread that sleeps.
LEMMA WakeKept ==
  ASSUME NoLostWakeup,
         \A r \in Requests : thread'[r].pc = "sleep" =>
           /\ thread[r].pc = "sleep"
           /\ lrq_owner'[r] = lrq_owner[r]
           /\ \/ ~Pending(r) /\ ("wakeup" \in own_flags[lrq_owner[r]] =>
                                   "wakeup" \in own_flags'[lrq_owner[r]])
              \/ Pending(r)'
              \/ lrq_owner[r] \in Shared
              \/ "wakeup" \in own_flags'[lrq_owner[r]]
  PROVE  NoLostWakeup'
BY DEF NoLostWakeup

\* A thread that sleeps in eventWait: its call has its request; its owner knows
\* that it waits and, if not shared, has no other call that may wait.
LEMMA Sleeper ==
  ASSUME WaitInv, ThreadInv, UseInv, call \in [Requests -> Calls \cup {NoCall}],
         NEW r \in Requests, thread[r].pc = "sleep"
  PROVE  /\ holder # r /\ call[r] # NoCall
         /\ lrq_type[r] = "lrq" /\ lrq_owner[r] = call[r].owner /\ lrq_owner[r] \in Owners
         /\ Home[lrq_owner[r]] \in running
         /\ lrq_owner[r] \notin Shared =>
              /\ own_waits[lrq_owner[r]] > 0
              /\ \A q \in Requests \ {r} : call[q] # NoCall /\ call[q].owner = lrq_owner[r]
                                           => call[q].wait = "nowait"
<1>1. call[r] # NoCall /\ call[r].wait # "nowait" /\ holder # r
  BY DEF ThreadInv, WaitInv, InWait
<1>2. call[r].owner \in Owners
  BY <1>1 DEF Calls
<1>3. lrq_type[r] = "lrq" /\ lrq_owner[r] = call[r].owner
  BY <1>1 DEF WaitInv, UseInv
<1>4. call[r].owner \notin Shared => own_waits[call[r].owner] > 0
  BY <1>1 DEF WaitInv, InWait
<1> QED
  BY <1>1, <1>2, <1>3, <1>4 DEF WaitInv, UseInv

\* Every step keeps NoLostWakeup.
LEMMA WakeStep ==
  ASSUME LrqOK, LblOK, OwnOK, PrcOK, TableOK, CallOK, ThreadInv, UseInv, QueueInv,
         BlockInv, OwnerInv, WaitInv, NoLostWakeup, NoneMistaken, Next
  PROVE  NoLostWakeup'
<1> USE ConstantsAssumption DEF ConstantsAssumption, Threads, NoCall, Idle, Contexts, Calls, lrqVars, lblVars, ownVars, prcVars,
       tableVars, threadVars, CallOK, TableOK, PrcOK, LrqOK, OwnOK, Pending
<1>0. \A r \in Requests : thread[r].pc = "sleep" =>
        /\ holder # r /\ call[r] # NoCall
        /\ lrq_type[r] = "lrq" /\ lrq_owner[r] = call[r].owner /\ lrq_owner[r] \in Owners
        /\ Home[lrq_owner[r]] \in running
        /\ lrq_owner[r] \notin Shared =>
             /\ own_waits[lrq_owner[r]] > 0
             /\ \A q \in Requests \ {r} : call[q] # NoCall /\ call[q].owner = lrq_owner[r]
                                          => call[q].wait = "nowait"
  BY Sleeper
<1>1. ASSUME NEW o \in Owners, NEW l \in Locks, NEW level \in Levels, NEW wait \in Waits,
             NEW ast \in Asts, NEW r \in Requests, enqueue(o, l, level, wait, ast, r)
       PROVE  NoLostWakeup'
  BY <1>1, WakeKept DEF enqueue, acquire_shmem, Usable
<1>2. ASSUME NEW q \in Requests, NEW l \in Locks, NEW level \in Levels, NEW wait \in Waits,
             NEW ast \in Asts, NEW r \in Requests, enqueue_prior(q, l, level, wait, ast, r)
       PROVE  NoLostWakeup'
  <2>1. \A s \in Requests : thread'[s].pc = "sleep" => thread[s].pc = "sleep"
    BY <1>2 DEF enqueue_prior, acquire_shmem, Known, release_request, Free
  <2>2. \A s \in Requests \ {q} : lrq_owner'[s] = lrq_owner[s] /\ lrq_flags'[s] = lrq_flags[s]
    BY <1>2 DEF enqueue_prior, acquire_shmem, Known, release_request, Free
  <2>3. thread[q].pc # "sleep"
    BY <1>2, <1>0 DEF enqueue_prior, acquire_shmem, Known, release_request, Free, ThreadInv
  <2>4. \A x \in Owners : "wakeup" \in own_flags[x] => "wakeup" \in own_flags'[x]
    BY <1>2 DEF enqueue_prior, acquire_shmem, Known, release_request, Free
  <2> HIDE DEF LrqOK, OwnOK, CallOK, TableOK, PrcOK, Threads, NoCall, Idle, Calls, ConstantsAssumption
  <2> QED
    BY <1>0, <2>1, <2>2, <2>3, <2>4, WakeKept
<1>3. ASSUME NEW r \in Requests, NEW level \in Levels, NEW wait \in Waits,
             NEW ast \in Asts, convert(r, level, wait, ast)
       PROVE  NoLostWakeup'
  BY <1>3, WakeKept DEF convert, acquire_shmem, Known, Usable
<1>4. ASSUME NEW r \in Requests, downgrade(r)
       PROVE  NoLostWakeup'
  <2>1. \A s \in Requests : thread'[s].pc = "sleep" => thread[s].pc = "sleep"
    BY <1>4 DEF downgrade, Reduce, acquire_shmem, Known
  <2>2. \A s \in Requests \ {r} : lrq_owner'[s] = lrq_owner[s] /\ lrq_flags'[s] = lrq_flags[s]
    BY <1>4 DEF downgrade, Reduce, acquire_shmem, Known
  <2>3. thread[r].pc # "sleep"
    BY <1>4, <1>0 DEF downgrade, Reduce, acquire_shmem, Known, ThreadInv
  <2>4. \A x \in Owners : "wakeup" \in own_flags[x] => "wakeup" \in own_flags'[x]
    BY <1>4 DEF downgrade, Reduce, acquire_shmem, Known
  <2> HIDE DEF LrqOK, OwnOK, CallOK, TableOK, PrcOK, Threads, NoCall, Idle, Calls, ConstantsAssumption
  <2> QED
    BY <1>0, <2>1, <2>2, <2>3, <2>4, WakeKept
<1>5. ASSUME NEW r \in Requests, dequeue(r)
       PROVE  NoLostWakeup'
  BY <1>5, WakeKept DEF dequeue, Reduce, acquire_shmem, Known, Usable
<1>6. ASSUME NEW o \in Owners, NEW q \in Requests, repost(o, q)
       PROVE  NoLostWakeup'
  <2>1. \A s \in Requests : thread'[s].pc = "sleep" => thread[s].pc = "sleep"
    BY <1>6 DEF repost, acquire_shmem
  <2>2. \A s \in Requests \ {q} : lrq_owner'[s] = lrq_owner[s] /\ lrq_flags'[s] = lrq_flags[s]
    BY <1>6 DEF repost, acquire_shmem
  <2>3. thread[q].pc # "sleep"
    BY <1>6, <1>0 DEF repost, acquire_shmem, ThreadInv
  <2>4. \A x \in Owners : "wakeup" \in own_flags[x] => "wakeup" \in own_flags'[x]
    BY <1>6 DEF repost, acquire_shmem
  <2> HIDE DEF LrqOK, OwnOK, CallOK, TableOK, PrcOK, Threads, NoCall, Idle, Calls, ConstantsAssumption
  <2> QED
    BY <1>0, <2>1, <2>2, <2>3, <2>4, WakeKept
<1>7. ASSUME NEW o \in Owners, cancelWait(o)
       PROVE  NoLostWakeup'
  BY <1>7, WakeKept, <1>0 DEF cancelWait, post_wakeup
<1>8. ASSUME NEW o \in Owners, Usable(o), initializeOwner_again(o)
       PROVE  NoLostWakeup'
  BY <1>8, WakeKept DEF initializeOwner_again
<1>9. ASSUME NEW o \in Owners, initializeOwner(o)
       PROVE  NoLostWakeup'
  BY <1>9, WakeKept DEF initializeOwner, acquire_shmem
<1>10. ASSUME NEW o \in Owners, shutdownOwner(o)
       PROVE  NoLostWakeup'
  BY <1>10, WakeKept DEF shutdownOwner, Usable, Quiet
<1>11. ASSUME NEW p \in Processes, destroy(p)
       PROVE  NoLostWakeup'
  BY <1>11, WakeKept DEF destroy, Quiet
<1>12. ASSUME NEW r \in Requests, enqueue_insert(r)
       PROVE  NoLostWakeup'
  <2>1. \A s \in Requests : thread'[s].pc = "sleep" => thread[s].pc = "sleep"
    BY <1>12 DEF enqueue_insert, At, Goto
  <2>2. \A s \in Requests \ {r} : lrq_owner'[s] = lrq_owner[s] /\ lrq_flags'[s] = lrq_flags[s]
    BY <1>12 DEF enqueue_insert, At, Goto
  <2>3. thread[r].pc # "sleep"
    BY <1>12, <1>0 DEF enqueue_insert, At, Goto, ThreadInv
  <2>4. \A x \in Owners : "wakeup" \in own_flags[x] => "wakeup" \in own_flags'[x]
    BY <1>12 DEF enqueue_insert, At, Goto
  <2> HIDE DEF LrqOK, OwnOK, CallOK, TableOK, PrcOK, Threads, NoCall, Idle, Calls, ConstantsAssumption
  <2> QED
    BY <1>0, <2>1, <2>2, <2>3, <2>4, WakeKept
<1>13. ASSUME NEW r \in Requests, enqueue_grant(r)
       PROVE  NoLostWakeup'
  <2>1. \A s \in Requests : thread'[s].pc = "sleep" => thread[s].pc = "sleep"
    BY <1>13 DEF enqueue_grant, At, grant
  <2>2. \A s \in Requests \ {r} : lrq_owner'[s] = lrq_owner[s] /\ lrq_flags'[s] = lrq_flags[s]
    BY <1>13 DEF enqueue_grant, At, grant
  <2>3. thread[r].pc # "sleep"
    BY <1>13, <1>0 DEF enqueue_grant, At, grant, ThreadInv
  <2>4. \A x \in Owners : "wakeup" \in own_flags[x] => "wakeup" \in own_flags'[x]
    BY <1>13 DEF enqueue_grant, grant, post_wakeup
  <2> HIDE DEF LrqOK, OwnOK, CallOK, TableOK, PrcOK, Threads, NoCall, Idle, Calls, ConstantsAssumption
  <2> QED
    BY <1>0, <2>1, <2>2, <2>3, <2>4, WakeKept
<1>14. ASSUME NEW r \in Requests, grant_or_que_grant(r)
       PROVE  NoLostWakeup'
  <2>1. \A s \in Requests : thread'[s].pc = "sleep" => thread[s].pc = "sleep"
    BY <1>14 DEF grant_or_que_grant, At, grant
  <2>2. \A s \in Requests \ {r} : lrq_owner'[s] = lrq_owner[s] /\ lrq_flags'[s] = lrq_flags[s]
    BY <1>14 DEF grant_or_que_grant, At, grant
  <2>3. thread[r].pc # "sleep"
    BY <1>14, <1>0 DEF grant_or_que_grant, At, grant, ThreadInv
  <2>4. \A x \in Owners : "wakeup" \in own_flags[x] => "wakeup" \in own_flags'[x]
    BY <1>14 DEF grant_or_que_grant, grant, post_wakeup
  <2> HIDE DEF LrqOK, OwnOK, CallOK, TableOK, PrcOK, Threads, NoCall, Idle, Calls, ConstantsAssumption
  <2> QED
    BY <1>0, <2>1, <2>2, <2>3, <2>4, WakeKept
<1>15. ASSUME NEW r \in Requests, grant_or_que_block(r)
       PROVE  NoLostWakeup'
  BY <1>15, WakeKept DEF grant_or_que_block, At, Goto
<1>16. ASSUME NEW r \in Requests, internal_dequeue(r)
       PROVE  NoLostWakeup'
  <2>1. \A s \in Requests : thread'[s].pc = "sleep" => thread[s].pc = "sleep"
    BY <1>16 DEF internal_dequeue, At, release_request, Free
  <2>2. \A s \in Requests \ {r} : lrq_owner'[s] = lrq_owner[s] /\ lrq_flags'[s] = lrq_flags[s]
    BY <1>16 DEF internal_dequeue, At, release_request, Free
  <2>3. thread[r].pc # "sleep"
    BY <1>16, <1>0 DEF internal_dequeue, At, release_request, Free, ThreadInv
  <2>4. \A x \in Owners : "wakeup" \in own_flags[x] => "wakeup" \in own_flags'[x]
    BY <1>16 DEF internal_dequeue, At, release_request, Free
  <2> HIDE DEF LrqOK, OwnOK, CallOK, TableOK, PrcOK, Threads, NoCall, Idle, Calls, ConstantsAssumption
  <2> QED
    BY <1>0, <2>1, <2>2, <2>3, <2>4, WakeKept
<1>17. ASSUME NEW r \in Requests, internal_convert_grant(r)
       PROVE  NoLostWakeup'
  <2>1. \A s \in Requests : thread'[s].pc = "sleep" => thread[s].pc = "sleep"
    BY <1>17 DEF internal_convert_grant, At, grant
  <2>2. \A s \in Requests \ {r} : lrq_owner'[s] = lrq_owner[s] /\ lrq_flags'[s] = lrq_flags[s]
    BY <1>17 DEF internal_convert_grant, At, grant
  <2>3. thread[r].pc # "sleep"
    BY <1>17, <1>0 DEF internal_convert_grant, At, grant, ThreadInv
  <2>4. \A x \in Owners : "wakeup" \in own_flags[x] => "wakeup" \in own_flags'[x]
    BY <1>17 DEF internal_convert_grant, grant, post_wakeup
  <2> HIDE DEF LrqOK, OwnOK, CallOK, TableOK, PrcOK, Threads, NoCall, Idle, Calls, ConstantsAssumption
  <2> QED
    BY <1>0, <2>1, <2>2, <2>3, <2>4, WakeKept
<1>18. ASSUME NEW r \in Requests, internal_convert_block(r)
       PROVE  NoLostWakeup'
  BY <1>18, WakeKept DEF internal_convert_block, At, Goto
<1>19. ASSUME NEW r \in Requests, internal_convert_undo(r)
       PROVE  NoLostWakeup'
  BY <1>19, WakeKept DEF internal_convert_undo, Fail, At, Goto
<1>20. ASSUME NEW r \in Requests, wait_for_request(r)
       PROVE  NoLostWakeup'
  <2>1. \A q \in Requests : thread'[q].pc = "sleep" => thread[q].pc = "sleep" /\ q # r
    BY <1>20, <1>0 DEF wait_for_request, At, Goto
  <2>2. /\ call[r] # NoCall /\ call[r].wait # "nowait" /\ lrq_owner[r] = call[r].owner
        /\ lrq_owner[r] \in Owners
    BY <1>20 DEF wait_for_request, At, Goto, ThreadInv, WaitInv, UseInv, InWait
  <2>3. \A q \in Requests \ {r} : lrq_owner'[q] = lrq_owner[q] /\ lrq_flags'[q] = lrq_flags[q]
    BY <1>20 DEF wait_for_request, At, Goto
  <2>4. \A o \in Owners \ {lrq_owner[r]} : own_flags'[o] = own_flags[o]
    BY <1>20 DEF wait_for_request, At, Goto
  <2> HIDE DEF LrqOK, OwnOK, CallOK, TableOK, PrcOK, Threads, NoCall, Idle, Calls, ConstantsAssumption
  <2> QED
    BY <1>0, <2>1, <2>2, <2>3, <2>4, WakeKept
<1>21. ASSUME NEW r \in Requests, post_blockage(r)
       PROVE  NoLostWakeup'
  BY <1>21, WakeKept DEF post_blockage, At, Goto
<1>22. ASSUME NEW r \in Requests, purge_unreachable(r)
       PROVE  NoLostWakeup'
  BY <1>22, WakeKept DEF purge_unreachable, At
<1>23. ASSUME NEW r \in Requests, NEW b \in Owners, skip_owner(r, b)
       PROVE  NoLostWakeup'
  BY <1>23, WakeKept DEF skip_owner, At
<1>24. ASSUME NEW r \in Requests, NEW b \in Owners, signal_owner(r, b)
       PROVE  NoLostWakeup'
  <2>1. /\ lrq_owner' = lrq_owner /\ lrq_flags' = lrq_flags
        /\ \A x \in Owners : "wakeup" \in own_flags[x] => "wakeup" \in own_flags'[x]
    <3>1. own_flags' = [own_flags EXCEPT ![b] = @ \cup {"signaled"}] \/ own_flags' = own_flags
      BY <1>24 DEF signal_owner, signal_locally, signal_remotely, signal_fails
    <3> QED
      BY <1>24, <3>1 DEF signal_owner
  <2>2. \A q \in Requests : thread'[q].pc = "sleep" => thread[q].pc = "sleep"
    <3>1. CASE signal_locally(r, b)
      BY <3>1 DEF signal_locally
    <3>2. CASE signal_remotely(r, b)
      BY <3>2 DEF signal_remotely
    <3>3. CASE signal_fails(r, b)
      BY <3>3 DEF signal_fails
    <3> QED
      BY <1>24, <3>1, <3>2, <3>3 DEF signal_owner
  <2> HIDE DEF LrqOK, OwnOK, CallOK, TableOK, PrcOK, Threads, NoCall, Idle, Calls, ConstantsAssumption
  <2> QED
    BY <1>0, <2>1, <2>2, WakeKept
<1>25. ASSUME NEW r \in Requests, wait_resolved(r)
       PROVE  NoLostWakeup'
  BY <1>25, WakeKept DEF wait_resolved, At, Goto
<1>26. ASSUME NEW r \in Requests, wait_again(r)
       PROVE  NoLostWakeup'
  BY <1>26, WakeKept DEF wait_again, At, Goto
<1>27. ASSUME NEW r \in Requests, wait_sleep(r)
       PROVE  NoLostWakeup'
  <2>1. /\ lrq_owner' = lrq_owner /\ lrq_flags' = lrq_flags /\ own_flags' = own_flags
        /\ Pending(r) /\ \A q \in Requests \ {r} : thread'[q] = thread[q]
    BY <1>27 DEF wait_sleep, At
  <2> HIDE DEF LrqOK, OwnOK, CallOK, TableOK, PrcOK, Threads, NoCall, Idle, Calls, ConstantsAssumption
  <2> QED
    BY <2>1 DEF NoLostWakeup
<1>28. ASSUME NEW r \in Requests, event_wait(r)
       PROVE  NoLostWakeup'
  BY <1>28, WakeKept DEF event_wait, acquire_shmem
<1>29. ASSUME NEW r \in Requests, wait_expired(r)
       PROVE  NoLostWakeup'
  <2>1. \A q \in Requests : thread'[q].pc = "sleep" => thread[q].pc = "sleep" /\ q # r
    BY <1>29, <1>0 DEF wait_expired, At
  <2>2. /\ call[r] # NoCall /\ call[r].wait # "nowait" /\ lrq_owner[r] = call[r].owner
        /\ lrq_owner[r] \in Owners
    BY <1>29 DEF wait_expired, At, ThreadInv, WaitInv, UseInv, InWait
  <2>3. \A q \in Requests \ {r} : lrq_owner'[q] = lrq_owner[q] /\ lrq_flags'[q] = lrq_flags[q]
    BY <1>29 DEF wait_expired, At
  <2>4. \A o \in Owners \ {lrq_owner[r]} : own_flags'[o] = own_flags[o]
    BY <1>29 DEF wait_expired, At
  <2> HIDE DEF LrqOK, OwnOK, CallOK, TableOK, PrcOK, Threads, NoCall, Idle, Calls, ConstantsAssumption
  <2> QED
    BY <1>0, <2>1, <2>2, <2>3, <2>4, WakeKept
<1>30. ASSUME NEW r \in Requests, wait_woken(r)
       PROVE  NoLostWakeup'
  <2>1. \A q \in Requests : thread'[q].pc = "sleep" => thread[q].pc = "sleep" /\ q # r
    BY <1>30, <1>0 DEF wait_woken, At, Goto
  <2>2. /\ call[r] # NoCall /\ call[r].wait # "nowait" /\ lrq_owner[r] = call[r].owner
        /\ lrq_owner[r] \in Owners
    BY <1>30 DEF wait_woken, At, Goto, ThreadInv, WaitInv, UseInv, InWait
  <2>3. \A q \in Requests \ {r} : lrq_owner'[q] = lrq_owner[q] /\ lrq_flags'[q] = lrq_flags[q]
    BY <1>30 DEF wait_woken, At, Goto
  <2>4. \A o \in Owners \ {lrq_owner[r]} : own_flags'[o] = own_flags[o]
    BY <1>30 DEF wait_woken, At, Goto
  <2> HIDE DEF LrqOK, OwnOK, CallOK, TableOK, PrcOK, Threads, NoCall, Idle, Calls, ConstantsAssumption
  <2> QED
    BY <1>0, <2>1, <2>2, <2>3, <2>4, WakeKept
<1>31. ASSUME NEW r \in Requests, wait_probe(r)
       PROVE  NoLostWakeup'
  BY <1>31, WakeKept DEF wait_probe, At
<1>32. ASSUME NEW r \in Requests, wait_granted(r)
       PROVE  NoLostWakeup'
  BY <1>32, WakeKept DEF wait_granted, Succeed, At, Goto
<1>33. ASSUME NEW r \in Requests, wait_rejected(r)
       PROVE  NoLostWakeup'
  BY <1>33, WakeKept DEF wait_rejected, At
<1>34. ASSUME NEW r \in Requests, NEW v \in Requests, deadlock_found(r, v)
       PROVE  NoLostWakeup'
  <2>1. /\ thread' = thread /\ lrq_owner' = lrq_owner /\ holder = r
        /\ \A q \in Requests \ {v} : lrq_flags'[q] = lrq_flags[q]
        /\ own_flags' = [own_flags EXCEPT ![lrq_owner[v]] =
             (IF v = r THEN @ ELSE post_wakeup(lrq_owner[v])) \ {"scanned"}]
    BY <1>34 DEF deadlock_found, ScanDue, At, Goto
  <2>2. \A x \in Owners : "wakeup" \in own_flags[x] => "wakeup" \in own_flags'[x]
    BY <2>1 DEF post_wakeup
  <2>3. thread[v].pc = "sleep" /\ lrq_owner[v] \notin Shared => "wakeup" \in own_flags'[lrq_owner[v]]
    BY <1>0, <2>1 DEF post_wakeup
  <2>4. ~Pending(v) => \/ v = r \/ thread[v].pc # "sleep" \/ "wakeup" \in own_flags'[lrq_owner[v]]
                      \/ lrq_owner[v] \in Shared
    BY <2>3
  <2> HIDE DEF LrqOK, OwnOK, CallOK, TableOK, PrcOK, Threads, NoCall, Idle, Calls, ConstantsAssumption
  <2> QED
    BY <1>0, <2>1, <2>2, <2>3, WakeKept
<1>35. ASSUME NEW r \in Requests, deadlock_not_found(r)
       PROVE  NoLostWakeup'
  BY <1>35, WakeKept DEF deadlock_not_found, At, Goto
<1>36. ASSUME NEW r \in Requests, PostPendingGrant(r)
       PROVE  NoLostWakeup'
  <2>1. /\ thread' = thread /\ lrq_owner' = lrq_owner /\ Pending(r)
        /\ \A q \in Requests \ {r} : lrq_flags'[q] = lrq_flags[q]
        /\ own_flags' = [own_flags EXCEPT ![lrq_owner[r]] = post_wakeup(lrq_owner[r])]
    BY <1>36 DEF PostPendingGrant, grant, FirstPending
  <2>2. \A x \in Owners : "wakeup" \in own_flags[x] => "wakeup" \in own_flags'[x]
    BY <2>1 DEF post_wakeup
  <2>3. thread[r].pc = "sleep" /\ lrq_owner[r] \notin Shared => "wakeup" \in own_flags'[lrq_owner[r]]
    BY <1>0, <2>1 DEF post_wakeup
  <2> HIDE DEF LrqOK, OwnOK, CallOK, TableOK, PrcOK, Threads, NoCall, Idle, Calls, ConstantsAssumption
  <2> QED
    BY <1>0, <2>1, <2>2, <2>3, WakeKept
<1>37. ASSUME NEW r \in Requests, purge_owner_request(r)
       PROVE  NoLostWakeup'
  <2>1. \A s \in Requests : thread'[s].pc = "sleep" => thread[s].pc = "sleep"
    BY <1>37 DEF purge_owner_request, release_request, Free, Purging
  <2>2. \A s \in Requests \ {r} : lrq_owner'[s] = lrq_owner[s] /\ lrq_flags'[s] = lrq_flags[s]
    BY <1>37 DEF purge_owner_request, release_request, Free, Purging
  <2>3. thread[r].pc # "sleep"
    BY <1>37, <1>0 DEF purge_owner_request, release_request, Free, Purging, ThreadInv, NoneMistaken, UseInv
  <2>4. \A x \in Owners : "wakeup" \in own_flags[x] => "wakeup" \in own_flags'[x]
    BY <1>37 DEF purge_owner_request, release_request, Free, Purging
  <2> HIDE DEF LrqOK, OwnOK, CallOK, TableOK, PrcOK, Threads, NoCall, Idle, Calls, ConstantsAssumption
  <2> QED
    BY <1>0, <2>1, <2>2, <2>3, <2>4, WakeKept
<1>38. ASSUME NEW r \in Requests, purge_owner_repost(r)
       PROVE  NoLostWakeup'
  <2>1. \A s \in Requests : thread'[s].pc = "sleep" => thread[s].pc = "sleep"
    BY <1>38 DEF purge_owner_repost, Free
  <2>2. \A s \in Requests \ {r} : lrq_owner'[s] = lrq_owner[s] /\ lrq_flags'[s] = lrq_flags[s]
    BY <1>38 DEF purge_owner_repost, Free
  <2>3. thread[r].pc # "sleep"
    BY <1>38, <1>0 DEF purge_owner_repost, Free, ThreadInv
  <2>4. \A x \in Owners : "wakeup" \in own_flags[x] => "wakeup" \in own_flags'[x]
    BY <1>38 DEF purge_owner_repost, Free
  <2> HIDE DEF LrqOK, OwnOK, CallOK, TableOK, PrcOK, Threads, NoCall, Idle, Calls, ConstantsAssumption
  <2> QED
    BY <1>0, <2>1, <2>2, <2>3, <2>4, WakeKept
<1>39. CASE PostPendingEnd
  <2>1. /\ thread' = thread /\ lrq_owner' = lrq_owner
        /\ \A q \in Requests : Pending(q)' <=> Pending(q)
    BY <1>39 DEF PostPendingEnd
  <2>2. \A x \in Owners : "wakeup" \in own_flags[x] => "wakeup" \in own_flags'[x]
    BY <1>39 DEF PostPendingEnd, post_wakeup
  <2> HIDE DEF LrqOK, OwnOK, CallOK, TableOK, PrcOK, Threads, NoCall, Idle, Calls, ConstantsAssumption
  <2> QED
    BY <1>0, <2>1, <2>2, WakeKept DEF Pending
<1>40. ASSUME NEW o \in Owners, purge_owner(o)
       PROVE  NoLostWakeup'
  <2>1. /\ thread' = thread /\ lrq_owner' = lrq_owner /\ lrq_flags' = lrq_flags
        /\ own_requests(o) = {} /\ \A b \in Owners \ {o} : own_flags'[b] = own_flags[b]
    BY <1>40 DEF purge_owner
  <2>2. \A r \in Requests : thread[r].pc = "sleep" => lrq_owner[r] # o
    BY <1>0, <2>1 DEF own_requests
  <2> HIDE DEF LrqOK, OwnOK, CallOK, TableOK, PrcOK, Threads, NoCall, Idle, Calls, ConstantsAssumption
  <2> QED
    BY <1>0, <2>1, <2>2, WakeKept
<1>41. ASSUME NEW o \in Owners, create_owner(o)
       PROVE  NoLostWakeup'
  <2>1. /\ thread' = thread /\ lrq_owner' = lrq_owner /\ lrq_flags' = lrq_flags
        /\ \A b \in Owners \ {o} : own_flags'[b] = own_flags[b]
        /\ holder = o /\ next = "create" /\ purge = {}
    BY <1>41 DEF create_owner, At
  <2>2. \A r \in Requests : thread[r].pc = "sleep" => lrq_owner[r] # o
    BY <1>0, <2>1 DEF OwnerInv
  <2> HIDE DEF LrqOK, OwnOK, CallOK, TableOK, PrcOK, Threads, NoCall, Idle, Calls, ConstantsAssumption
  <2> QED
    BY <1>0, <2>1, <2>2, WakeKept
<1>42. ASSUME NEW o \in Owners, shutdownOwner_awake(o)
       PROVE  NoLostWakeup'
  BY <1>42, WakeKept DEF shutdownOwner_awake, acquire_shmem
<1>43. ASSUME NEW p \in Processes, purge_process(p)
       PROVE  NoLostWakeup'
  BY <1>43, WakeKept DEF purge_process
<1>44. ASSUME NEW t \in Threads, release_shmem(t)
       PROVE  NoLostWakeup'
  BY <1>44, WakeKept DEF release_shmem, At
<1>45. ASSUME NEW t \in Threads, NEW q \in Requests, blocking_action(t, q)
       PROVE  NoLostWakeup'
  <2>1. \A s \in Requests : thread'[s].pc = "sleep" => thread[s].pc = "sleep"
    BY <1>45 DEF blocking_action, Serving
  <2>2. own_flags' = own_flags /\ thread[t].serving \in Owners /\ q \in own_blocks[thread[t].serving]
    BY <1>45 DEF blocking_action, Serving
  <2>3. "blocking" \notin lrq_flags[q] => thread[q].pc # "sleep"
    BY <2>2, <1>0 DEF BlockInv
  <2>4. \A s \in Requests \ {q} : lrq_owner'[s] = lrq_owner[s] /\ lrq_flags'[s] = lrq_flags[s]
    BY <1>45 DEF blocking_action, Free
  <2>5. "blocking" \in lrq_flags[q] => lrq_owner'[q] = lrq_owner[q] /\ (Pending(q)' <=> Pending(q))
    BY <1>45 DEF blocking_action
  <2> HIDE DEF LrqOK, OwnOK, CallOK, TableOK, PrcOK, Threads, NoCall, Idle, Calls, ConstantsAssumption
  <2> QED
    BY <2>1, <2>2, <2>3, <2>4, <2>5, WakeKept DEF Pending
<1>46. ASSUME NEW t \in Threads, ast_return(t)
       PROVE  NoLostWakeup'
  BY <1>46, WakeKept DEF ast_return, acquire_shmem, AfterAction
<1>47. ASSUME NEW t \in Threads, blocking_action_end(t)
       PROVE  NoLostWakeup'
  BY <1>47, WakeKept DEF blocking_action_end, Serving
<1>48. ASSUME NEW p \in Processes, blocking_thread_wake(p)
       PROVE  NoLostWakeup'
  BY <1>48, WakeKept DEF blocking_thread_wake, acquire_shmem
<1>49. ASSUME NEW p \in Processes, blocking_thread_sleep(p)
       PROVE  NoLostWakeup'
  BY <1>49, WakeKept DEF blocking_thread_sleep, At, Goto
<1>50. ASSUME NEW p \in Processes, NEW o \in Owners, blocking_thread_serve(p, o)
       PROVE  NoLostWakeup'
  BY <1>50, WakeKept DEF blocking_thread_serve, At
<1>51. ASSUME NEW p \in Processes, die(p)
       PROVE  NoLostWakeup'
  BY <1>51, WakeKept DEF die, Idle
<1> QED
  BY <1>1, <1>2, <1>3, <1>4, <1>5, <1>6, <1>7, <1>8, <1>9, <1>10, <1>11, <1>12, <1>13, <1>14, <1>15,
     <1>16, <1>17, <1>18, <1>19, <1>20, <1>21, <1>22, <1>23, <1>24, <1>25, <1>26, <1>27, <1>28,
     <1>29, <1>30, <1>31, <1>32, <1>33, <1>34, <1>35, <1>36, <1>37, <1>38, <1>39, <1>40, <1>41,
     <1>42, <1>43, <1>44, <1>45, <1>46, <1>47, <1>48, <1>49, <1>50, <1>51
     DEF Next, Client, RequestStep, TableStep, AstStep, Crash
\* An empty lock table satisfies both.
LEMMA WaitInit ==
  ASSUME Init
  PROVE  WaitInv /\ NoLostWakeup
<1>1. \A r \in Requests : thread[r].pc = "idle"
  BY DEF Init, Idle, Threads
<1>2. /\ holder \notin Requests /\ \A r \in Requests : call[r] = NoCall
      /\ \A o \in Owners : own_waits[o] = 0
  BY ConstantsAssumption DEF ConstantsAssumption, Init
<1> QED
  BY <1>1, <1>2 DEF WaitInv, InWait, NoLostWakeup

\* Every step keeps both.
LEMMA WaitInvStep ==
  KeptInv /\ WaitInv /\ NoLostWakeup /\ NoneMistaken /\ [Next]_vars => WaitInv' /\ NoLostWakeup'
<1> SUFFICES ASSUME KeptInv, WaitInv, NoLostWakeup, NoneMistaken, [Next]_vars
             PROVE  WaitInv' /\ NoLostWakeup'
  OBVIOUS
<1>1. LrqOK /\ LblOK /\ OwnOK /\ PrcOK /\ TableOK /\ CallOK
  BY TypeParts DEF KeptInv, TableInv
<1>2. ThreadInv /\ UseInv /\ QueueInv /\ BlockInv /\ OwnerInv
  BY DEF KeptInv, TableInv, PresenceInv
<1>3. CASE Next
  BY <1>1, <1>2, <1>3, WaitStep, WakeStep
<1>4. CASE UNCHANGED vars
  <2>1. WaitInv'
    BY <1>4 DEF vars, lrqVars, ownVars, tableVars, threadVars, WaitInv, InWait
  <2>2. NoLostWakeup'
    BY <1>4, WakeKept DEF vars, lrqVars, ownVars, threadVars, Pending
  <2> QED
    BY <2>1, <2>2
<1> QED
  BY <1>3, <1>4

\* As long as nobody takes the place of a dead process that is still to be
\* purged, no wakeup is lost: a thread that sleeps for a request that was granted or
\* rejected meanwhile, by whichever thread of whichever process, has been woken up
\* and nobody else took it for his.
THEOREM WakeupsArrive == Spec /\ [][NoTakeover]_vars => []NoLostWakeup
<1>1. Init => WaitInv /\ NoLostWakeup
  BY WaitInit
<1>2. KeptInv /\ WaitInv /\ NoLostWakeup /\ NoneMistaken /\ [Next]_vars => WaitInv' /\ NoLostWakeup'
  BY WaitInvStep
<1> QED
  BY <1>1, <1>2, KeptInvHolds, OnlyTheDead, PTL DEF Spec
=============================================================================
