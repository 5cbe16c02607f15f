------------------------- MODULE DeadlockWalkProofs -------------------------
(* Proofs about DeadlockWalk, for every wait-for graph: a victim is part of  *)
(* a deadlock, and when none is found none has been missed.                  *)
EXTENDS DeadlockWalk, SequenceTheorems, TLAPS

\* The requests on the path are those marked LRQ_deadlock, each on it once, and
\* each waits for the next one.
PathInv ==
  /\ Len(path) > 0
  /\ path[1] = request
  /\ LRQ_deadlock = {path[i] : i \in 1 .. Len(path)}
  /\ \A i, j \in 1 .. Len(path) : path[i] = path[j] => i = j
  /\ \A i \in 1 .. Len(path) - 1 : path[i + 1] \in waits[path[i]]
  /\ LRQ_deadlock \cap LRQ_scanned = {}

\* What is left to be looked at: no target of a request on the path is lost.
TodoInv ==
  \A i \in 1 .. Len(path) :
    /\ todo[path[i]] \subseteq Blocks(path[i])
    /\ waits[path[i]] \subseteq todo[path[i]] \cup LRQ_scanned
                                  \cup (IF i < Len(path) THEN {path[i + 1]} ELSE {})
    /\ path[i] \in undecided => None \in todo[path[i]] \/ maybe_deadlock

\* What is behind the walk is closed and holds no deadlock.
ScannedInv ==
  /\ \A r \in LRQ_scanned : waits[r] \subseteq LRQ_scanned
  /\ \A C \in SUBSET LRQ_scanned : ~Deadlock(C)
  /\ undecided \cap LRQ_scanned # {} => maybe_deadlock

WalkInv ==
  /\ TypeOK
  /\ pc = "start" => victim = None /\ path = <<>> /\ maybe_deadlock = FALSE
  /\ pc = "walk" =>
       /\ victim = None
       /\ PathInv
       /\ TodoInv
       /\ ScannedInv
       /\ maybe_deadlock => undecided \cap (LRQ_scanned \cup LRQ_deadlock) # {}
  /\ VictimDeadlocked
  /\ NothingMissed

\* Nothing in S waits for anything outside; S holds no deadlock.
Closed(W, S) == \A r \in S : W[r] \subseteq S
Acyclic(W, S) == \A C \in SUBSET S : C = {} \/ \E c \in C : W[c] \cap C = {}

\* A request whose targets are all behind the walk can be put there as well: it
\* closes no cycle, for nothing behind the walk waits for it.
LEMMA ScannedGrows ==
  ASSUME NEW S, NEW W, NEW t, t \notin S, W[t] \subseteq S, Closed(W, S), Acyclic(W, S)
  PROVE  Acyclic(W, S \cup {t})
<1> SUFFICES ASSUME NEW C \in SUBSET (S \cup {t}), C # {}
             PROVE  \E c \in C : W[c] \cap C = {}
  BY DEF Acyclic
<1>1. CASE C \ {t} = {}
  <2>1. t \in C /\ W[t] \cap C = {}
    BY <1>1
  <2> QED
    BY <2>1
<1>2. CASE C \ {t} # {}
  <2>1. PICK c \in C \ {t} : W[c] \cap (C \ {t}) = {}
    BY <1>2 DEF Acyclic
  <2>2. c \in S /\ t \notin W[c]
    <3>1. c \in S
      OBVIOUS
    <3>2. W[c] \subseteq S
      BY <3>1 DEF Closed
    <3> QED
      BY <3>1, <3>2
  <2> QED
    BY <2>1, <2>2
<1> QED
  BY <1>1, <1>2

\* The initial states satisfy the invariant.
LEMMA WalkInit == Init => WalkInv
<1> SUFFICES ASSUME Init PROVE WalkInv
  OBVIOUS
<1>1. TypeOK
  <2> USE WalkAssumption DEF WalkAssumption, Init
  <2>1. path \in Seq(Requests)
    BY EmptySeq
  <2>2. todo \in [Requests -> SUBSET (Requests \cup {None})]
    OBVIOUS
  <2>3. undecided \subseteq Requests /\ LRQ_deadlock \subseteq Requests /\ LRQ_scanned \subseteq Requests
    OBVIOUS
  <2> QED
    BY <2>1, <2>2, <2>3, Zenon DEF TypeOK
<1>2. VictimDeadlocked /\ NothingMissed
  BY DEF Init, VictimDeadlocked, NothingMissed
<1> QED
  BY <1>1, <1>2 DEF Init, WalkInv

\* deadlock_scan starts the walk with nothing behind it.
LEMMA ScanStep ==
  ASSUME WalkInv, NEW r \in Requests, deadlock_scan(r)
  PROVE  WalkInv'
<1> USE WalkAssumption DEF WalkAssumption, deadlock_scan, graph
<1>1. TypeOK'
  BY DEF WalkInv, TypeOK, Blocks
<1>2. path' = <<r>> /\ Len(path') = 1 /\ path'[1] = r /\ victim' = None
  BY DEF WalkInv
<1>3. PathInv'
  BY <1>2 DEF PathInv
<1>4. TodoInv'
  <2>1. todo'[r] = Blocks(r) /\ Blocks(r)' = Blocks(r)
    BY DEF WalkInv, TypeOK, Blocks
  <2> QED
    BY <1>2, <2>1 DEF TodoInv, Blocks
<1>5. ScannedInv'
  BY DEF ScannedInv, Deadlock
<1>6. maybe_deadlock' = FALSE
  BY DEF WalkInv
<1> QED
  BY <1>1, <1>2, <1>3, <1>4, <1>5, <1>6 DEF WalkInv, VictimDeadlocked, NothingMissed

\* What every step of the walk proper leaves alone, and what it starts from.
LEMMA WalkFacts ==
  ASSUME WalkInv, pc = "walk"
  PROVE  /\ TypeOK /\ PathInv /\ TodoInv /\ ScannedInv /\ victim = None
         /\ path \in Seq(Requests) /\ Len(path) \in Nat /\ Len(path) \in 1 .. Len(path)
         /\ Top \in Requests /\ Top \in LRQ_deadlock
         /\ Top = path[Len(path)]
<1>1. TypeOK /\ PathInv /\ TodoInv /\ ScannedInv /\ victim = None
  BY DEF WalkInv
<1>2. path \in Seq(Requests) /\ Len(path) \in Nat /\ Len(path) > 0
  BY <1>1 DEF TypeOK, PathInv
<1>3. Len(path) \in 1 .. Len(path)
  BY <1>2
<1>4. path[Len(path)] \in Requests
  BY <1>2, <1>3, ElementOfSeq
<1> QED
  BY <1>1, <1>2, <1>3, <1>4 DEF Top, PathInv

\* A block that may still act, or a target that was scanned, is crossed off.
LEMMA CrossOffStep ==
  ASSUME WalkInv, maybe \/ \E q \in Requests : skip(q)
  PROVE  WalkInv'
<1> PICK x \in Requests \cup {None} :
      /\ pc = "walk" /\ x \in todo[Top]
      /\ todo' = [todo EXCEPT ![Top] = @ \ {x}]
      /\ \/ x = None /\ maybe_deadlock' = TRUE
         \/ x \in LRQ_scanned /\ maybe_deadlock' = maybe_deadlock
      /\ UNCHANGED <<request, graph, path, LRQ_deadlock, LRQ_scanned, victim, pc>>
  BY DEF maybe, skip
<1> USE WalkAssumption DEF WalkAssumption, graph
<1>1. /\ TypeOK /\ PathInv /\ TodoInv /\ ScannedInv /\ victim = None
      /\ Top \in Requests /\ Top \in LRQ_deadlock
      /\ Len(path) \in 1 .. Len(path) /\ Top = path[Len(path)] /\ Len(path) \in Nat
  BY WalkFacts
<1>2. TypeOK'
  BY <1>1 DEF TypeOK
<1>3. PathInv'
  BY <1>1 DEF PathInv
<1>4. TodoInv'
  <2> SUFFICES ASSUME NEW i \in 1 .. Len(path)
               PROVE  /\ todo'[path[i]] \subseteq Blocks(path[i])
                      /\ waits[path[i]] \subseteq todo'[path[i]] \cup LRQ_scanned
                           \cup (IF i < Len(path) THEN {path[i + 1]} ELSE {})
                      /\ path[i] \in undecided => None \in todo'[path[i]] \/ maybe_deadlock'
    BY DEF TodoInv, Blocks
  <2>1. path[i] \in Requests /\ waits[path[i]] \subseteq Requests
    BY <1>1, ElementOfSeq DEF TypeOK
  <2>2. /\ todo[path[i]] \subseteq Blocks(path[i])
        /\ waits[path[i]] \subseteq todo[path[i]] \cup LRQ_scanned
             \cup (IF i < Len(path) THEN {path[i + 1]} ELSE {})
        /\ path[i] \in undecided => None \in todo[path[i]] \/ maybe_deadlock
    BY <1>1 DEF TodoInv
  <2>3. todo'[path[i]] = IF path[i] = Top THEN todo[path[i]] \ {x} ELSE todo[path[i]]
    BY <1>1, <2>1 DEF TypeOK
  <2>4. todo'[path[i]] \subseteq Blocks(path[i])
    BY <2>2, <2>3
  <2>5. waits[path[i]] \subseteq todo'[path[i]] \cup LRQ_scanned
          \cup (IF i < Len(path) THEN {path[i + 1]} ELSE {})
    BY <2>1, <2>2, <2>3
  <2>6. path[i] \in undecided => None \in todo'[path[i]] \/ maybe_deadlock'
    BY <1>1, <2>2, <2>3 DEF TypeOK
  <2> QED
    BY <2>4, <2>5, <2>6
<1>5. ScannedInv'
  BY <1>1 DEF ScannedInv, Deadlock, TypeOK
<1>6. maybe_deadlock' => undecided \cap (LRQ_scanned \cup LRQ_deadlock) # {}
  <2>1. CASE x = None
    <3>1. None \in Blocks(Top)
      BY <1>1, <2>1 DEF TodoInv
    <3>2. Top \in undecided
      BY <1>1, <3>1 DEF Blocks, TypeOK
    <3> QED
      BY <1>1, <3>2
  <2>2. CASE x # None
    BY <2>2 DEF WalkInv
  <2> QED
    BY <2>1, <2>2
<1> QED
  BY <1>1, <1>2, <1>3, <1>4, <1>5, <1>6 DEF WalkInv, VictimDeadlocked, NothingMissed

\* A target on the path closes a cycle: the requests on the path from it on.
LEMMA FoundStep ==
  ASSUME WalkInv, NEW q \in Requests, found(q)
  PROVE  WalkInv'
<1> USE WalkAssumption DEF WalkAssumption, graph, found
<1>1. /\ TypeOK /\ PathInv /\ TodoInv
      /\ Top \in Requests /\ Top \in LRQ_deadlock
      /\ Len(path) \in 1 .. Len(path) /\ Top = path[Len(path)] /\ Len(path) \in Nat
  BY WalkFacts
<1>2. PICK k \in 1 .. Len(path) : path[k] = q
  BY <1>1 DEF PathInv
<1> DEFINE C == {path[i] : i \in k .. Len(path)}
<1>3. q \in waits[Top]
  BY <1>1 DEF TodoInv, Blocks, TypeOK
<1>4. C \in SUBSET Requests
  BY <1>1, <1>2, ElementOfSeq DEF TypeOK
<1>5. q \in C /\ C # {}
  BY <1>1, <1>2
<1>6. \A c \in C : waits[c] \cap C # {}
  <2> SUFFICES ASSUME NEW i \in k .. Len(path) PROVE waits[path[i]] \cap C # {}
    OBVIOUS
  <2>1. CASE i = Len(path)
    BY <1>1, <1>3, <1>5, <2>1
  <2>2. CASE i < Len(path)
    <3>1. i \in 1 .. Len(path) - 1 /\ i + 1 \in k .. Len(path)
      BY <1>1, <1>2, <2>2
    <3>2. path[i + 1] \in waits[path[i]]
      BY <1>1, <3>1 DEF PathInv
    <3> QED
      BY <3>1, <3>2
  <2> QED
    BY <1>1, <1>2, <2>1, <2>2
<1>7. VictimDeadlocked'
  <2>1. victim' = q /\ waits' = waits
    OBVIOUS
  <2>2. C # {} /\ \A c \in C : waits'[c] \cap C # {}
    BY <1>5, <1>6, <2>1
  <2> HIDE DEF C
  <2> QED
    BY <1>4, <1>5, <2>1, <2>2 DEF VictimDeadlocked, Deadlock
<1>8. TypeOK'
  BY <1>1 DEF TypeOK
<1>9. NothingMissed'
  BY DEF NothingMissed
<1> QED
  BY <1>7, <1>8, <1>9 DEF WalkInv

\* A new target is put on the path.
LEMMA DescendStep ==
  ASSUME WalkInv, NEW q \in Requests, descend(q)
  PROVE  WalkInv'
<1> USE WalkAssumption DEF WalkAssumption, graph, descend
<1> DEFINE n == Len(path)
<1>1. /\ TypeOK /\ PathInv /\ TodoInv /\ ScannedInv /\ victim = None
      /\ path \in Seq(Requests) /\ Top \in Requests /\ Top \in LRQ_deadlock
      /\ n \in 1 .. n /\ Top = path[n] /\ n \in Nat
  BY WalkFacts
<1>2. /\ path' \in Seq(Requests)
      /\ Len(path') = n + 1
      /\ \A i \in 1 .. n : path'[i] = path[i]
      /\ path'[n + 1] = q
  BY <1>1, AppendProperties
<1>3. q \in waits[Top] /\ q # Top
  BY <1>1 DEF TodoInv, Blocks, TypeOK
<1>4. TypeOK'
  BY <1>1, <1>2 DEF TypeOK, Blocks
<1>5. \A i \in 1 .. n : path[i] \in Requests /\ path[i] \in LRQ_deadlock /\ path[i] # q
  BY <1>1, ElementOfSeq DEF PathInv
<1>0. /\ todo' = [todo EXCEPT ![Top] = @ \ {q}, ![q] = Blocks(q)]
      /\ LRQ_deadlock' = LRQ_deadlock \cup {q} /\ q \notin LRQ_scanned
      /\ UNCHANGED <<request, waits, undecided, LRQ_scanned, victim, maybe_deadlock>>
      /\ pc' = "walk"
  OBVIOUS
<1> HIDE DEF n, descend
<1>6. PathInv'
  <2>1. Len(path') > 0 /\ path'[1] = request'
    BY <1>0, <1>1, <1>2 DEF PathInv, n
  <2>2. LRQ_deadlock' = {path'[i] : i \in 1 .. Len(path')}
    <3>1. LRQ_deadlock = {path[i] : i \in 1 .. n}
      BY <1>1 DEF PathInv, n
    <3>2. 1 .. n + 1 = (1 .. n) \cup {n + 1}
      BY <1>1
    <3>3. {path'[i] : i \in 1 .. n + 1} = {path[i] : i \in 1 .. n} \cup {q}
      BY <1>2, <3>2
    <3> QED
      BY <1>0, <1>2, <3>1, <3>3
  <2>3. \A i, j \in 1 .. Len(path') : path'[i] = path'[j] => i = j
    <3>1. \A i, j \in 1 .. n : path[i] = path[j] => i = j
      BY <1>1 DEF PathInv, n
    <3> SUFFICES ASSUME NEW i \in 1 .. n + 1, NEW j \in 1 .. n + 1, path'[i] = path'[j]
                 PROVE  i = j
      BY <1>2
    <3>2. (i \in 1 .. n \/ i = n + 1) /\ (j \in 1 .. n \/ j = n + 1)
      BY <1>1
    <3> QED
      BY <1>2, <1>5, <3>1, <3>2
  <2>4. \A i \in 1 .. Len(path') - 1 : path'[i + 1] \in waits'[path'[i]]
    <3> SUFFICES ASSUME NEW i \in 1 .. n PROVE path'[i + 1] \in waits[path[i]]
      BY <1>0, <1>1, <1>2
    <3>1. CASE i = n
      BY <1>1, <1>2, <1>3, <3>1
    <3>2. CASE i < n
      <4>1. i \in 1 .. n - 1 /\ i + 1 \in 1 .. n
        BY <1>1, <3>2
      <4>2. path[i + 1] \in waits[path[i]]
        BY <1>1, <4>1 DEF PathInv, n
      <4> QED
        BY <1>2, <4>1, <4>2
    <3> QED
      BY <1>1, <3>1, <3>2
  <2>5. (LRQ_deadlock \cap LRQ_scanned)' = {}
    BY <1>0, <1>1 DEF PathInv
  <2> QED
    BY <2>1, <2>2, <2>3, <2>4, <2>5 DEF PathInv
<1>7. TodoInv'
  <2> SUFFICES ASSUME NEW i \in 1 .. n + 1
               PROVE  /\ todo'[path'[i]] \subseteq Blocks(path'[i])
                      /\ waits[path'[i]] \subseteq todo'[path'[i]] \cup LRQ_scanned
                           \cup (IF i < n + 1 THEN {path'[i + 1]} ELSE {})
                      /\ path'[i] \in undecided => None \in todo'[path'[i]] \/ maybe_deadlock
    <3>1. UNCHANGED <<waits, undecided, LRQ_scanned, maybe_deadlock>>
      BY <1>0
    <3>2. \A r : Blocks(r)' = Blocks(r)
      BY <3>1 DEF Blocks
    <3>3. Len(path') = n + 1
      BY <1>2
    <3> QED
      BY <3>1, <3>2, <3>3, Zenon DEF TodoInv
  <2>1. CASE i = n + 1
    <3>1. path'[i] = q /\ todo'[q] = Blocks(q)
      BY <1>0, <1>1, <1>2, <2>1 DEF TypeOK
    <3> QED
      BY <3>1 DEF Blocks
  <2>2. CASE i \in 1 .. n
    <3>1. /\ path'[i] = path[i] /\ path[i] \in Requests /\ path[i] # q
          /\ waits[path[i]] \subseteq Requests
      BY <1>1, <1>2, <1>5, <2>2 DEF TypeOK
    <3>2. /\ todo[path[i]] \subseteq Blocks(path[i])
          /\ waits[path[i]] \subseteq todo[path[i]] \cup LRQ_scanned
               \cup (IF i < n THEN {path[i + 1]} ELSE {})
          /\ path[i] \in undecided => None \in todo[path[i]] \/ maybe_deadlock
      BY <1>1, <2>2 DEF TodoInv, n
    <3>3. todo'[path[i]] = IF path[i] = Top THEN todo[path[i]] \ {q} ELSE todo[path[i]]
      BY <1>0, <1>1, <3>1 DEF TypeOK
    <3>4. path[i] = Top => i = n
      BY <1>1, <2>2 DEF PathInv, n
    <3>5. i < n => i + 1 \in 1 .. n /\ path'[i + 1] = path[i + 1]
      BY <1>1, <1>2, <2>2
    <3>6. i = n => path'[i + 1] = q
      BY <1>2
    <3>7. i < n + 1 /\ (i < n \/ i = n)
      BY <1>1, <2>2
    <3>8. waits[path[i]] \subseteq todo'[path[i]] \cup LRQ_scanned \cup {path'[i + 1]}
      <4>1. CASE i < n
        <5>1. todo'[path[i]] = todo[path[i]]
          BY <1>1, <3>3, <3>4, <4>1
        <5> QED
          BY <3>2, <3>5, <4>1, <5>1
      <4>2. CASE i = n
        <5>1. ~(i < n)
          BY <1>1, <4>2
        <5> QED
          BY <3>2, <3>3, <3>6, <4>2, <5>1
      <4> QED
        BY <3>7, <4>1, <4>2
    <3> QED
      BY <3>1, <3>2, <3>3, <3>7, <3>8
  <2> QED
    BY <1>1, <2>1, <2>2
<1>8. ScannedInv'
  BY <1>0, <1>1 DEF ScannedInv, Deadlock
<1>9. maybe_deadlock' => (undecided \cap (LRQ_scanned \cup LRQ_deadlock))' # {}
  BY <1>0 DEF WalkInv, descend
<1> QED
  BY <1>0, <1>1, <1>4, <1>6, <1>7, <1>8, <1>9 DEF WalkInv, VictimDeadlocked, NothingMissed

\* An exhausted branch is put behind the walk; the last one ends it.
LEMMA ExhaustedStep ==
  ASSUME WalkInv, exhausted
  PROVE  WalkInv'
<1> USE WalkAssumption DEF WalkAssumption, graph, exhausted
<1> DEFINE n == Len(path)
<1>1. /\ TypeOK /\ PathInv /\ TodoInv /\ ScannedInv /\ victim = None
      /\ path \in Seq(Requests) /\ Top \in Requests /\ Top \in LRQ_deadlock
      /\ n \in 1 .. n /\ Top = path[n] /\ n \in Nat
  BY WalkFacts
<1>2. /\ path' \in Seq(Requests)
      /\ Len(path') = n - 1
      /\ \A i \in 1 .. n - 1 : path'[i] = path[i]
  <2>1. \A i \in 1 .. n - 1 : path[i] \in Requests
    BY <1>1, ElementOfSeq
  <2> HIDE DEF n, exhausted
  <2>2. n - 1 \in Int /\ 1 \in Int /\ (n - 1) - 1 + 1 = n - 1 /\ (1 <= n - 1 \/ n - 1 = 0)
    BY <1>1
  <2>3. /\ SubSeq(path, 1, n - 1) \in Seq(Requests)
        /\ Len(SubSeq(path, 1, n - 1)) = IF 1 <= n - 1 THEN (n - 1) - 1 + 1 ELSE 0
        /\ \A i \in 1 .. (n - 1) - 1 + 1 : SubSeq(path, 1, n - 1)[i] = path[1 + i - 1]
    BY <2>1, <2>2, SubSeqProperties
  <2>4. path' = SubSeq(path, 1, n - 1)
    BY DEF n, exhausted
  <2> QED
    BY <1>1, <2>2, <2>3, <2>4
<1>3. waits[Top] \subseteq LRQ_scanned /\ (Top \in undecided => maybe_deadlock)
  BY <1>1 DEF TodoInv
<1>4. TypeOK'
  BY <1>1, <1>2 DEF TypeOK
<1>5. Top \notin LRQ_scanned
  BY <1>1 DEF PathInv
<1>0. /\ LRQ_deadlock' = LRQ_deadlock \ {Top} /\ LRQ_scanned' = LRQ_scanned \cup {Top}
      /\ pc = "walk" /\ todo[Top] = {} /\ (pc' = IF n = 1 THEN "done" ELSE "walk")
      /\ UNCHANGED <<request, waits, undecided, todo, victim, maybe_deadlock>>
  OBVIOUS
<1> HIDE DEF n, exhausted
<1>6. ScannedInv'
  <2>1. \A r \in LRQ_scanned' : waits'[r] \subseteq LRQ_scanned'
    BY <1>0, <1>1, <1>3 DEF ScannedInv
  <2>2. Acyclic(waits, LRQ_scanned \cup {Top})
    <3>1. Closed(waits, LRQ_scanned) /\ Acyclic(waits, LRQ_scanned)
      BY <1>1 DEF ScannedInv, Deadlock, Closed, Acyclic
    <3> QED
      BY <1>3, <1>5, <3>1, ScannedGrows
  <2>3. \A C \in SUBSET LRQ_scanned' : ~Deadlock(C)'
    BY <1>0, <2>2 DEF Deadlock, Acyclic
  <2>4. (undecided \cap LRQ_scanned)' # {} => maybe_deadlock'
    BY <1>0, <1>1, <1>3 DEF ScannedInv
  <2> QED
    BY <1>0, <2>1, <2>3, <2>4 DEF ScannedInv
<1>7. LRQ_scanned' \cup LRQ_deadlock' = LRQ_scanned \cup LRQ_deadlock
  BY <1>0, <1>1
<1>8. maybe_deadlock' => (undecided \cap (LRQ_scanned \cup LRQ_deadlock))' # {}
  BY <1>0, <1>7 DEF WalkInv
<1>9. CASE n = 1
  <2>1. Top = request /\ LRQ_deadlock = {Top}
    <3>1. 1 .. n = {1}
      BY <1>0, <1>9
    <3> QED
      BY <1>1, <1>9, <3>1 DEF PathInv, n
  <2>2. NothingMissed'
    BY <1>0, <1>6, <1>8, <2>1 DEF NothingMissed, ScannedInv
  <2> QED
    BY <1>0, <1>1, <1>4, <1>9, <2>2 DEF WalkInv, VictimDeadlocked
<1>10. CASE n # 1
  <2>1. n > 1 /\ pc' = "walk" /\ n - 1 \in Nat /\ n - 1 \in 1 .. n
    BY <1>0, <1>1, <1>10
  <2>2. PathInv'
    <3>1. Len(path') > 0 /\ path'[1] = request'
      BY <1>0, <1>1, <1>2, <2>1 DEF PathInv, n
    <3>2. LRQ_deadlock' = {path'[i] : i \in 1 .. Len(path')}
      <4>1. LRQ_deadlock = {path[i] : i \in 1 .. n} /\ \A i, j \in 1 .. n : path[i] = path[j] => i = j
        BY <1>0, <1>1 DEF PathInv, n
      <4>2. 1 .. n = (1 .. n - 1) \cup {n} /\ n \notin 1 .. n - 1
        BY <1>0, <1>1, <2>1
      <4>3. \A i \in 1 .. n - 1 : path[i] # Top
        BY <1>0, <1>1, <4>1, <4>2
      <4>4. {path[i] : i \in 1 .. n} \ {Top} = {path[i] : i \in 1 .. n - 1}
        BY <1>0, <1>1, <4>2, <4>3
      <4>5. {path'[i] : i \in 1 .. n - 1} = {path[i] : i \in 1 .. n - 1}
        BY <1>0, <1>2
      <4> QED
        BY <1>0, <1>2, <4>1, <4>4, <4>5
    <3>3. \A i, j \in 1 .. Len(path') : path'[i] = path'[j] => i = j
      BY <1>0, <1>1, <1>2, <2>1 DEF PathInv, n
    <3>4. \A i \in 1 .. Len(path') - 1 : path'[i + 1] \in waits'[path'[i]]
      <4> SUFFICES ASSUME NEW i \in 1 .. n - 2 PROVE path'[i + 1] \in waits[path'[i]]
        BY <1>0, <1>1, <1>2
      <4>1. i \in 1 .. n - 1 /\ i + 1 \in 1 .. n - 1
        BY <1>0, <1>1, <2>1
      <4>2. path[i + 1] \in waits[path[i]]
        BY <1>0, <1>1, <4>1 DEF PathInv, n
      <4> QED
        BY <1>0, <1>2, <4>1, <4>2
    <3>5. (LRQ_deadlock \cap LRQ_scanned)' = {}
      BY <1>0, <1>1 DEF PathInv
    <3> QED
      BY <1>0, <3>1, <3>2, <3>3, <3>4, <3>5 DEF PathInv
  <2>3. TodoInv'
    <3> SUFFICES ASSUME NEW i \in 1 .. n - 1
                 PROVE  /\ todo[path[i]] \subseteq Blocks(path[i])
                        /\ waits[path[i]] \subseteq todo[path[i]] \cup LRQ_scanned'
                             \cup (IF i < n - 1 THEN {path'[i + 1]} ELSE {})
                        /\ path[i] \in undecided => None \in todo[path[i]] \/ maybe_deadlock
      <4>1. UNCHANGED <<waits, undecided, todo, maybe_deadlock>>
        BY <1>0
      <4>2. \A r : Blocks(r)' = Blocks(r)
        BY <4>1 DEF Blocks
      <4>3. Len(path') = n - 1 /\ \A i \in 1 .. n - 1 : path'[i] = path[i]
        BY <1>2
      <4> QED
        BY <4>1, <4>2, <4>3, Zenon DEF TodoInv
    <3>1. i \in 1 .. n /\ i < n
      BY <1>0, <1>1, <2>1
    <3>2. /\ todo[path[i]] \subseteq Blocks(path[i])
          /\ waits[path[i]] \subseteq todo[path[i]] \cup LRQ_scanned \cup {path[i + 1]}
          /\ path[i] \in undecided => None \in todo[path[i]] \/ maybe_deadlock
      BY <1>0, <1>1, <3>1 DEF TodoInv, n
    <3>3. CASE i = n - 1
      <4>1. path[i + 1] = Top
        BY <1>0, <1>1, <3>3
      <4> QED
        BY <1>0, <3>2, <4>1
    <3>4. CASE i < n - 1
      <4>1. i + 1 \in 1 .. n - 1
        BY <1>0, <1>1, <3>4
      <4> QED
        BY <1>0, <1>2, <3>2, <3>4, <4>1
    <3> QED
      BY <1>0, <1>1, <3>3, <3>4
  <2> QED
    BY <1>0, <1>1, <1>4, <1>6, <1>8, <2>1, <2>2, <2>3 DEF WalkInv, VictimDeadlocked, NothingMissed
<1> QED
  BY <1>0, <1>9, <1>10

\* Every step keeps the invariant.
LEMMA WalkStep == WalkInv /\ [Next]_vars => WalkInv'
<1> SUFFICES ASSUME WalkInv, [Next]_vars PROVE WalkInv'
  OBVIOUS
<1>1. CASE \E r \in Requests : deadlock_scan(r)
  BY <1>1, ScanStep
<1>2. CASE maybe
  BY <1>2, CrossOffStep
<1>3. CASE exhausted
  BY <1>3, ExhaustedStep
<1>4. CASE \E q \in Requests : skip(q) \/ found(q) \/ descend(q)
  BY <1>4, CrossOffStep, FoundStep, DescendStep
<1>5. CASE UNCHANGED vars
  BY <1>5 DEF vars, graph, WalkInv, TypeOK, PathInv, TodoInv, ScannedInv, Blocks, Deadlock,
               VictimDeadlocked, NothingMissed
<1> QED
  BY <1>1, <1>2, <1>3, <1>4, <1>5 DEF Next, Walk

\* deadlock_walk returns only a request that is part of a deadlock, whatever the
\* wait-for graph and the marks of earlier scans.
THEOREM VictimsAreDeadlocked == Spec => []VictimDeadlocked
<1>1. WalkInv => VictimDeadlocked
  BY DEF WalkInv
<1> QED
  BY <1>1, WalkInit, WalkStep, PTL DEF Spec

\* When deadlock_walk returns NULL, all that the request waits for has been seen
\* and holds no deadlock, and an owner that may still act has been reported.
THEOREM NoDeadlockIsMissed == Spec => []NothingMissed
<1>1. WalkInv => NothingMissed
  BY DEF WalkInv
<1> QED
  BY <1>1, WalkInit, WalkStep, PTL DEF Spec
=============================================================================
