------------------------------ MODULE SrqProofs ------------------------------
(* Proofs about Srq, for any number of queues, entries and deaths: what a    *)
(* death cuts short, the next thread in the table completes or undoes.       *)
EXTENDS Srq, Integers, SequenceTheorems, TLAPS

(***************************************************************************)
(* The removal of an element from a sequence.                               *)
(***************************************************************************)

\* What is left is a sequence of the other elements, each at most one place
\* further to the front.
LEMMA RemoveAtIs ==
  ASSUME NEW S, NEW s \in Seq(S), NEW k \in 1 .. Len(s)
  PROVE  /\ RemoveAt(s, k) \in Seq(S)
         /\ Len(RemoveAt(s, k)) = Len(s) - 1
         /\ \A i \in 1 .. Len(s) - 1 : RemoveAt(s, k)[i] = IF i < k THEN s[i] ELSE s[i + 1]
<1> DEFINE a == SubSeq(s, 1, k - 1)
           b == SubSeq(s, k + 1, Len(s))
<1>1. a \in Seq(S) /\ b \in Seq(S)
  OBVIOUS
<1>2. Len(a) = k - 1 /\ \A i \in 1 .. k - 1 : a[i] = s[i]
  OBVIOUS
<1>3. Len(b) = Len(s) - k /\ \A i \in 1 .. Len(s) - k : b[i] = s[k + i]
  OBVIOUS
<1>4. RemoveAt(s, k) = a \o b
  BY DEF RemoveAt
<1> HIDE DEF a, b
<1>5. Len(a \o b) = Len(s) - 1
  BY <1>1, <1>2, <1>3
<1>6. a \o b \in Seq(S)
  BY <1>1
<1>7. \A i \in 1 .. Len(s) - 1 : (a \o b)[i] = IF i < k THEN s[i] ELSE s[i + 1]
  BY <1>1, <1>2, <1>3
<1> QED
  BY <1>4, <1>5, <1>6, <1>7

\* RemoveFirst takes out an element that occurs once.
LEMMA RemoveFirstIs ==
  ASSUME NEW S, NEW s \in Seq(S), NEW k \in 1 .. Len(s), \A i \in 1 .. Len(s) : s[i] = s[k] => i = k
  PROVE  RemoveFirst(s, s[k]) = RemoveAt(s, k)
<1> DEFINE I == {i \in 1 .. Len(s) : s[i] = s[k]}
<1>1. I = {k}
  OBVIOUS
<1>2. Min(I) = k
  BY <1>1 DEF Min
<1>3. RemoveFirst(s, s[k]) = RemoveAt(s, Min(I))
  BY <1>1 DEF RemoveFirst, SelectInSeq
<1> QED
  BY <1>2, <1>3

(***************************************************************************)
(* Rings: the links f and b against the contents c that the queues should   *)
(* have.                                                                   *)
(***************************************************************************)

Links == [Cells -> Cells]
Contents == [Queues -> Seq(Nodes)]

\* The cells of a queue in order: its head, its entries, its head again.
At(c, q, i) == IF i \in 1 .. Len(c[q]) THEN c[q][i] ELSE q
Places(c, q) == 0 .. Len(c[q])

\* Cell i and the next one are linked in both directions.
Joined(f, b, c, q, i) ==
  f[At(c, q, i)] = At(c, q, i + 1) /\ b[At(c, q, i + 1)] = At(c, q, i)

\* All neighbours are, or all but those behind cell k of queue r.
AllJoined(f, b, c) == \A q \in Queues : \A i \in Places(c, q) : Joined(f, b, c, q, i)
AllBut(f, b, c, r, k) ==
  \A q \in Queues : \A i \in Places(c, q) : (q = r /\ i = k) \/ Joined(f, b, c, q, i)

\* No entry is in two places.
Once(c) ==
  \A q, r \in Queues : \A i \in 1 .. Len(c[q]), j \in 1 .. Len(c[r]) :
    c[q][i] = c[r][j] => q = r /\ i = j

\* n is an entry of no queue, linked to itself, linked between cell k and the next.
Out(c, n) == \A q \in Queues : \A i \in 1 .. Len(c[q]) : c[q][i] # n
Self(f, b, n) == f[n] = n /\ b[n] = n
Between(f, b, c, n, q, k) == f[n] = At(c, q, k + 1) /\ b[n] = At(c, q, k)

\* Heads are no entries.
LEMMA Kinds ==
  /\ Queues \cap Nodes = {} /\ Nil \notin Queues /\ Nil \notin Nodes /\ Nil \notin Cells
  /\ Queues \subseteq Cells /\ Nodes \subseteq Cells
BY SrqAssumption DEF Cells

\* What the cells are.
LEMMA AtType ==
  ASSUME NEW c \in Contents, NEW q \in Queues
  PROVE  /\ Len(c[q]) \in Nat
         /\ \A i \in 1 .. Len(c[q]) : At(c, q, i) = c[q][i] /\ At(c, q, i) \in Nodes
         /\ \A i : At(c, q, i) \in Cells
         /\ At(c, q, 0) = q /\ At(c, q, Len(c[q]) + 1) = q
<1>1. c[q] \in Seq(Nodes)
  BY DEF Contents
<1>2. \A i \in 1 .. Len(c[q]) : c[q][i] \in Nodes
  BY <1>1
<1>3. Len(c[q]) \in Nat
  BY <1>1
<1> QED
  BY <1>2, <1>3, Kinds DEF At

\* A cell that is in no queue is none of them.
LEMMA AtOut ==
  ASSUME NEW c \in Contents, NEW n \in Nodes, Out(c, n), NEW q \in Queues, NEW i
  PROVE  At(c, q, i) # n
BY Kinds DEF At, Out

\* Each cell stands in one place.
LEMMA AtOnce ==
  ASSUME NEW c \in Contents, Once(c), NEW q \in Queues, NEW r \in Queues,
         NEW i \in Places(c, q), NEW j \in Places(c, r)
  PROVE  /\ At(c, q, i) = At(c, r, j) => q = r /\ i = j
         /\ At(c, q, i + 1) = At(c, r, j + 1) => q = r /\ i = j
<1> DEFINE m == Len(c[q])
           n == Len(c[r])
<1>1. m \in Nat /\ n \in Nat /\ i \in 0 .. m /\ j \in 0 .. n
  BY AtType DEF Places
<1>2. /\ \A x \in 1 .. m : At(c, q, x) = c[q][x] /\ At(c, q, x) \in Nodes
      /\ \A x \in 1 .. n : At(c, r, x) = c[r][x] /\ At(c, r, x) \in Nodes
      /\ At(c, q, 0) = q /\ At(c, q, m + 1) = q /\ At(c, r, 0) = r /\ At(c, r, n + 1) = r
  BY AtType
<1>3. \A x \in 1 .. m, y \in 1 .. n : c[q][x] = c[r][y] => q = r /\ x = y
  BY DEF Once
<1>4. q \notin Nodes /\ r \notin Nodes
  BY Kinds
<1>5. q = r => m = n
  OBVIOUS
<1> HIDE DEF m, n
<1>6. At(c, q, i) = At(c, r, j) => q = r /\ i = j
  <2>1. (i = 0 \/ i \in 1 .. m) /\ (j = 0 \/ j \in 1 .. n)
    BY <1>1
  <2> QED
    BY <1>2, <1>3, <1>4, <2>1
<1>7. At(c, q, i + 1) = At(c, r, j + 1) => q = r /\ i = j
  <2>1. (i = m \/ i + 1 \in 1 .. m) /\ (j = n \/ j + 1 \in 1 .. n)
    BY <1>1
  <2>2. i + 1 = j + 1 => i = j
    BY <1>1
  <2> QED
    BY <1>2, <1>3, <1>4, <1>5, <2>1, <2>2
<1> QED
  BY <1>6, <1>7

\* A store to a link that a gap leaves open disturbs nothing.
LEMMA StoreForward ==
  ASSUME NEW f \in Links, NEW b \in Links, NEW c \in Contents, Once(c),
         NEW r \in Queues, NEW k \in Places(c, r), AllBut(f, b, c, r, k), NEW y
  PROVE  AllBut([f EXCEPT ![At(c, r, k)] = y], b, c, r, k)
<1> SUFFICES ASSUME NEW q \in Queues, NEW i \in Places(c, q), ~(q = r /\ i = k)
             PROVE  Joined([f EXCEPT ![At(c, r, k)] = y], b, c, q, i)
  BY DEF AllBut
<1>1. Joined(f, b, c, q, i)
  BY DEF AllBut
<1>2. At(c, q, i) # At(c, r, k)
  BY AtOnce
<1>3. At(c, q, i) \in Cells
  BY AtType
<1> QED
  BY <1>1, <1>2, <1>3 DEF Joined, Links

\* So for the links backwards.
LEMMA StoreBackward ==
  ASSUME NEW f \in Links, NEW b \in Links, NEW c \in Contents, Once(c),
         NEW r \in Queues, NEW k \in Places(c, r), AllBut(f, b, c, r, k), NEW y
  PROVE  AllBut(f, [b EXCEPT ![At(c, r, k + 1)] = y], c, r, k)
<1> SUFFICES ASSUME NEW q \in Queues, NEW i \in Places(c, q), ~(q = r /\ i = k)
             PROVE  Joined(f, [b EXCEPT ![At(c, r, k + 1)] = y], c, q, i)
  BY DEF AllBut
<1>1. Joined(f, b, c, q, i)
  BY DEF AllBut
<1>2. At(c, q, i + 1) # At(c, r, k + 1)
  BY AtOnce
<1>3. At(c, q, i + 1) \in Cells
  BY AtType
<1> QED
  BY <1>1, <1>2, <1>3 DEF Joined, Links

\* Nor does a store to the links of an entry that is in no queue.
LEMMA StoreOut ==
  ASSUME NEW f \in Links, NEW b \in Links, NEW c \in Contents,
         NEW n \in Nodes, Out(c, n), NEW y, NEW z
  PROVE  /\ AllJoined(f, b, c) => AllJoined([f EXCEPT ![n] = y], [b EXCEPT ![n] = z], c)
         /\ \A r, k : AllBut(f, b, c, r, k) =>
                        /\ AllBut([f EXCEPT ![n] = y], b, c, r, k)
                        /\ AllBut(f, [b EXCEPT ![n] = z], c, r, k)
<1>1. ASSUME NEW q \in Queues, NEW i, Joined(f, b, c, q, i)
      PROVE  /\ Joined([f EXCEPT ![n] = y], [b EXCEPT ![n] = z], c, q, i)
             /\ Joined([f EXCEPT ![n] = y], b, c, q, i)
             /\ Joined(f, [b EXCEPT ![n] = z], c, q, i)
  <2>1. At(c, q, i) # n /\ At(c, q, i + 1) # n
    BY AtOut
  <2>2. At(c, q, i) \in Cells /\ At(c, q, i + 1) \in Cells
    BY AtType
  <2> QED
    BY <1>1, <2>1, <2>2 DEF Joined, Links
<1>2. AllJoined(f, b, c) => AllJoined([f EXCEPT ![n] = y], [b EXCEPT ![n] = z], c)
  BY <1>1 DEF AllJoined
<1>3. ASSUME NEW r, NEW k, AllBut(f, b, c, r, k)
      PROVE  AllBut([f EXCEPT ![n] = y], b, c, r, k) /\ AllBut(f, [b EXCEPT ![n] = z], c, r, k)
  BY <1>1, <1>3 DEF AllBut
<1> QED
  BY <1>2, <1>3

\* A gap is where nothing is missing, or where it is closed.
LEMMA Gaps ==
  ASSUME NEW f, NEW b, NEW c, NEW r, NEW k
  PROVE  /\ AllJoined(f, b, c) => AllBut(f, b, c, r, k)
         /\ AllBut(f, b, c, r, k) /\ Joined(f, b, c, r, k) => AllJoined(f, b, c)
BY DEF AllJoined, AllBut

\* The contents with n at the end of queue q.
Extended(c, q, n) == [c EXCEPT ![q] = Append(@, n)]

\* An entry whose insertion takes effect closes the gap at the end of its queue.
LEMMA AppendJoined ==
  ASSUME NEW f \in Links, NEW b \in Links, NEW c \in Contents, Once(c),
         NEW q \in Queues, NEW n \in Nodes, Out(c, n),
         AllBut(f, b, c, q, Len(c[q])),
         f[n] = q, b[n] = At(c, q, Len(c[q])),
         f[At(c, q, Len(c[q]))] = n, b[q] = n
  PROVE  /\ Extended(c, q, n) \in Contents /\ Once(Extended(c, q, n))
         /\ AllJoined(f, b, Extended(c, q, n))
         /\ \A m : m # n /\ Out(c, m) => Out(Extended(c, q, n), m)
<1> DEFINE l == Len(c[q])
           d == Extended(c, q, n)
<1>1. c[q] \in Seq(Nodes) /\ l \in Nat
  BY DEF Contents
<1>2. d \in Contents /\ d[q] = Append(c[q], n) /\ \A r \in Queues : r # q => d[r] = c[r]
  BY <1>1 DEF Contents, Extended
<1>3. Len(d[q]) = l + 1 /\ d[q][l + 1] = n /\ \A i \in 1 .. l : d[q][i] = c[q][i]
  BY <1>1, <1>2, AppendProperties
<1>4. \A i \in 1 .. l + 1 : i \in 1 .. l \/ i = l + 1
  BY <1>1
<1> HIDE DEF l, d
<1>5. ASSUME NEW m, m # n, Out(c, m) PROVE Out(d, m)
  <2> SUFFICES ASSUME NEW r \in Queues, NEW i \in 1 .. Len(d[r]) PROVE d[r][i] # m
    BY DEF Out
  <2>1. CASE r # q
    BY <1>2, <1>5, <2>1 DEF Out
  <2>2. CASE r = q
    BY <1>3, <1>4, <1>5, <2>2 DEF Out, l
  <2> QED
    BY <2>1, <2>2
<1>6. Once(d)
  <2> SUFFICES ASSUME NEW r \in Queues, NEW s \in Queues,
                      NEW i \in 1 .. Len(d[r]), NEW j \in 1 .. Len(d[s]), d[r][i] = d[s][j]
               PROVE  r = s /\ i = j
    BY DEF Once
  <2>1. \A t \in Queues : \A x \in 1 .. Len(d[t]) :
          \/ x \in 1 .. Len(c[t]) /\ d[t][x] = c[t][x] /\ c[t][x] # n
          \/ t = q /\ x = l + 1 /\ d[t][x] = n
    <3> SUFFICES ASSUME NEW t \in Queues, NEW x \in 1 .. Len(d[t])
                 PROVE  \/ x \in 1 .. Len(c[t]) /\ d[t][x] = c[t][x] /\ c[t][x] # n
                        \/ t = q /\ x = l + 1 /\ d[t][x] = n
      OBVIOUS
    <3>1. CASE t # q
      BY <1>2, <3>1 DEF Out
    <3>2. CASE t = q
      BY <1>3, <1>4, <3>2 DEF Out, l
    <3> QED
      BY <3>1, <3>2
  <2>2. \A t, u \in Queues : \A x \in 1 .. Len(c[t]), y \in 1 .. Len(c[u]) :
          c[t][x] = c[u][y] => t = u /\ x = y
    BY DEF Once
  <2>3. CASE i \in 1 .. Len(c[r]) /\ d[r][i] = c[r][i] /\ c[r][i] # n
    <3>1. j \in 1 .. Len(c[s]) /\ d[s][j] = c[s][j]
      BY <2>1, <2>3
    <3>2. c[r][i] = c[s][j]
      BY <2>3, <3>1
    <3> QED
      BY <2>2, <2>3, <3>1, <3>2
  <2>4. CASE r = q /\ i = l + 1 /\ d[r][i] = n
    <3>1. s = q /\ j = l + 1
      BY <2>1, <2>4
    <3> QED
      BY <2>4, <3>1
  <2> QED
    BY <2>1, <2>3, <2>4
<1>7. ASSUME NEW r \in Queues, NEW i \in Places(d, r) PROVE Joined(f, b, d, r, i)
  <2>1. CASE r # q
    <3>1. \A x : At(d, r, x) = At(c, r, x)
      BY <1>2, <2>1 DEF At
    <3>2. i \in Places(c, r)
      BY <1>2, <2>1 DEF Places
    <3>3. Joined(f, b, c, r, i)
      BY <2>1, <3>2 DEF AllBut
    <3> QED
      BY <3>1, <3>3 DEF Joined
  <2>2. CASE r = q
    <3>1. At(d, q, l + 1) = n /\ At(d, q, l + 2) = q
      BY <1>1, <1>3 DEF At
    <3>2. \A x \in 0 .. l : At(d, q, x) = At(c, q, x)
      <4> SUFFICES ASSUME NEW x \in 0 .. l PROVE At(d, q, x) = At(c, q, x)
        OBVIOUS
      <4>1. x = 0 \/ x \in 1 .. l
        BY <1>1
      <4>2. x \in 1 .. l => x \in 1 .. l + 1
        BY <1>1
      <4>3. 0 \notin 1 .. l /\ 0 \notin 1 .. l + 1
        BY <1>1
      <4> QED
        BY <1>3, <4>1, <4>2, <4>3 DEF At, l
    <3>3. i \in 0 .. l - 1 \/ i = l \/ i = l + 1
      BY <1>1, <1>3, <2>2 DEF Places
    <3>4. CASE i \in 0 .. l - 1
      <4>1. i \in Places(c, q) /\ i # l /\ i \in 0 .. l /\ i + 1 \in 0 .. l
        BY <1>1, <3>4 DEF Places, l
      <4>2. Joined(f, b, c, q, i)
        BY <4>1 DEF AllBut, l
      <4> QED
        BY <2>2, <3>2, <4>1, <4>2 DEF Joined
    <3>5. CASE i = l
      <4>1. l \in 0 .. l
        BY <1>1
      <4> QED
        BY <2>2, <3>1, <3>2, <3>5, <4>1 DEF Joined, l
    <3>6. CASE i = l + 1
      <4>1. l + 1 + 1 = l + 2
        BY <1>1
      <4> QED
        BY <2>2, <3>1, <3>6, <4>1 DEF Joined
    <3> QED
      BY <3>3, <3>4, <3>5, <3>6
  <2> QED
    BY <2>1, <2>2
<1> QED
  BY <1>2, <1>5, <1>6, <1>7 DEF AllJoined, d

\* What RemoveFirst does to a queue that n is not in, and to its own.
LEMMA WithoutOut ==
  ASSUME NEW c \in Contents, NEW n \in Nodes, Out(c, n)
  PROVE  [q \in Queues |-> RemoveFirst(c[q], n)] = c
<1>1. ASSUME NEW q \in Queues PROVE RemoveFirst(c[q], n) = c[q]
  BY DEF RemoveFirst, Out
<1> QED
  BY <1>1 DEF Contents

\* An entry that is taken out leaves a gap, and is linked across it.
LEMMA RemoveJoined ==
  ASSUME NEW f \in Links, NEW b \in Links, NEW c \in Contents, Once(c), AllJoined(f, b, c),
         NEW n \in Nodes, ~Out(c, n),
         NEW d, d = [q \in Queues |-> RemoveFirst(c[q], n)]
  PROVE  /\ d \in Contents /\ Once(d) /\ Out(d, n)
         /\ \E q \in Queues : \E k \in Places(d, q) : Between(f, b, d, n, q, k) /\ AllBut(f, b, d, q, k)
         /\ \A m : Out(c, m) => Out(d, m)
<1>0. PICK q \in Queues : \E k \in 1 .. Len(c[q]) : c[q][k] = n
  BY DEF Out
<1>1. PICK k \in 1 .. Len(c[q]) : c[q][k] = n
  BY <1>0
<1>2. c[q][k] = n /\ RemoveFirst(c[q], n) = RemoveAt(c[q], k)
  <2>1. c[q] \in Seq(Nodes)
    BY DEF Contents
  <2>2. \A i \in 1 .. Len(c[q]) : c[q][i] = c[q][k] => i = k
    BY DEF Once
  <2> QED
    BY <1>1, <2>1, <2>2, RemoveFirstIs
<1> DEFINE l == Len(c[q])
<1>3. l \in Nat /\ k \in 1 .. l /\ c[q] \in Seq(Nodes)
  BY AtType DEF Contents
<1>4. /\ d[q] \in Seq(Nodes) /\ Len(d[q]) = l - 1
      /\ \A i \in 1 .. l - 1 : d[q][i] = IF i < k THEN c[q][i] ELSE c[q][i + 1]
  <2>1. d[q] = RemoveAt(c[q], k)
    BY <1>2
  <2>2. /\ RemoveAt(c[q], k) \in Seq(Nodes)
        /\ Len(RemoveAt(c[q], k)) = Len(c[q]) - 1
        /\ \A i \in 1 .. Len(c[q]) - 1 : RemoveAt(c[q], k)[i] = IF i < k THEN c[q][i] ELSE c[q][i + 1]
    BY <1>3, RemoveAtIs
  <2> QED
    BY <2>1, <2>2
<1>5. ASSUME NEW r \in Queues, r # q PROVE d[r] = c[r]
  <2>1. \A i \in 1 .. Len(c[r]) : c[r][i] # n
    BY <1>2, <1>5 DEF Once
  <2> QED
    BY <2>1 DEF RemoveFirst
<1>6. d \in Contents
  <2>1. \A r \in Queues : d[r] \in Seq(Nodes)
    BY <1>4, <1>5 DEF Contents
  <2> QED
    BY <2>1 DEF Contents
<1> HIDE DEF l
\* An entry of d is an entry of c.
<1>7. ASSUME NEW r \in Queues, NEW i \in 1 .. Len(d[r])
      PROVE  \E j \in 1 .. Len(c[r]) : /\ j = IF r = q /\ i >= k THEN i + 1 ELSE i
                                       /\ d[r][i] = c[r][j] /\ ~(r = q /\ j = k)
  <2>1. CASE r # q
    BY <1>5, <2>1
  <2>2. CASE r = q /\ i < k
    <3>1. i \in 1 .. l - 1 /\ i \in 1 .. l
      BY <1>3, <1>4, <2>2
    <3> QED
      BY <1>3, <1>4, <2>2, <3>1 DEF l
  <2>3. CASE r = q /\ i >= k
    <3>1. i \in 1 .. l - 1 /\ i + 1 \in 1 .. l /\ ~(i < k) /\ i + 1 # k
      BY <1>3, <1>4, <2>3
    <3> QED
      BY <1>3, <1>4, <2>3, <3>1 DEF l
  <2>4. i \in Nat /\ k \in Nat
    BY <1>3
  <2> QED
    BY <2>1, <2>2, <2>3, <2>4
<1>8. Once(d)
  <2> SUFFICES ASSUME NEW r \in Queues, NEW s \in Queues,
                      NEW i \in 1 .. Len(d[r]), NEW j \in 1 .. Len(d[s]), d[r][i] = d[s][j]
               PROVE  r = s /\ i = j
    BY DEF Once
  <2>1. PICK x \in 1 .. Len(c[r]) :
               d[r][i] = c[r][x] /\ x = IF r = q /\ i >= k THEN i + 1 ELSE i
    BY <1>7
  <2>2. PICK y \in 1 .. Len(c[s]) :
               d[s][j] = c[s][y] /\ y = IF s = q /\ j >= k THEN j + 1 ELSE j
    BY <1>7
  <2>3. r = s /\ x = y
    <3>1. \A t, u \in Queues : \A e \in 1 .. Len(c[t]), g \in 1 .. Len(c[u]) :
            c[t][e] = c[u][g] => t = u /\ e = g
      BY DEF Once
    <3>2. c[r][x] = c[s][y]
      BY <2>1, <2>2
    <3> QED
      BY <3>1, <3>2
  <2>4. i \in Nat /\ j \in Nat /\ k \in Nat
    BY <1>3
  <2> QED
    BY <2>1, <2>2, <2>3, <2>4
<1>9. ASSUME NEW m, Out(c, m) \/ m = n PROVE Out(d, m)
  <2> SUFFICES ASSUME NEW r \in Queues, NEW i \in 1 .. Len(d[r]) PROVE d[r][i] # m
    BY DEF Out
  <2>1. PICK x \in 1 .. Len(c[r]) : /\ x = IF r = q /\ i >= k THEN i + 1 ELSE i
                                    /\ d[r][i] = c[r][x] /\ ~(r = q /\ x = k)
    BY <1>7
  <2>2. CASE Out(c, m)
    BY <2>1, <2>2 DEF Out
  <2>3. CASE m = n
    BY <1>2, <2>1, <2>3 DEF Once
  <2> QED
    BY <1>9, <2>2, <2>3
<1>10. ASSUME NEW i \in 0 .. l PROVE At(d, q, i) = IF i < k THEN At(c, q, i) ELSE At(c, q, i + 1)
  <2>0. c[q][i] = c[q][i] /\ i \in Int /\ k \in Int
    BY <1>3
  <2>1. CASE i < k
    <3>1. i = 0 \/ (i \in 1 .. l - 1 /\ i \in 1 .. l)
      BY <1>3, <2>1
    <3>2. 0 \notin 1 .. l /\ 0 \notin 1 .. l - 1
      BY <1>3
    <3> QED
      BY <1>4, <2>1, <3>1, <3>2 DEF At, l
  <2>2. CASE ~(i < k) /\ i = l
    <3>1. l \notin 1 .. l - 1 /\ l + 1 \notin 1 .. l
      BY <1>3
    <3> QED
      BY <1>4, <2>2, <3>1 DEF At, l
  <2>3. CASE ~(i < k) /\ i # l
    <3>1. i \in 1 .. l - 1 /\ i + 1 \in 1 .. l
      BY <1>3, <2>3
    <3> QED
      BY <1>4, <2>3, <3>1 DEF At, l
  <2> QED
    BY <2>1, <2>2, <2>3
<1>11. /\ k - 1 \in 0 .. l - 1 /\ k - 1 \in 0 .. l /\ k \in 0 .. l /\ k - 1 < k
       /\ ~(k < k) /\ (k - 1) + 1 = k
  BY <1>3
<1>12. Joined(f, b, c, q, k) /\ Joined(f, b, c, q, k - 1)
  <2>1. k \in Places(c, q) /\ k - 1 \in Places(c, q)
    BY <1>11 DEF Places, l
  <2> QED
    BY <2>1 DEF AllJoined
<1>13. Between(f, b, d, n, q, k - 1)
  <2>1. At(c, q, k) = n
    BY <1>2 DEF At
  <2>2. At(d, q, k) = At(c, q, k + 1) /\ At(d, q, k - 1) = At(c, q, k - 1)
    BY <1>10, <1>11
  <2> QED
    BY <1>11, <1>12, <2>1, <2>2 DEF Joined, Between
<1>14. k - 1 \in Places(d, q)
  BY <1>4, <1>11 DEF Places
<1>15. AllBut(f, b, d, q, k - 1)
  <2> SUFFICES ASSUME NEW r \in Queues, NEW i \in Places(d, r), ~(r = q /\ i = k - 1)
               PROVE  Joined(f, b, d, r, i)
    BY DEF AllBut
  <2>1. CASE r # q
    <3>1. \A x : At(d, r, x) = At(c, r, x)
      BY <1>5, <2>1 DEF At
    <3>2. i \in Places(c, r)
      BY <1>5, <2>1 DEF Places
    <3>3. Joined(f, b, c, r, i)
      BY <3>2 DEF AllJoined
    <3> QED
      BY <3>1, <3>3 DEF Joined
  <2>2. CASE r = q
    <3>1. i \in 0 .. l - 1 /\ i # k - 1
      BY <1>4, <2>2 DEF Places
    <3>2. CASE i < k
      <4>1. i \in 0 .. l /\ i + 1 \in 0 .. l /\ i + 1 < k
        BY <1>3, <3>1, <3>2
      <4>2. At(d, q, i) = At(c, q, i) /\ At(d, q, i + 1) = At(c, q, i + 1)
        BY <1>10, <3>2, <4>1
      <4>3. i \in Places(c, q)
        BY <4>1 DEF Places, l
      <4>4. Joined(f, b, c, q, i)
        BY <4>3 DEF AllJoined
      <4> QED
        BY <2>2, <4>2, <4>4 DEF Joined
    <3>3. CASE ~(i < k)
      <4>1. i \in 0 .. l /\ i + 1 \in 0 .. l /\ ~(i + 1 < k)
        BY <1>3, <3>1, <3>3
      <4>2. At(d, q, i) = At(c, q, i + 1) /\ At(d, q, i + 1) = At(c, q, i + 1 + 1)
        BY <1>10, <3>3, <4>1
      <4>3. i + 1 \in Places(c, q)
        BY <4>1 DEF Places, l
      <4>4. Joined(f, b, c, q, i + 1)
        BY <4>3 DEF AllJoined
      <4> QED
        BY <2>2, <4>2, <4>4 DEF Joined
    <3> QED
      BY <3>2, <3>3
  <2> QED
    BY <2>1, <2>2
<1> QED
  BY <1>6, <1>8, <1>9, <1>13, <1>14, <1>15

(***************************************************************************)
(* The inductive invariant: what the routines and the secondary header say  *)
(* of the links.                                                           *)
(***************************************************************************)

\* The parameters of the routine that is under way.
Parameters ==
  /\ pc \in InsertSteps => que \in Queues
  /\ pc \in InsertSteps \cup RemoveSteps => node \in Nodes

\* An insertion is undone at the end of its queue, a removal completed between
\* the neighbours of the entry; nothing else is open.
MarkedGaps ==
  /\ InsertionUnderWay =>
       /\ shb_insert_prior = At(content, shb_insert_que, Len(content[shb_insert_que]))
       /\ AllBut(srq_forward, srq_backward, content, shb_insert_que, Len(content[shb_insert_que]))
  /\ shb_remove_node # Nil =>
       /\ Out(content, shb_remove_node)
       /\ \/ /\ AllJoined(srq_forward, srq_backward, content)
             /\ Self(srq_forward, srq_backward, shb_remove_node)
          \/ \E q \in Queues : \E k \in Places(content, q) :
               /\ Between(srq_forward, srq_backward, content, shb_remove_node, q, k)
               /\ AllBut(srq_forward, srq_backward, content, q, k)
  /\ ~InsertionUnderWay /\ shb_remove_node = Nil => AllJoined(srq_forward, srq_backward, content)

\* Which marks are set at which step.
Marks ==
  /\ pc # "idle" => lhb_active_owner # "none"
  /\ pc = "idle" => lhb_active_owner # "dummy"
  /\ pc \in InsertSteps \cup UndoSteps \cup {"remove_node", "init_node", "ready"} =>
       shb_remove_node = Nil
  /\ shb_remove_node # Nil => shb_insert_prior = Nil
  /\ shb_insert_prior # Nil /\ shb_insert_que = Nil => pc \in {"clear_prior", "undo_prior"}
  /\ pc \in {"ready", "insert_que", "insert_prior"} \cup RemoveSteps => shb_insert_prior = Nil
  /\ pc \in InsertSteps \ {"insert_que", "clear_prior"} => shb_insert_que = que
  /\ pc \in InsertSteps \ {"insert_que", "insert_prior", "clear_prior"} => InsertionUnderWay
  /\ pc \in UndoSteps \ {"undo_prior"} => InsertionUnderWay
  /\ pc \in {"clear_prior", "undo_prior"} => shb_insert_que = Nil
  /\ pc \in RemoveSteps \ {"remove_node", "init_node"} => shb_remove_node = node
  /\ pc = "idle" /\ lhb_active_owner = "none" => shb_insert_prior = Nil /\ shb_remove_node = Nil

\* How far the routine has come.
Progress ==
  /\ pc \in InsertSteps \ {"clear_prior"} => Out(content, node) /\ node \notin lost
  /\ pc \in {"node_forward", "node_backward", "prior_forward"} =>
       srq_backward[que] = shb_insert_prior
  /\ pc \in {"node_backward", "prior_forward", "que_backward", "clear_que"} =>
       srq_forward[node] = que
  /\ pc \in {"prior_forward", "que_backward", "clear_que"} => srq_backward[node] = shb_insert_prior
  /\ pc \in {"que_backward", "clear_que"} => srq_forward[shb_insert_prior] = node
  /\ pc = "clear_que" => srq_backward[que] = node
  /\ pc \in {"undo_forward", "undo_que"} => srq_backward[shb_insert_que] = shb_insert_prior
  /\ pc = "undo_que" => srq_forward[shb_insert_prior] = shb_insert_que
  /\ pc = "remove_node" => ~Out(content, node) \/ Self(srq_forward, srq_backward, node)
  /\ pc \in {"back_forward", "clear_node"} => srq_backward[srq_forward[node]] = srq_backward[node]
  /\ pc = "clear_node" => srq_forward[srq_backward[node]] = srq_forward[node]
  /\ pc = "init_node" => Out(content, node)

\* A lost entry is in no queue; one that is removed again is linked to itself
\* unless its removal is to be completed.
Lost ==
  /\ \A n \in lost : Out(content, n)
  /\ \A n \in again : \/ Self(srq_forward, srq_backward, n)
                      \/ shb_remove_node = n
                      \/ pc = "init_node" /\ node = n

SrqInv == TypeOK /\ Parameters /\ Once(content) /\ MarkedGaps /\ Marks /\ Progress /\ Lost

\* What the types are called here.
LEMMA Typed ==
  ASSUME TypeOK
  PROVE  srq_forward \in Links /\ srq_backward \in Links /\ content \in Contents
BY DEF TypeOK, Links, Contents

\* Empty queues.
LEMMA SrqInit == Init => SrqInv
<1> SUFFICES ASSUME Init PROVE SrqInv
  OBVIOUS
<1>1. \A q \in Queues : content[q] = <<>> /\ Len(content[q]) = 0
  BY DEF Init
<1>2. content \in [Queues -> Seq(Nodes)]
  BY DEF Init
<1>3. TypeOK
  BY <1>2, SrqAssumption DEF Init, TypeOK, Cells
<1>4. Parameters
  BY DEF Init, Parameters, InsertSteps, RemoveSteps
<1>5. Once(content)
  BY <1>1 DEF Once
<1>6. AllJoined(srq_forward, srq_backward, content)
  <2> SUFFICES ASSUME NEW q \in Queues, NEW i \in Places(content, q)
               PROVE  Joined(srq_forward, srq_backward, content, q, i)
    BY DEF AllJoined
  <2>1. At(content, q, i) = q /\ At(content, q, i + 1) = q
    BY <1>1 DEF At
  <2> QED
    BY <2>1, Kinds DEF Joined, Init
<1>7. MarkedGaps
  BY <1>6 DEF MarkedGaps, Init, InsertionUnderWay
<1>8. Marks
  BY DEF Marks, Init, InsertSteps, UndoSteps, RemoveSteps
<1>9. Progress
  BY DEF Progress, Init, InsertSteps
<1>10. Lost
  BY DEF Lost, Init
<1> QED
  BY <1>3, <1>4, <1>5, <1>7, <1>8, <1>9, <1>10 DEF SrqInv

\* Nothing of it depends on more than these variables.
LEMMA SrqStutter ==
  ASSUME SrqInv, UNCHANGED vars
  PROVE  SrqInv'
BY DEF SrqInv, vars, shb, TypeOK, Parameters, MarkedGaps, Marks, Progress, Lost, InsertionUnderWay

\* A thread enters the table.
LEMMA SrqAcquire ==
  ASSUME SrqInv, NEW a \in Actors, acquire_shmem(a)
  PROVE  SrqInv'
<1>1. a # "none" /\ a \in {"owner", "dummy"}
  BY DEF Actors
<1>2. TypeOK'
  BY <1>1 DEF acquire_shmem, SrqInv, TypeOK, shb, Steps, RemoveSteps, UndoSteps
<1>3. Parameters'
  BY DEF acquire_shmem, SrqInv, TypeOK, Parameters, shb, InsertSteps, RemoveSteps, UndoSteps
<1>4. Once(content)'
  BY DEF acquire_shmem, SrqInv
<1>5. MarkedGaps'
  BY DEF acquire_shmem, SrqInv, MarkedGaps, InsertionUnderWay, shb
<1>6. Marks'
  BY <1>1 DEF acquire_shmem, SrqInv, TypeOK, Marks, InsertionUnderWay, shb, InsertSteps, RemoveSteps, UndoSteps
<1>7. Progress'
  BY DEF acquire_shmem, Progress, InsertSteps
<1>8. Lost'
  BY DEF acquire_shmem, SrqInv, Lost, shb
<1> QED
  BY <1>2, <1>3, <1>4, <1>5, <1>6, <1>7, <1>8 DEF SrqInv

\* It finds out which owner it works for.
LEMMA SrqSetOwner ==
  ASSUME SrqInv, setOwner
  PROVE  SrqInv'
<1>1. TypeOK'
  BY DEF setOwner, SrqInv, TypeOK, shb
<1>2. Marks'
  BY DEF setOwner, SrqInv, Marks, InsertionUnderWay, shb
<1>3. Parameters' /\ Once(content)' /\ MarkedGaps' /\ Progress' /\ Lost'
  BY DEF setOwner, SrqInv, Parameters, MarkedGaps, Progress, Lost, InsertionUnderWay, shb
<1> QED
  BY <1>1, <1>2, <1>3 DEF SrqInv

\* It leaves.
LEMMA SrqRelease ==
  ASSUME SrqInv, release_shmem
  PROVE  SrqInv'
<1>1. TypeOK'
  BY DEF release_shmem, SrqInv, TypeOK, shb
<1>2. Marks'
  BY DEF release_shmem, SrqInv, Marks, InsertionUnderWay, shb, InsertSteps, RemoveSteps, UndoSteps
<1>3. Parameters' /\ Progress'
  BY DEF release_shmem, Parameters, Progress, InsertSteps, RemoveSteps
<1>4. Once(content)' /\ MarkedGaps' /\ Lost'
  BY DEF release_shmem, SrqInv, MarkedGaps, Lost, InsertionUnderWay, shb
<1> QED
  BY <1>1, <1>2, <1>3, <1>4 DEF SrqInv

\* An entry is in a queue if it is one of its elements.
LEMMA LinkedIn ==
  ASSUME TypeOK, NEW n \in Nodes
  PROVE  Linked(n) <=> ~Out(content, n)
<1>1. \A q \in Queues : n \in ToSet(content[q]) <=> \E i \in 1 .. Len(content[q]) : content[q][i] = n
  BY DEF ToSet
<1> QED
  BY <1>1 DEF Linked, Out

\* An insertion begins.
LEMMA SrqInsertTail ==
  ASSUME SrqInv, NEW q \in Queues, NEW n \in Nodes, insert_tail(q, n)
  PROVE  SrqInv'
<1>1. TypeOK'
  BY DEF insert_tail, SrqInv, TypeOK, shb, Steps, InsertSteps
<1>2. Parameters' /\ Once(content)' /\ MarkedGaps' /\ Lost'
  BY DEF insert_tail, SrqInv, Parameters, MarkedGaps, Lost, InsertionUnderWay, shb
<1>3. Marks'
  BY DEF insert_tail, SrqInv, Marks, InsertionUnderWay, shb, InsertSteps, RemoveSteps, UndoSteps
<1>4. Out(content, n) /\ n \notin lost
  BY LinkedIn DEF insert_tail, SrqInv
<1>5. Progress'
  BY <1>4 DEF insert_tail, Progress
<1> QED
  BY <1>1, <1>2, <1>3, <1>5 DEF SrqInv

\* A removal begins.
LEMMA SrqRemoveQue ==
  ASSUME SrqInv, NEW n \in Nodes, remove_que(n)
  PROVE  SrqInv'
<1>1. TypeOK'
  BY DEF remove_que, SrqInv, TypeOK, shb, Steps, RemoveSteps
<1>2. Parameters' /\ Once(content)' /\ MarkedGaps' /\ Lost'
  BY DEF remove_que, SrqInv, Parameters, MarkedGaps, Lost, InsertionUnderWay, shb, InsertSteps
<1>3. Marks'
  BY DEF remove_que, SrqInv, Marks, InsertionUnderWay, shb, InsertSteps, RemoveSteps, UndoSteps
<1>4. ~Out(content, n) \/ Self(srq_forward, srq_backward, n)
  <2>1. shb_remove_node = Nil /\ n # Nil
    BY Kinds DEF remove_que, SrqInv, Marks
  <2> QED
    BY <2>1, LinkedIn DEF remove_que, SrqInv, Lost
<1>5. Progress'
  BY <1>4 DEF remove_que, Progress, InsertSteps
<1> QED
  BY <1>1, <1>2, <1>3, <1>5 DEF SrqInv

\* The end of a queue: the gap that an insertion opens.
LEMMA EndOf ==
  ASSUME NEW c \in Contents, NEW q \in Queues
  PROVE  Len(c[q]) \in Places(c, q) /\ At(c, q, Len(c[q]) + 1) = q /\ At(c, q, Len(c[q])) \in Cells
BY AtType DEF Places

\* insert_tail notes the queue: nothing is open yet.
LEMMA SrqInsertQue ==
  ASSUME SrqInv,
         Note("insert_que", que, shb_insert_prior, shb_remove_node, content, "insert_prior")
  PROVE  SrqInv'
<1>1. que \in Queues /\ shb_insert_prior = Nil /\ shb_remove_node = Nil
  BY DEF Note, SrqInv, Parameters, Marks, InsertSteps
<1>2. TypeOK'
  BY <1>1 DEF Note, SrqInv, TypeOK, Steps, InsertSteps
<1>3. Parameters' /\ Once(content)' /\ Lost'
  BY DEF Note, SrqInv, Parameters, Lost, InsertSteps, RemoveSteps
<1>4. MarkedGaps'
  BY <1>1 DEF Note, SrqInv, MarkedGaps, InsertionUnderWay
<1>5. Marks'
  BY <1>1 DEF Note, SrqInv, Marks, InsertionUnderWay, InsertSteps, RemoveSteps, UndoSteps
<1>6. Progress'
  BY DEF Note, SrqInv, Progress, InsertSteps
<1> QED
  BY <1>2, <1>3, <1>4, <1>5, <1>6 DEF SrqInv

\* It notes the last entry: the gap at the end of the queue is marked.
LEMMA SrqInsertPrior ==
  ASSUME SrqInv,
         Note("insert_prior", shb_insert_que, srq_backward[que], shb_remove_node, content, "node_forward")
  PROVE  SrqInv'
<1> DEFINE l == Len(content[que])
<1>1. /\ que \in Queues /\ shb_insert_prior = Nil /\ shb_remove_node = Nil /\ shb_insert_que = que
      /\ que # Nil
  BY Kinds DEF Note, SrqInv, Parameters, Marks, InsertSteps
<1>2. srq_forward \in Links /\ srq_backward \in Links /\ content \in Contents
  BY Typed DEF SrqInv
<1>3. AllJoined(srq_forward, srq_backward, content)
  BY <1>1 DEF SrqInv, MarkedGaps, InsertionUnderWay
<1>4. l \in Places(content, que) /\ At(content, que, l + 1) = que /\ At(content, que, l) \in Cells
  BY <1>1, <1>2, EndOf
<1>5. srq_backward[que] = At(content, que, l)
  BY <1>1, <1>3, <1>4 DEF AllJoined, Joined
<1>6. AllBut(srq_forward, srq_backward, content, que, l)
  BY <1>3, Gaps
<1>7. srq_backward[que] \in Cells /\ srq_backward[que] # Nil
  BY <1>4, <1>5, Kinds
<1>8. TypeOK'
  BY <1>7 DEF Note, SrqInv, TypeOK, Steps, InsertSteps
<1>9. Parameters' /\ Once(content)' /\ Lost'
  BY DEF Note, SrqInv, Parameters, Lost, InsertSteps, RemoveSteps
<1>10. MarkedGaps'
  <2>1. /\ shb_insert_que' = que /\ shb_insert_prior' = srq_backward[que] /\ shb_remove_node' = Nil
        /\ content' = content /\ srq_forward' = srq_forward /\ srq_backward' = srq_backward
    BY <1>1 DEF Note
  <2>2. InsertionUnderWay'
    BY <1>1, <1>7, <2>1 DEF InsertionUnderWay
  <2> QED
    BY <1>5, <1>6, <2>1, <2>2 DEF MarkedGaps, l
<1>11. Marks'
  BY <1>1, <1>7 DEF Note, SrqInv, Marks, InsertionUnderWay, InsertSteps, RemoveSteps, UndoSteps
<1>12. Progress'
  BY DEF Note, SrqInv, Progress, InsertSteps
<1> QED
  BY <1>8, <1>9, <1>10, <1>11, <1>12 DEF SrqInv

\* A store to the links while an insertion is under way: what remains to be shown.
LEMMA SrqInsertStore ==
  ASSUME SrqInv, NEW f \in Links, NEW b \in Links, NEW step, NEW then,
         Store(step, f, b, then),
         \/ step = "node_forward" /\ then = "node_backward"
         \/ step = "node_backward" /\ then = "prior_forward"
         \/ step = "prior_forward" /\ then = "que_backward"
         \/ step = "que_backward" /\ then = "clear_que"
         \/ step = "undo_backward" /\ then = "undo_forward"
         \/ step = "undo_forward" /\ then = "undo_que",
         AllBut(f, b, content, shb_insert_que, Len(content[shb_insert_que])),
         \A n \in again : f[n] = srq_forward[n] /\ b[n] = srq_backward[n],
         Progress'
  PROVE  SrqInv'
<1>1. InsertionUnderWay /\ shb_remove_node = Nil
  BY DEF Store, SrqInv, Marks, InsertSteps, UndoSteps
<1>2. TypeOK'
  BY DEF Store, SrqInv, TypeOK, Links, Steps, InsertSteps, UndoSteps, shb
<1>3. Parameters' /\ Once(content)'
  BY DEF Store, SrqInv, Parameters, InsertSteps, RemoveSteps, UndoSteps, shb
<1>4. MarkedGaps'
  BY <1>1 DEF Store, SrqInv, MarkedGaps, InsertionUnderWay, shb
<1>5. Marks'
  BY <1>1 DEF Store, SrqInv, Marks, InsertionUnderWay, InsertSteps, RemoveSteps, UndoSteps, shb
<1>6. Lost'
  BY DEF Store, SrqInv, Lost, Self, shb
<1> QED
  BY <1>2, <1>3, <1>4, <1>5, <1>6 DEF SrqInv

\* Where the insertion is under way.
LEMMA UnderWay ==
  ASSUME SrqInv, InsertionUnderWay
  PROVE  LET q == shb_insert_que
             l == Len(content[q])
         IN /\ q \in Queues /\ l \in Places(content, q)
            /\ At(content, q, l) = shb_insert_prior /\ At(content, q, l + 1) = q
            /\ shb_insert_prior \in Cells
            /\ AllBut(srq_forward, srq_backward, content, q, l)
            /\ srq_forward \in Links /\ srq_backward \in Links /\ content \in Contents /\ Once(content)
            /\ \A n \in again : n \in Nodes /\ Out(content, n) /\ n # q /\ n # shb_insert_prior
<1>1. srq_forward \in Links /\ srq_backward \in Links /\ content \in Contents
  BY Typed DEF SrqInv
<1>2. shb_insert_que \in Queues
  BY DEF SrqInv, TypeOK, InsertionUnderWay
<1>3. /\ shb_insert_prior = At(content, shb_insert_que, Len(content[shb_insert_que]))
      /\ AllBut(srq_forward, srq_backward, content, shb_insert_que, Len(content[shb_insert_que]))
      /\ Once(content)
  BY DEF SrqInv, MarkedGaps
<1>4. \A n \in again : n \in Nodes /\ Out(content, n)
  BY DEF SrqInv, TypeOK, Lost
<1> QED
  BY <1>1, <1>2, <1>3, <1>4, EndOf, AtOut, Kinds

\* The entry is linked to the head and to the last entry.
LEMMA SrqNodeForward ==
  ASSUME SrqInv,
         Store("node_forward", [srq_forward EXCEPT ![node] = que], srq_backward, "node_backward")
  PROVE  SrqInv'
<1> DEFINE f == [srq_forward EXCEPT ![node] = que]
<1>1. /\ InsertionUnderWay /\ que = shb_insert_que /\ que \in Queues /\ node \in Nodes
      /\ Out(content, node) /\ node \notin lost
  BY DEF Store, SrqInv, Marks, Progress, Parameters, InsertSteps
<1>2. f \in Links /\ srq_backward \in Links /\ f[node] = que
  BY <1>1, Kinds, Typed DEF SrqInv, Links
<1>3. AllBut(f, srq_backward, content, shb_insert_que, Len(content[shb_insert_que]))
  BY <1>1, UnderWay, StoreOut
<1>4. \A n \in again : f[n] = srq_forward[n]
  BY <1>1 DEF SrqInv, TypeOK
<1>5. Progress'
  BY <1>1, <1>2 DEF Store, SrqInv, Progress, InsertSteps, shb
<1> HIDE DEF f
<1> QED
  BY <1>2, <1>3, <1>4, <1>5, SrqInsertStore DEF f

\* Backwards.
LEMMA SrqNodeBackward ==
  ASSUME SrqInv,
         Store("node_backward", srq_forward, [srq_backward EXCEPT ![node] = srq_backward[que]],
               "prior_forward")
  PROVE  SrqInv'
<1> DEFINE b == [srq_backward EXCEPT ![node] = srq_backward[que]]
<1>1. /\ InsertionUnderWay /\ que = shb_insert_que /\ que \in Queues /\ node \in Nodes
      /\ Out(content, node) /\ node \notin lost /\ srq_backward[que] = shb_insert_prior
      /\ que # node
  BY Kinds DEF Store, SrqInv, Marks, Progress, Parameters, InsertSteps
<1>2. srq_forward \in Links /\ b \in Links /\ b[node] = shb_insert_prior /\ b[que] = shb_insert_prior
  BY <1>1, Kinds, Typed DEF SrqInv, Links
<1>3. AllBut(srq_forward, b, content, shb_insert_que, Len(content[shb_insert_que]))
  BY <1>1, UnderWay, StoreOut
<1>4. \A n \in again : b[n] = srq_backward[n]
  BY <1>1 DEF SrqInv, TypeOK
<1>5. Progress'
  BY <1>1, <1>2 DEF Store, SrqInv, Progress, InsertSteps, shb
<1> HIDE DEF b
<1> QED
  BY <1>2, <1>3, <1>4, <1>5, SrqInsertStore DEF b

\* The last entry is linked to the new one.
LEMMA SrqPriorForward ==
  ASSUME SrqInv,
         Store("prior_forward", [srq_forward EXCEPT ![srq_backward[que]] = node], srq_backward,
               "que_backward")
  PROVE  SrqInv'
<1> DEFINE f == [srq_forward EXCEPT ![shb_insert_prior] = node]
<1>1. /\ InsertionUnderWay /\ que = shb_insert_que /\ que \in Queues /\ node \in Nodes
      /\ Out(content, node) /\ node \notin lost /\ srq_backward[que] = shb_insert_prior
  BY DEF Store, SrqInv, Marks, Progress, Parameters, InsertSteps
<1>2. shb_insert_prior \in Cells /\ node # shb_insert_prior
  BY <1>1, UnderWay, AtOut
<1>3. /\ f \in Links /\ srq_backward \in Links
      /\ f[shb_insert_prior] = node /\ f[node] = srq_forward[node]
  BY <1>1, <1>2, Kinds, Typed DEF SrqInv, Links
<1>4. AllBut(f, srq_backward, content, shb_insert_que, Len(content[shb_insert_que]))
  BY <1>1, UnderWay, StoreForward
<1>5. \A n \in again : f[n] = srq_forward[n]
  BY <1>1, UnderWay
<1>6. Progress'
  BY <1>1, <1>3 DEF Store, SrqInv, Progress, InsertSteps, shb
<1> HIDE DEF f
<1> QED
  BY <1>1, <1>3, <1>4, <1>5, <1>6, SrqInsertStore DEF f

\* And so is the head.
LEMMA SrqQueBackward ==
  ASSUME SrqInv,
         Store("que_backward", srq_forward, [srq_backward EXCEPT ![que] = node], "clear_que")
  PROVE  SrqInv'
<1> DEFINE b == [srq_backward EXCEPT ![que] = node]
<1>1. /\ InsertionUnderWay /\ que = shb_insert_que /\ que \in Queues /\ node \in Nodes
      /\ Out(content, node) /\ node \notin lost /\ que # node
  BY Kinds DEF Store, SrqInv, Marks, Progress, Parameters, InsertSteps
<1>2. /\ srq_forward \in Links /\ b \in Links
      /\ b[que] = node /\ b[node] = srq_backward[node]
  BY <1>1, Kinds, Typed DEF SrqInv, Links
<1>3. AllBut(srq_forward, b, content, shb_insert_que, Len(content[shb_insert_que]))
  BY <1>1, UnderWay, StoreBackward
<1>4. \A n \in again : b[n] = srq_backward[n]
  BY <1>1, UnderWay
<1>5. Progress'
  BY <1>1, <1>2 DEF Store, SrqInv, Progress, InsertSteps, shb
<1> HIDE DEF b
<1> QED
  BY <1>1, <1>2, <1>3, <1>4, <1>5, SrqInsertStore DEF b

\* The insertion takes effect.
LEMMA SrqClearQue ==
  ASSUME SrqInv,
         Note("clear_que", Nil, shb_insert_prior, shb_remove_node,
              [content EXCEPT ![que] = Append(@, node)], "clear_prior")
  PROVE  SrqInv'
<1> DEFINE d == Extended(content, que, node)
<1>1. /\ InsertionUnderWay /\ que = shb_insert_que /\ que \in Queues /\ node \in Nodes
      /\ Out(content, node) /\ node \notin lost /\ shb_remove_node = Nil
      /\ srq_forward[node] = que /\ srq_backward[node] = shb_insert_prior
      /\ srq_forward[shb_insert_prior] = node /\ srq_backward[que] = node
  BY DEF Note, SrqInv, Marks, Progress, Parameters, InsertSteps
<1>2. /\ d \in Contents /\ Once(d) /\ AllJoined(srq_forward, srq_backward, d)
      /\ \A m : m # node /\ Out(content, m) => Out(d, m)
  <2>1. /\ srq_forward \in Links /\ srq_backward \in Links /\ content \in Contents /\ Once(content)
        /\ AllBut(srq_forward, srq_backward, content, que, Len(content[que]))
        /\ At(content, que, Len(content[que])) = shb_insert_prior
    BY <1>1, UnderWay
  <2> QED
    BY <1>1, <2>1, AppendJoined
<1> HIDE DEF d
<1>3. content' = d
  BY DEF Note, d, Extended
<1>4. TypeOK'
  BY <1>2, <1>3 DEF Note, SrqInv, TypeOK, Contents, Steps, InsertSteps
<1>5. Parameters'
  BY DEF Note, SrqInv, Parameters, InsertSteps, RemoveSteps
<1>6. MarkedGaps'
  BY <1>1, <1>2, <1>3 DEF Note, MarkedGaps, InsertionUnderWay
<1>7. Marks'
  BY <1>1 DEF Note, SrqInv, Marks, InsertionUnderWay, InsertSteps, RemoveSteps, UndoSteps
<1>8. Progress'
  BY DEF Note, Progress, InsertSteps
<1>9. Lost'
  BY <1>1, <1>2, <1>3 DEF Note, SrqInv, Lost
<1> QED
  BY <1>2, <1>3, <1>4, <1>5, <1>6, <1>7, <1>8, <1>9 DEF SrqInv

\* insert_tail returns.
LEMMA SrqClearPrior ==
  ASSUME SrqInv, NEW step, step = "clear_prior" \/ step = "undo_prior",
         Note(step, shb_insert_que, Nil, shb_remove_node, content, "ready")
  PROVE  SrqInv'
<1>1. shb_insert_que = Nil /\ shb_remove_node = Nil
  BY DEF Note, SrqInv, Marks, InsertSteps, UndoSteps
<1>2. TypeOK'
  BY DEF Note, SrqInv, TypeOK
<1>3. Parameters' /\ Progress' /\ Once(content)' /\ Lost'
  BY DEF Note, SrqInv, Parameters, Progress, Lost, InsertSteps, RemoveSteps
<1>4. MarkedGaps'
  BY <1>1 DEF Note, SrqInv, MarkedGaps, InsertionUnderWay
<1>5. Marks'
  BY <1>1 DEF Note, SrqInv, Marks, InsertionUnderWay, InsertSteps, RemoveSteps, UndoSteps
<1> QED
  BY <1>2, <1>3, <1>4, <1>5 DEF SrqInv

\* The undoing of an insertion: the head is linked to what was the last entry.
LEMMA SrqUndoBackward ==
  ASSUME SrqInv,
         Store("undo_backward", srq_forward,
               [srq_backward EXCEPT ![shb_insert_que] = shb_insert_prior], "undo_forward")
  PROVE  SrqInv'
<1> DEFINE b == [srq_backward EXCEPT ![shb_insert_que] = shb_insert_prior]
<1>1. InsertionUnderWay
  BY DEF Store, SrqInv, Marks, UndoSteps
<1>2. /\ srq_forward \in Links /\ b \in Links /\ b[shb_insert_que] = shb_insert_prior
  BY <1>1, UnderWay, Kinds DEF Links
<1>3. AllBut(srq_forward, b, content, shb_insert_que, Len(content[shb_insert_que]))
  BY <1>1, UnderWay, StoreBackward
<1>4. \A n \in again : b[n] = srq_backward[n]
  BY <1>1, UnderWay
<1>5. Progress'
  BY <1>1, <1>2 DEF Store, SrqInv, Progress, InsertSteps, shb
<1> HIDE DEF b
<1> QED
  BY <1>1, <1>2, <1>3, <1>4, <1>5, SrqInsertStore DEF b

\* And that entry to the head.
LEMMA SrqUndoForward ==
  ASSUME SrqInv,
         Store("undo_forward", [srq_forward EXCEPT ![shb_insert_prior] = shb_insert_que],
               srq_backward, "undo_que")
  PROVE  SrqInv'
<1> DEFINE f == [srq_forward EXCEPT ![shb_insert_prior] = shb_insert_que]
<1>1. InsertionUnderWay /\ srq_backward[shb_insert_que] = shb_insert_prior
  BY DEF Store, SrqInv, Marks, Progress, UndoSteps
<1>2. /\ f \in Links /\ srq_backward \in Links /\ f[shb_insert_prior] = shb_insert_que
  BY <1>1, UnderWay, Kinds DEF Links
<1>3. AllBut(f, srq_backward, content, shb_insert_que, Len(content[shb_insert_que]))
  BY <1>1, UnderWay, StoreForward
<1>4. \A n \in again : f[n] = srq_forward[n]
  BY <1>1, UnderWay
<1>5. Progress'
  BY <1>1, <1>2 DEF Store, SrqInv, Progress, InsertSteps, shb
<1> HIDE DEF f
<1> QED
  BY <1>1, <1>2, <1>3, <1>4, <1>5, SrqInsertStore DEF f

\* The gap is closed, the mark can be reset.
LEMMA SrqUndoQue ==
  ASSUME SrqInv,
         Note("undo_que", Nil, shb_insert_prior, shb_remove_node, content, "undo_prior")
  PROVE  SrqInv'
<1>1. /\ InsertionUnderWay /\ shb_remove_node = Nil
      /\ srq_backward[shb_insert_que] = shb_insert_prior
      /\ srq_forward[shb_insert_prior] = shb_insert_que
  BY DEF Note, SrqInv, Marks, Progress, UndoSteps
<1>2. AllJoined(srq_forward, srq_backward, content)
  BY <1>1, UnderWay, Gaps DEF Joined
<1>3. TypeOK'
  BY DEF Note, SrqInv, TypeOK, Steps, UndoSteps
<1>4. Parameters' /\ Progress' /\ Once(content)' /\ Lost'
  BY DEF Note, SrqInv, Parameters, Progress, Lost, InsertSteps, RemoveSteps
<1>5. MarkedGaps'
  BY <1>1, <1>2 DEF Note, MarkedGaps, InsertionUnderWay
<1>6. Marks'
  BY <1>1 DEF Note, SrqInv, Marks, InsertionUnderWay, InsertSteps, RemoveSteps, UndoSteps
<1> QED
  BY <1>3, <1>4, <1>5, <1>6 DEF SrqInv

\* A removal is marked: it takes effect, or has nothing to do.
LEMMA SrqRemoveNode ==
  ASSUME SrqInv,
         Note("remove_node", shb_insert_que, shb_insert_prior, node, Without(node), "next_backward")
  PROVE  SrqInv'
<1> DEFINE d == Without(node)
<1>1. /\ node \in Nodes /\ shb_remove_node = Nil /\ shb_insert_prior = Nil /\ node # Nil
      /\ (~Out(content, node) \/ Self(srq_forward, srq_backward, node)) /\ Once(content)
  BY Kinds DEF Note, SrqInv, Marks, Progress, Parameters, RemoveSteps
<1>2. srq_forward \in Links /\ srq_backward \in Links /\ content \in Contents
  BY Typed DEF SrqInv
<1>3. AllJoined(srq_forward, srq_backward, content)
  BY <1>1 DEF SrqInv, MarkedGaps, InsertionUnderWay
<1>4. /\ d \in Contents /\ Once(d) /\ Out(d, node) /\ \A m : Out(content, m) => Out(d, m)
      /\ \/ AllJoined(srq_forward, srq_backward, d) /\ Self(srq_forward, srq_backward, node)
         \/ \E q \in Queues : \E k \in Places(d, q) :
              /\ Between(srq_forward, srq_backward, d, node, q, k)
              /\ AllBut(srq_forward, srq_backward, d, q, k)
  <2>1. CASE Out(content, node)
    <3>1. d = content
      BY <1>1, <1>2, <2>1, WithoutOut DEF Without
    <3> HIDE DEF d
    <3> QED
      BY <1>1, <1>2, <1>3, <2>1, <3>1
  <2>2. CASE ~Out(content, node)
    BY <1>1, <1>2, <1>3, <2>2, RemoveJoined DEF Without
  <2> QED
    BY <2>1, <2>2
<1> HIDE DEF d
<1>5. content' = d
  BY DEF Note, d
<1>6. TypeOK'
  BY <1>1, <1>4, <1>5 DEF Note, SrqInv, TypeOK, Contents, Steps, RemoveSteps
<1>7. Parameters'
  BY DEF Note, SrqInv, Parameters, InsertSteps, RemoveSteps
<1>8. MarkedGaps'
  <2>1. /\ srq_forward' = srq_forward /\ srq_backward' = srq_backward /\ shb_remove_node' = node
        /\ shb_insert_prior' = Nil
    BY <1>1 DEF Note
  <2> QED
    BY <1>1, <1>4, <1>5, <2>1 DEF MarkedGaps, InsertionUnderWay
<1>9. Marks'
  BY <1>1 DEF Note, SrqInv, Marks, InsertionUnderWay, InsertSteps, RemoveSteps, UndoSteps
<1>10. Progress'
  BY DEF Note, Progress, InsertSteps
<1>11. Lost'
  <2>1. \A n \in again : Self(srq_forward, srq_backward, n)
    <3>1. again \subseteq Nodes
      BY DEF SrqInv, TypeOK
    <3> QED
      BY <1>1, <3>1, Kinds DEF Note, SrqInv, Lost
  <2> QED
    BY <1>4, <1>5, <2>1 DEF Note, SrqInv, Lost
<1> QED
  BY <1>4, <1>5, <1>6, <1>7, <1>8, <1>9, <1>10, <1>11 DEF SrqInv

\* A store to the links while a removal is marked: what remains to be shown.
LEMMA SrqRemoveStore ==
  ASSUME SrqInv, NEW f \in Links, NEW b \in Links, NEW step, NEW then,
         Store(step, f, b, then),
         \/ step = "next_backward" /\ then = "back_forward"
         \/ step = "back_forward" /\ then = "clear_node",
         \/ /\ AllJoined(f, b, content)
            /\ Self(f, b, node)
         \/ \E q \in Queues : \E k \in Places(content, q) :
              Between(f, b, content, node, q, k) /\ AllBut(f, b, content, q, k),
         \A n \in again : n # node => f[n] = srq_forward[n] /\ b[n] = srq_backward[n],
         Progress'
  PROVE  SrqInv'
<1>1. shb_remove_node = node /\ shb_insert_prior = Nil /\ Out(content, node) /\ node # Nil
  BY Kinds DEF Store, SrqInv, Marks, MarkedGaps, Parameters, RemoveSteps
<1>2. TypeOK'
  BY DEF Store, SrqInv, TypeOK, Links, Steps, RemoveSteps, shb
<1>3. Parameters' /\ Once(content)'
  BY DEF Store, SrqInv, Parameters, InsertSteps, RemoveSteps, shb
<1>4. MarkedGaps'
  <2>1. /\ srq_forward' = f /\ srq_backward' = b /\ content' = content
        /\ shb_remove_node' = node /\ shb_insert_prior' = Nil
    BY <1>1 DEF Store, shb
  <2> QED
    BY <1>1, <2>1 DEF MarkedGaps, InsertionUnderWay
<1>5. Marks'
  BY <1>1 DEF Store, SrqInv, Marks, InsertionUnderWay, InsertSteps, RemoveSteps, UndoSteps, shb
<1>6. Lost'
  BY <1>1 DEF Store, SrqInv, Lost, Self, shb
<1> QED
  BY <1>2, <1>3, <1>4, <1>5, <1>6 DEF SrqInv

\* Where a removal is under way: the entry is linked to itself, or across a gap.
LEMMA Removal ==
  ASSUME SrqInv, pc \in RemoveSteps \ {"remove_node", "init_node"}
  PROVE  /\ node \in Nodes /\ Out(content, node) /\ shb_remove_node = node
         /\ shb_insert_prior = Nil /\ Once(content)
         /\ srq_forward \in Links /\ srq_backward \in Links /\ content \in Contents
         /\ \/ AllJoined(srq_forward, srq_backward, content) /\ Self(srq_forward, srq_backward, node)
            \/ \E q \in Queues : \E k \in Places(content, q) :
                 /\ Between(srq_forward, srq_backward, content, node, q, k)
                 /\ AllBut(srq_forward, srq_backward, content, q, k)
         /\ \A n \in again : n \in Nodes /\ Out(content, n)
<1>1. node \in Nodes /\ node # Nil /\ shb_remove_node = node /\ shb_insert_prior = Nil
  BY Kinds DEF SrqInv, Marks, Parameters, RemoveSteps
<1>2. srq_forward \in Links /\ srq_backward \in Links /\ content \in Contents
  BY Typed DEF SrqInv
<1>3. again \subseteq Nodes /\ again \subseteq lost
  BY DEF SrqInv, TypeOK
<1> QED
  BY <1>1, <1>2, <1>3 DEF SrqInv, MarkedGaps, Lost

\* A store to a cell that is linked to itself in a loop of one changes nothing.
LEMMA NoChange ==
  ASSUME NEW f \in Links, NEW n \in Nodes, f[n] = n
  PROVE  [f EXCEPT ![n] = n] = f
BY Kinds DEF Links

\* The next cell is linked backwards across the gap.
LEMMA SrqNextBackward ==
  ASSUME SrqInv,
         Store("next_backward", srq_forward,
               [srq_backward EXCEPT ![srq_forward[node]] = srq_backward[node]], "back_forward")
  PROVE  SrqInv'
<1> DEFINE b == [srq_backward EXCEPT ![srq_forward[node]] = srq_backward[node]]
           f == srq_forward
<1>1. pc = "next_backward" /\ pc \in RemoveSteps \ {"remove_node", "init_node"}
  BY DEF Store, RemoveSteps
<1>2. /\ node \in Nodes /\ Out(content, node) /\ Once(content)
      /\ f \in Links /\ srq_backward \in Links /\ content \in Contents
      /\ \A n \in again : n \in Nodes /\ Out(content, n)
  BY <1>1, Removal
<1>3. b \in Links /\ b[f[node]] = srq_backward[node]
  BY <1>2, Kinds DEF Links
<1>4. /\ \/ AllJoined(f, b, content) /\ Self(f, b, node)
         \/ \E q \in Queues : \E k \in Places(content, q) :
              Between(f, b, content, node, q, k) /\ AllBut(f, b, content, q, k)
      /\ \A n \in again : n # node => b[n] = srq_backward[n]
      /\ b[node] = srq_backward[node]
  <2>1. CASE AllJoined(f, srq_backward, content) /\ Self(f, srq_backward, node)
    <3>1. b = srq_backward
      BY <1>2, <2>1, NoChange DEF Self
    <3> QED
      BY <2>1, <3>1
  <2>2. ASSUME NEW q \in Queues, NEW k \in Places(content, q),
               Between(f, srq_backward, content, node, q, k), AllBut(f, srq_backward, content, q, k)
        PROVE  /\ Between(f, b, content, node, q, k) /\ AllBut(f, b, content, q, k)
               /\ \A n \in again : n # node => b[n] = srq_backward[n]
               /\ b[node] = srq_backward[node]
    <3>1. f[node] = At(content, q, k + 1) /\ At(content, q, k + 1) # node
      BY <1>2, <2>2, AtOut DEF Between
    <3>2. AllBut(f, b, content, q, k)
      BY <1>2, <2>2, <3>1, StoreBackward
    <3>3. b[node] = srq_backward[node]
      BY <1>2, <3>1, Kinds DEF Links
    <3>4. \A n \in again : b[n] = srq_backward[n]
      BY <1>2, <3>1, AtOut, Kinds DEF Links
    <3> QED
      BY <2>2, <3>2, <3>3, <3>4 DEF Between
  <2> QED
    BY <1>1, <2>1, <2>2, Removal
<1> HIDE DEF b
<1>5. Progress'
  BY <1>3, <1>4 DEF Store, Progress, InsertSteps, b
<1> QED
  BY <1>2, <1>3, <1>4, <1>5, SrqRemoveStore DEF b

\* The cell before is linked forwards across it.
LEMMA SrqBackForward ==
  ASSUME SrqInv,
         Store("back_forward", [srq_forward EXCEPT ![srq_backward[node]] = srq_forward[node]],
               srq_backward, "clear_node")
  PROVE  SrqInv'
<1> DEFINE f == [srq_forward EXCEPT ![srq_backward[node]] = srq_forward[node]]
           b == srq_backward
<1>1. pc = "back_forward" /\ pc \in RemoveSteps \ {"remove_node", "init_node"}
  BY DEF Store, RemoveSteps
<1>2. /\ node \in Nodes /\ Out(content, node) /\ Once(content)
      /\ srq_forward \in Links /\ b \in Links /\ content \in Contents
      /\ \A n \in again : n \in Nodes /\ Out(content, n)
  BY <1>1, Removal
<1>3. f \in Links /\ f[b[node]] = srq_forward[node] /\ b[srq_forward[node]] = b[node]
  BY <1>1, <1>2, Kinds DEF Links, SrqInv, Progress
<1>4. /\ \/ AllJoined(f, b, content) /\ Self(f, b, node)
         \/ \E q \in Queues : \E k \in Places(content, q) :
              Between(f, b, content, node, q, k) /\ AllBut(f, b, content, q, k)
      /\ \A n \in again : n # node => f[n] = srq_forward[n]
      /\ f[node] = srq_forward[node]
  <2>1. CASE AllJoined(srq_forward, b, content) /\ Self(srq_forward, b, node)
    <3>1. f = srq_forward
      BY <1>2, <2>1, NoChange DEF Self
    <3> QED
      BY <2>1, <3>1
  <2>2. ASSUME NEW q \in Queues, NEW k \in Places(content, q),
               Between(srq_forward, b, content, node, q, k), AllBut(srq_forward, b, content, q, k)
        PROVE  /\ Between(f, b, content, node, q, k) /\ AllBut(f, b, content, q, k)
               /\ \A n \in again : n # node => f[n] = srq_forward[n]
               /\ f[node] = srq_forward[node]
    <3>1. b[node] = At(content, q, k) /\ At(content, q, k) # node
      BY <1>2, <2>2, AtOut DEF Between
    <3>2. AllBut(f, b, content, q, k)
      BY <1>2, <2>2, <3>1, StoreForward
    <3>3. f[node] = srq_forward[node]
      BY <1>2, <3>1, Kinds DEF Links
    <3>4. \A n \in again : f[n] = srq_forward[n]
      BY <1>2, <3>1, AtOut, Kinds DEF Links
    <3> QED
      BY <2>2, <3>2, <3>3, <3>4 DEF Between
  <2> QED
    BY <1>1, <2>1, <2>2, Removal
<1> HIDE DEF f
<1>5. Progress'
  BY <1>3, <1>4 DEF Store, Progress, InsertSteps, f, shb
<1> QED
  BY <1>2, <1>3, <1>4, <1>5, SrqRemoveStore DEF f

\* The gap is closed, the mark can be reset.
LEMMA SrqClearNode ==
  ASSUME SrqInv,
         Note("clear_node", shb_insert_que, shb_insert_prior, Nil, content, "init_node")
  PROVE  SrqInv'
<1>1. pc = "clear_node" /\ pc \in RemoveSteps \ {"remove_node", "init_node"}
  BY DEF Note, RemoveSteps
<1>2. /\ srq_backward[srq_forward[node]] = srq_backward[node]
      /\ srq_forward[srq_backward[node]] = srq_forward[node]
  BY <1>1 DEF SrqInv, Progress
<1>3. Out(content, node) /\ shb_remove_node = node /\ shb_insert_prior = Nil
  BY <1>1, Removal
<1>4. AllJoined(srq_forward, srq_backward, content)
  BY <1>1, <1>2, Removal, Gaps DEF Joined, Between
<1>5. TypeOK'
  BY DEF Note, SrqInv, TypeOK, Steps, RemoveSteps
<1>6. Parameters' /\ Once(content)'
  BY DEF Note, SrqInv, Parameters, InsertSteps, RemoveSteps
<1>7. MarkedGaps'
  BY <1>3, <1>4 DEF Note, MarkedGaps, InsertionUnderWay
<1>8. Marks'
  BY <1>3 DEF Note, SrqInv, Marks, InsertionUnderWay, InsertSteps, RemoveSteps, UndoSteps
<1>9. Progress'
  BY <1>3 DEF Note, Progress, InsertSteps
<1>10. Lost'
  BY <1>3 DEF Note, SrqInv, Lost
<1> QED
  BY <1>5, <1>6, <1>7, <1>8, <1>9, <1>10 DEF SrqInv

\* The entry is linked to itself; remove_que returns.
LEMMA SrqInitNode ==
  ASSUME SrqInv,
         Store("init_node", [srq_forward EXCEPT ![node] = node],
               [srq_backward EXCEPT ![node] = node], "ready")
  PROVE  SrqInv'
<1> DEFINE f == [srq_forward EXCEPT ![node] = node]
           b == [srq_backward EXCEPT ![node] = node]
<1>1. /\ node \in Nodes /\ Out(content, node) /\ shb_remove_node = Nil /\ shb_insert_prior = Nil
  BY DEF Store, SrqInv, Marks, Progress, Parameters, RemoveSteps
<1>2. srq_forward \in Links /\ srq_backward \in Links /\ content \in Contents
  BY Typed DEF SrqInv
<1>3. AllJoined(srq_forward, srq_backward, content)
  BY <1>1 DEF SrqInv, MarkedGaps, InsertionUnderWay
<1>4. AllJoined(f, b, content)
  BY <1>1, <1>2, <1>3, StoreOut
<1>5. /\ f \in Links /\ b \in Links /\ Self(f, b, node)
      /\ \A n \in Nodes : n # node => f[n] = srq_forward[n] /\ b[n] = srq_backward[n]
  BY <1>1, <1>2, Kinds DEF Links, Self
<1> HIDE DEF f, b
<1>6. srq_forward' = f /\ srq_backward' = b
  BY DEF Store, f, b
<1>7. TypeOK'
  BY <1>5, <1>6 DEF Store, SrqInv, TypeOK, Links, shb
<1>8. Parameters' /\ Once(content)' /\ Progress'
  BY DEF Store, SrqInv, Parameters, Progress, InsertSteps, RemoveSteps, shb
<1>9. MarkedGaps'
  BY <1>1, <1>4, <1>6 DEF Store, MarkedGaps, InsertionUnderWay, shb
<1>10. Marks'
  BY <1>1 DEF Store, SrqInv, Marks, InsertionUnderWay, InsertSteps, RemoveSteps, UndoSteps, shb
<1>11. Lost'
  <2>1. again \subseteq Nodes
    BY DEF SrqInv, TypeOK
  <2>2. \A n \in again : Self(f, b, n)
    <3> SUFFICES ASSUME NEW n \in again, n # node PROVE Self(f, b, n)
      BY <1>5
    <3>1. Self(srq_forward, srq_backward, n)
      BY <1>1, <2>1, Kinds DEF SrqInv, Lost
    <3> QED
      BY <1>5, <2>1, <3>1 DEF Self
  <2> QED
    BY <1>6, <2>2 DEF Store, SrqInv, Lost, shb
<1> QED
  BY <1>7, <1>8, <1>9, <1>10, <1>11 DEF SrqInv

\* Where a death leaves nothing that the next thread in the table does not put
\* right: it died for an owner, and a mark is not half reset, nor an entry that
\* is out of its queue still linked to it.
Benign ==
  /\ Mortal \subseteq {"owner"}
  /\ CrashAt \cap {"clear_prior", "undo_prior", "init_node"} = {}
  /\ ~PurgeUndone

\* A death.
LEMMA SrqDie ==
  ASSUME Benign, SrqInv, die
  PROVE  SrqInv'
<1>1. /\ lhb_active_owner = "owner" /\ pc \in Steps
      /\ pc \notin {"clear_prior", "undo_prior", "init_node"}
  BY SrqAssumption DEF die, Benign
<1> DEFINE undone == pc \in InsertSteps \ {"clear_prior"}
           removed == pc \in RemoveSteps \ {"remove_node"}
<1>2. undone \/ removed => node \in Nodes /\ Out(content, node)
  <2>1. removed => pc \in RemoveSteps \ {"remove_node", "init_node"}
    BY <1>1
  <2> QED
    BY <2>1, Removal DEF SrqInv, Progress, Parameters
<1>3. removed => shb_remove_node = node
  BY <1>1, Removal
<1>4. /\ lost' = IF undone \/ removed THEN lost \cup {node} ELSE lost
      /\ again' = IF removed THEN again \cup {node} ELSE again
  BY DEF die, Benign
<1>5. again' \subseteq lost' /\ lost' \subseteq Nodes
  BY <1>2, <1>4 DEF SrqInv, TypeOK
<1>6. TypeOK'
  <2>1. crashes' \in 0 .. MaxCrashes
    BY SrqAssumption DEF die, SrqInv, TypeOK
  <2> QED
    BY <1>5, <2>1 DEF die, SrqInv, TypeOK, shb
<1>7. Parameters' /\ Progress'
  BY DEF die, Parameters, Progress, InsertSteps, RemoveSteps
<1>8. Once(content)' /\ MarkedGaps'
  BY DEF die, SrqInv, MarkedGaps, InsertionUnderWay, shb
<1>9. Marks'
  BY <1>1 DEF die, SrqInv, Marks, InsertionUnderWay, InsertSteps, RemoveSteps, UndoSteps, shb
<1>10. Lost'
  <2>1. \A n \in lost' : Out(content, n)
    BY <1>2, <1>4 DEF SrqInv, Lost
  <2>2. \A n \in again' : Self(srq_forward, srq_backward, n) \/ shb_remove_node = n
    BY <1>1, <1>3, <1>4 DEF SrqInv, Lost
  <2> QED
    BY <2>1, <2>2 DEF die, Lost, shb
<1> QED
  BY <1>6, <1>7, <1>8, <1>9, <1>10 DEF SrqInv

\* Every step keeps the invariant.
LEMMA SrqStep ==
  ASSUME Benign, SrqInv, [Next]_vars
  PROVE  SrqInv'
<1>1. CASE UNCHANGED vars
  BY <1>1, SrqStutter
<1>2. ASSUME NEW a \in Actors, acquire_shmem(a) PROVE SrqInv'
  BY <1>2, SrqAcquire
<1>3. CASE setOwner \/ release_shmem
  BY <1>3, SrqSetOwner, SrqRelease
<1>4. ASSUME NEW q \in Queues, NEW n \in Nodes, insert_tail(q, n) PROVE SrqInv'
  BY <1>4, SrqInsertTail
<1>5. ASSUME NEW n \in Nodes, remove_que(n) PROVE SrqInv'
  BY <1>5, SrqRemoveQue
<1>6. CASE insert_steps
  BY <1>6, SrqInsertQue, SrqInsertPrior, SrqNodeForward, SrqNodeBackward, SrqPriorForward,
     SrqQueBackward, SrqClearQue, SrqClearPrior DEF insert_steps
<1>7. CASE remove_steps
  BY <1>7, SrqRemoveNode, SrqNextBackward, SrqBackForward, SrqClearNode, SrqInitNode
     DEF remove_steps
<1>8. CASE undo_steps
  BY <1>8, SrqUndoBackward, SrqUndoForward, SrqUndoQue, SrqClearPrior DEF undo_steps
<1>9. CASE die
  BY <1>9, SrqDie
<1> QED
  BY <1>1, <1>2, <1>3, <1>4, <1>5, <1>6, <1>7, <1>8, <1>9 DEF Next

\* A thread that is in no routine finds nothing marked, and so nothing open.
LEMMA SrqRecovered ==
  ASSUME SrqInv
  PROVE  Recovered
<1> SUFFICES ASSUME pc = "ready", NEW q \in Queues,
                    NEW i \in 1 .. Len(<<q>> \o content[q])
             PROVE  LET ring == <<q>> \o content[q]
                        j == IF i = Len(ring) THEN 1 ELSE i + 1
                    IN srq_forward[ring[i]] = ring[j] /\ srq_backward[ring[j]] = ring[i]
  BY DEF Recovered
<1> DEFINE ring == <<q>> \o content[q]
           l == Len(content[q])
           j == IF i = Len(ring) THEN 1 ELSE i + 1
<1>1. AllJoined(srq_forward, srq_backward, content)
  BY DEF SrqInv, Marks, MarkedGaps, InsertionUnderWay
<1>2. content \in Contents /\ content[q] \in Seq(Nodes) /\ l \in Nat
  BY Typed, AtType DEF SrqInv, Contents
<1>3. Len(ring) = l + 1 /\ ring[1] = q /\ \A x \in 1 .. l : ring[x + 1] = content[q][x]
  <2>1. <<q>> \in Seq(Cells) /\ content[q] \in Seq(Cells) /\ Len(<<q>>) = 1 /\ <<q>>[1] = q
    BY <1>2, Kinds
  <2> QED
    BY <1>2, <2>1
<1>4. \A x \in 0 .. l : ring[x + 1] = At(content, q, x)
  <2> SUFFICES ASSUME NEW x \in 0 .. l PROVE ring[x + 1] = At(content, q, x)
    OBVIOUS
  <2> HIDE DEF ring
  <2>1. x = 0 \/ x \in 1 .. l
    BY <1>2
  <2>2. At(content, q, 0) = q /\ \A y \in 1 .. l : At(content, q, y) = content[q][y]
    BY <1>2, AtType
  <2> QED
    BY <1>3, <2>1, <2>2
<1>5. At(content, q, l + 1) = q
  BY <1>2, AtType
<1> HIDE DEF ring, l
<1>6. i - 1 \in 0 .. l /\ i = (i - 1) + 1 /\ (i = l + 1 \/ (i \in 0 .. l /\ i # l + 1))
  BY <1>2, <1>3 DEF ring
<1>7. Joined(srq_forward, srq_backward, content, q, i - 1)
  BY <1>1, <1>6 DEF AllJoined, Places, l
<1>8. ring[i] = At(content, q, i - 1) /\ ring[j] = At(content, q, i)
  <2>1. ring[i] = At(content, q, i - 1)
    BY <1>4, <1>6
  <2>2. ring[j] = At(content, q, i)
    <3>1. CASE i = l + 1
      BY <1>3, <1>5, <3>1
    <3>2. CASE i # l + 1 /\ i \in 0 .. l
      BY <1>3, <1>4, <3>2
    <3> QED
      BY <1>6, <3>1, <3>2
  <2> QED
    BY <2>1, <2>2
<1> HIDE DEF j
<1>9. srq_forward[ring[i]] = ring[j] /\ srq_backward[ring[j]] = ring[i]
  BY <1>6, <1>7, <1>8 DEF Joined
<1> QED
  BY <1>9 DEF ring, j

\* Whoever dies for an owner in the middle of an insertion or a removal, at a
\* step from which the secondary header leads back, leaves queues that the next
\* thread in the table finds whole: undone or completed by acquire_shmem, for
\* any number of queues, entries and deaths.
THEOREM RecoveredStays ==
  ASSUME Mortal \subseteq {"owner"},
         CrashAt \cap {"clear_prior", "undo_prior", "init_node"} = {},
         ~PurgeUndone
  PROVE  Spec => []Recovered
<1>1. Benign
  BY DEF Benign
<1>2. Init => SrqInv
  BY SrqInit
<1>3. SrqInv /\ [Next]_vars => SrqInv'
  BY <1>1, SrqStep
<1>4. SrqInv => Recovered
  BY SrqRecovered
<1> QED
  BY <1>2, <1>3, <1>4, PTL DEF Spec
=============================================================================
