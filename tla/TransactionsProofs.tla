--------------------------- MODULE TransactionsProofs ---------------------------
(* Proofs about Transactions, for any processes, numbers, pages of the        *)
(* inventory, crashes and waits: whose numbers are whose, what is said of the *)
(* inventory, what a snapshot shows of it, which versions it needs.           *)
EXTENDS Transactions, WellFoundedInduction, TLAPS

(***************************************************************************)
(* The inductive invariant                                                 *)
(***************************************************************************)

\* transaction_start has not ended, ...
Looking == {"inventory", "copy", "extend", "fill", "cache", "trim", "scan", "settle"}
Starting == Looking \union {"query", "publish"}
TraPc == Starting \union {"precommit", "running", "release", "retain", "retained", "sweeping", "advance"}

Inventory == [0..MaxTra -> States]

Local == [next : Nat, last : Nat, trim : Nat, active : Nat, oat : Nat, ost : Nat, cleanup : BOOLEAN,
          new : Nat, saved : Nat, state : States, marked : SUBSET Numbers]

Transaction == [pc : TraPc, proc : Procs, kind : Kinds, number : Nat, top : Nat, oldest : Nat,
                oldest_active : Nat, transactions : Inventory, subs : SUBSET Nat, local : Local]

Limits == [oit : Nat, oat : Nat, ost : Nat]

TypeInv ==
  /\ header \in [nt : Nat, oit : Nat, oat : Nat, ost : Nat] /\ header.nt <= MaxTra
  /\ tip \in Inventory
  /\ lock \in [Numbers -> Nat]
  /\ dbb \in [Procs -> Limits]
  /\ cache \in [Procs -> [0..MaxTra -> Stored]]
  /\ tra \in [Numbers -> Transaction \union {NoTra}]
  /\ swept \subseteq Numbers

\* A sweep whose transaction has ended.
SweepsOn(i) == tra[i].kind = "sweep" /\ tra[i].pc \in {"running", "sweeping", "advance"}

\* The transaction has not set its state.
Unended(i) == ~SweepsOn(i) /\ tra[i].pc \notin {"release", "retained"}

\* The number of a transaction, and the one it has taken to keep its context.
Owns(i, n) == n # 0 /\ (n = tra[i].number \/ n = tra[i].local.new)

\* Where a transaction is in the code fits its kind and its numbers.
FitOf(i) ==
  LET t == tra[i] IN
  /\ t.top = i /\ i <= header.nt
  /\ t.pc \in {"inventory", "copy"} => t.kind = "snapshot"
  /\ t.pc \in {"extend", "fill", "cache", "trim"} => t.kind # "snapshot"
  /\ t.pc \in {"precommit", "sweeping", "advance"} => t.kind = "sweep"
  /\ t.pc \in {"retain", "retained"} => t.kind # "sweep"
  /\ t.pc \in {"retain", "retained"} <=> t.local.new # 0
  /\ t.pc \in Starting \union {"precommit"} => t.number = i
  /\ t.pc \in Starting => t.local.active > 0 /\ t.local.oat > 0
  /\ t.pc # "advance" => t.oldest_active <= i
  /\ t.pc \in {"sweeping", "advance"} => t.local.saved <= i

FitInv == \A i \in Numbers : Live(i) => FitOf(i)

\* Numbers are given once.
NumberInv ==
  /\ \A n \in Numbers : n > header.nt => tip[n] = "active" /\ lock[n] = 0
  /\ \A i \in Numbers : Live(i) =>
       /\ tra[i].number \in Numbers /\ tra[i].number <= header.nt
       /\ tra[i].local.new <= header.nt /\ tra[i].local.new # tra[i].number
  /\ \A i, j, n \in Numbers : Live(i) /\ Live(j) /\ Owns(i, n) /\ Owns(j, n) => i = j

\* A transaction holds the locks of its numbers, with data not 0, and the one it
\* takes for dead has none.
LockOf(i) ==
  /\ ~SweepsOn(i) => \A n \in Numbers : Owns(i, n) => lock[n] # 0
  /\ At(i, "settle") =>
       tra[i].local.active \in Numbers /\ tra[i].local.active <= header.nt /\ lock[tra[i].local.active] = 0

LockInv == \A i \in Numbers : Live(i) => LockOf(i)

\* The oldest transaction anybody knows of is a number that was given.
OldestInv ==
  /\ header.oit > 0 /\ (header.oit <= header.nt \/ header.oit = 1)
  /\ \A p \in Procs : dbb[p].oit > 0 /\ (dbb[p].oit <= header.nt \/ dbb[p].oit = 1)

\* The numbers of a transaction are active until it ends.
ActiveOf(i) ==
  /\ Unended(i) => tip[tra[i].number] = "active"
  /\ tra[i].local.new # 0 => tip[tra[i].local.new] = "active"

ActiveInv == \A i \in Numbers : Live(i) => ActiveOf(i)

\* The cache has the page of a number, is empty, has a page that goes beyond b.
Has(p, n) == cache[p][n] # "none"
Empty(p) == \A n \in 0..MaxTra : ~Has(p, n)
Reach(p, b) == \E m \in 0..MaxTra : Has(p, m) /\ (Page(m) + 1) * TransPerTip > b

\* A cache once filled keeps a page.
CacheInv == \A p \in Procs : Empty(p) \/ Reach(p, dbb[p].oit)

\* What a transaction has read of the inventory and what it goes on with.
LoadOf(i) ==
  LET t == tra[i] IN
  /\ t.pc \notin {"inventory", "extend", "fill"} => ~Empty(t.proc)
  /\ t.pc \in {"trim", "scan", "settle", "query", "publish"} => Reach(t.proc, i)
  /\ t.pc = "trim" => Reach(t.proc, t.local.trim)
  /\ t.pc \in {"inventory", "copy", "fill", "cache"} =>
       t.local.next <= t.local.last /\ t.local.last <= Page(header.nt)
  /\ t.pc \in {"inventory", "copy"} => t.local.last = Page(i)
  /\ t.pc \in {"fill", "cache"} => Page(i) <= t.local.last /\ t.local.trim < (t.local.last + 1) * TransPerTip
  /\ t.pc \in {"inventory", "fill"} /\ Empty(t.proc) => dbb[t.proc].oit < (t.local.next + 1) * TransPerTip
  /\ t.pc = "extend" /\ Empty(t.proc) => dbb[t.proc].oit <= header.oit

LoadInv == \A i \in Numbers : Live(i) => LoadOf(i)

OwnInv ==
  /\ TypeInv /\ FitInv /\ NumberInv /\ LockInv /\ OldestInv /\ ActiveInv
  /\ CacheInv /\ LoadInv

(***************************************************************************)
(* Numbers and pages                                                       *)
(***************************************************************************)

\* The least of two numbers and the greater one.
LEMMA LeastMost ==
  ASSUME NEW a \in Int, NEW b \in Int
  PROVE  /\ Least(a, b) \in Int /\ Least(a, b) <= a /\ Least(a, b) <= b /\ Least(a, b) \in {a, b}
         /\ Most(a, b) \in Int /\ Most(a, b) >= a /\ Most(a, b) >= b /\ Most(a, b) \in {a, b}
BY DEF Least, Most

\* Numbers not 0 are not less than a larger bound.
LEMMA ProductGrows ==
  ASSUME NEW a \in Nat, NEW b \in Nat, NEW c \in Nat, a <= b
  PROVE  a * c <= b * c
<1>1. b * c = a * c + (b - a) * c /\ (b - a) * c >= 0
  OBVIOUS
<1> QED
  BY <1>1

\* The page of a number.
LEMMA PageIs ==
  ASSUME NEW n \in Nat
  PROVE  Page(n) \in Nat /\ Page(n) * TransPerTip <= n /\ n < (Page(n) + 1) * TransPerTip
BY TransactionsAssumption DEF Page

LEMMA PageOrder ==
  ASSUME NEW n \in Nat, NEW m \in Nat, n <= m
  PROVE  Page(n) <= Page(m)
<1> SUFFICES ASSUME Page(m) + 1 <= Page(n) PROVE FALSE
  BY PageIs
<1>1. (Page(m) + 1) * TransPerTip <= Page(n) * TransPerTip
  BY PageIs, ProductGrows, TransactionsAssumption
<1> QED
  BY <1>1, PageIs, TransactionsAssumption

(***************************************************************************)
(* Records and their updates                                               *)
(***************************************************************************)

\* The transaction i, and no other, goes to pc; what it started with stays.
Goes(i, pc) ==
  /\ tra' \in [Numbers -> Transaction \union {NoTra}]
  /\ \A j \in Numbers \ {i} : tra'[j] = tra[j]
  /\ tra[i] \in Transaction /\ tra'[i] \in Transaction
  /\ tra'[i].pc = pc
  /\ tra'[i].proc = tra[i].proc /\ tra'[i].kind = tra[i].kind
  /\ tra'[i].top = tra[i].top /\ tra'[i].oldest = tra[i].oldest

\* What it keeps: its numbers, ...
KeepsNumbers(i) == tra'[i].number = tra[i].number /\ tra'[i].local.new = tra[i].local.new

\* ... the pages to read, ...
KeepsPages(i) ==
  /\ tra'[i].local.next = tra[i].local.next /\ tra'[i].local.last = tra[i].local.last
  /\ tra'[i].local.trim = tra[i].local.trim

\* ... its limits, ...
KeepsLimits(i) ==
  /\ tra'[i].local.active = tra[i].local.active /\ tra'[i].local.oat = tra[i].local.oat
  /\ tra'[i].oldest_active = tra[i].oldest_active

\* ... what a sweep knows, ...
KeepsSweep(i) == tra'[i].local.saved = tra[i].local.saved /\ tra'[i].local.marked = tra[i].local.marked

\* ... and its view.
KeepsView(i) == tra'[i].transactions = tra[i].transactions

\* A transaction that is somewhere is one.
LEMMA LiveIs ==
  ASSUME TypeInv, NEW i \in Numbers, tra[i].pc # "none"
  PROVE  tra[i] \in Transaction /\ Live(i)
BY DEF TypeInv, NoTra, Live, At

LEMMA TypedTra ==
  ASSUME NEW t \in Transaction
  PROVE  /\ t.pc \in TraPc /\ t.pc # "none" /\ t.proc \in Procs /\ t.kind \in Kinds
         /\ t.number \in Nat /\ t.top \in Nat /\ t.oldest \in Nat /\ t.oldest_active \in Nat
         /\ t.transactions \in Inventory /\ t.subs \in SUBSET Nat /\ t.local \in Local
         /\ t.local.next \in Nat /\ t.local.last \in Nat /\ t.local.trim \in Nat
         /\ t.local.active \in Nat /\ t.local.oat \in Nat /\ t.local.ost \in Nat
         /\ t.local.cleanup \in BOOLEAN /\ t.local.new \in Nat /\ t.local.saved \in Nat
         /\ t.local.state \in States /\ t.local.marked \in SUBSET Numbers
BY DEF Transaction, Local, TraPc, Starting, Looking

\* A transaction of its kind in the place of another.
LEMMA GoesTo ==
  ASSUME TypeInv, NEW i \in Numbers, tra[i] \in Transaction, NEW r \in Transaction,
         r.proc = tra[i].proc, r.kind = tra[i].kind, r.top = tra[i].top, r.oldest = tra[i].oldest,
         tra' = [tra EXCEPT ![i] = r]
  PROVE  Goes(i, r.pc) /\ tra'[i] = r
BY DEF TypeInv, Goes

\* The least of a set of numbers, as the code looks for it.
LEMMA MinIs ==
  ASSUME NEW S \in SUBSET Nat, S # {}
  PROVE  \E x \in S : \A y \in S : x <= y
<1>1. IsWellFoundedOn(OpToRel(<, Nat), Nat)
  BY NatLessThanWellFounded
<1>2. PICK x \in S : \A y \in S : ~ (<<y, x>> \in OpToRel(<, Nat))
  BY <1>1, WFMin
<1>3. \A y \in S : x <= y
  <2> TAKE y \in S
  <2>1. x \in Nat /\ y \in Nat
    OBVIOUS
  <2>2. ~ (<<y, x>> \in OpToRel(<, Nat))
    BY <1>2
  <2>3. <<y, x>> \in Nat \X Nat /\ <<y, x>>[1] = y /\ <<y, x>>[2] = x
    BY <2>1
  <2>4. ~(y < x)
    BY <2>2, <2>3, Zenon DEF OpToRel
  <2> QED
    BY <2>1, <2>4
<1> QED
  BY <1>3

\* A cache is empty, or a set of pages with a first and a last one.
LEMMA CachedIs ==
  ASSUME NEW p
  PROVE  /\ Empty(p) <=> Cached(p) = {}
         /\ Cached(p) \subseteq 0..MaxTra
         /\ \A n \in 0..MaxTra : Has(p, n) => Page(n) \in Cached(p)
         /\ \A s \in Cached(p) : \E n \in 0..MaxTra : Has(p, n) /\ s = Page(n)
<1>1. \A n \in 0..MaxTra : Page(n) \in 0..MaxTra
  <2> TAKE n \in 0..MaxTra
  <2>1. n \in Nat /\ Page(n) \in Nat /\ Page(n) * TransPerTip <= n
    BY PageIs, TransactionsAssumption
  <2>2. Page(n) <= Page(n) * TransPerTip
    <3>1. 1 * Page(n) <= TransPerTip * Page(n)
      BY <2>1, ProductGrows, TransactionsAssumption
    <3> QED
      BY <2>1, <3>1, TransactionsAssumption
  <2> QED
    BY <2>1, <2>2, TransactionsAssumption
<1> QED
  BY <1>1 DEF Cached, Empty, Has

LEMMA FrontIs ==
  ASSUME NEW p, ~Empty(p)
  PROVE  FrontPage(p) \in Cached(p) /\ \A u \in Cached(p) : FrontPage(p) <= u
<1>1. Cached(p) # {} /\ Cached(p) \in SUBSET Nat
  BY CachedIs, TransactionsAssumption
<1>2. \E s \in Cached(p) : \A u \in Cached(p) : s <= u
  BY <1>1, MinIs
<1> QED
  BY <1>2 DEF FrontPage

LEMMA BackIs ==
  ASSUME NEW p, ~Empty(p)
  PROVE  BackPage(p) \in Cached(p) /\ \A u \in Cached(p) : BackPage(p) >= u
<1> DEFINE S == {x \in Nat : \E u \in Cached(p) : x + u = MaxTra}
<1>1. Cached(p) # {} /\ Cached(p) \subseteq 0..MaxTra
  BY CachedIs
<1>2. PICK u \in Cached(p) : TRUE
  BY <1>1
<1>3. MaxTra - u \in S
  BY <1>1, TransactionsAssumption
<1>4. PICK x \in S : \A y \in S : x <= y
  BY <1>3, MinIs
<1>5. PICK s \in Cached(p) : x + s = MaxTra
  BY <1>4
<1>6. \A v \in Cached(p) : s >= v
  <2> TAKE v \in Cached(p)
  <2>1. MaxTra - v \in S
    BY <1>1, TransactionsAssumption
  <2> QED
    BY <1>1, <1>4, <1>5, <2>1, TransactionsAssumption
<1> QED
  BY <1>5, <1>6 DEF BackPage

\* The result of findStates: a number from a up to b.
LEMMA FindRange ==
  ASSUME NEW p, ~Empty(p), NEW a \in Nat, NEW b \in Nat, NEW W, NEW r \in Find(p, a, b, W)
  PROVE  r \in Nat /\ (r = b \/ (a <= r /\ r < b))
<1> DEFINE from == Most(a, FrontPage(p) * TransPerTip)
<1>1. FrontPage(p) \in Nat
  BY FrontIs, CachedIs, TransactionsAssumption
<1>2. from \in Nat /\ a <= from
  <2>1. FrontPage(p) * TransPerTip \in Nat
    BY <1>1, TransactionsAssumption
  <2> QED
    BY <2>1, LeastMost DEF Most
<1> HIDE DEF from
<1>3. r = b \/ r \in from..(b - 1)
  BY DEF Find, Earliest, from
<1> QED
  BY <1>2, <1>3

LEMMA NextActiveRange ==
  ASSUME NEW i \in Numbers, tra[i] \in Transaction, ~Empty(tra[i].proc), NEW n \in NextActive(tra[i])
  PROVE  n \in Nat /\ (n = tra[i].top \/ (tra[i].local.active <= n /\ n < tra[i].top))
<1>1. tra[i].top \in Nat /\ tra[i].local.active \in Nat
  BY TypedTra
<1>2. CASE tra[i].kind = "snapshot"
  BY <1>1, <1>2 DEF NextActive, Earliest
<1>3. CASE tra[i].kind # "snapshot"
  BY <1>1, <1>3, FindRange DEF NextActive
<1> QED
  BY <1>2, <1>3

LEMMA InterestingRange ==
  ASSUME NEW i \in Numbers, tra[i] \in Transaction, ~Empty(tra[i].proc), NEW n \in Interesting(tra[i])
  PROVE  n \in Nat /\ n <= tra[i].top
<1>1. tra[i].top \in Nat /\ tra[i].oldest \in Nat
  BY TypedTra
<1>2. CASE tra[i].kind = "snapshot"
  BY <1>1, <1>2 DEF Interesting, Earliest
<1>3. CASE tra[i].kind # "snapshot"
  BY <1>1, <1>3, FindRange DEF Interesting
<1> QED
  BY <1>2, <1>3

\* TRA_get_state and what the cache learns.
LEMMA GetStateType ==
  ASSUME TypeInv, NEW p \in Procs, NEW n \in 0..MaxTra
  PROVE  GetState(p, n) \in States /\ Learnt(p, n) \in [0..MaxTra -> Stored]
<1>1. /\ tip[n] \in States /\ cache[p][n] \in Stored /\ "committed" \in States /\ "active" \in States
      /\ cache[p] \in [0..MaxTra -> Stored] /\ \A m \in 0..MaxTra : tip[m] \in Stored
  BY DEF TypeInv, Inventory, States, Stored
<1>2. GetState(p, n) \in States
  BY <1>1 DEF GetState, Stored
<1>3. \A s, c : Updated(p, s, tip) \in [0..MaxTra -> Stored]
  BY <1>1 DEF Updated, Stored
<1>4. [m \in 0..MaxTra |->
          IF Page(m) \in Most(BackPage(p) + 1, Page(header.oit))..Page(header.nt) THEN tip[m]
          ELSE IF (Page(m) + 1) * TransPerTip < Most(header.oit, dbb[p].oit + 1) THEN "none"
          ELSE cache[p][m]] \in [0..MaxTra -> Stored]
  BY <1>1 DEF Stored
<1> QED
  BY <1>1, <1>2, <1>3, <1>4 DEF Learnt

\* The page of n gets a new state.
LEMMA SetStateType ==
  ASSUME TypeInv, NEW p \in Procs, NEW n \in 0..MaxTra, NEW s \in States, SetState(p, n, s)
  PROVE  /\ tip' = [tip EXCEPT ![n] = s] /\ tip' \in Inventory
         /\ cache' = [cache EXCEPT ![p] = Updated(p, Page(n), tip')]
         /\ cache' \in [Procs -> [0..MaxTra -> Stored]]
<1>1. tip' = [tip EXCEPT ![n] = s] /\ cache' = [cache EXCEPT ![p] = Updated(p, Page(n), tip')]
  BY DEF SetState
<1>2. tip' \in Inventory
  BY <1>1 DEF TypeInv, Inventory
<1>3. Updated(p, Page(n), tip') \in [0..MaxTra -> Stored]
  <2>1. (\A m \in 0..MaxTra : tip'[m] \in Stored) /\ cache[p] \in [0..MaxTra -> Stored] /\ "none" \in Stored
    BY <1>2 DEF TypeInv, Inventory, States, Stored
  <2> QED
    BY <2>1 DEF Updated
<1> QED
  BY <1>1, <1>2, <1>3 DEF TypeInv

\* A turn of the loop that has found n to be the next active number.
ScanTo(i, n) ==
  LET t == tra[i]
      data == IF n < t.top /\ lock[n] # 0 THEN lock[n] ELSE n
      limit == Least(t.oldest_active, data)
  IN
  /\ At(i, "scan")
  /\ tra' = IF n = t.top THEN [tra EXCEPT ![i].pc = "publish"]
            ELSE IF lock[n] = 0 /\ t.local.cleanup
            THEN [tra EXCEPT ![i].pc = "settle", ![i].local.active = n]
            ELSE [tra EXCEPT ![i].local.oat = Least(@, n), ![i].oldest_active = limit,
                             ![i].pc = IF limit = t.local.ost THEN "publish" ELSE "query"]
  /\ UNCHANGED <<header, tip, lock, dbb, cache, swept>>

LEMMA ScanIs ==
  ASSUME NEW i, Scan(i)
  PROVE  \E n \in NextActive(tra[i]) : ScanTo(i, n)
BY DEF Scan, ScanTo, pages

\* Types of what actions put into a transaction.
LEMMA LeastNat ==
  ASSUME NEW a \in Nat, NEW b \in Nat
  PROVE  Least(a, b) \in Nat /\ Most(a, b) \in Nat
BY DEF Least, Most

LEMMA LockNat ==
  ASSUME TypeInv, NEW n \in Numbers
  PROVE  lock[n] \in Nat /\ n \in Nat
BY DEF TypeInv, Numbers

LEMMA DataMin ==
  ASSUME TypeInv, NEW n \in Numbers, lock[n] # 0
  PROVE  OldestData \in Data /\ OldestData \in Nat
<1>1. Data \in SUBSET Nat /\ Data # {}
  BY LockNat DEF Data
<1>2. \E d \in Data : \A e \in Data : d <= e
  BY <1>1, MinIs
<1> QED
  BY <1>1, <1>2 DEF OldestData

LEMMA EndsType ==
  Ends \subseteq States
BY TransactionsAssumption DEF States

LEMMA HeaderType ==
  ASSUME TypeInv
  PROVE  /\ header.nt \in Nat /\ header.oit \in Nat /\ header.oat \in Nat /\ header.ost \in Nat /\ header.nt <= MaxTra
         /\ MaxTra \in Nat
BY TransactionsAssumption DEF TypeInv

LEMMA DbbType ==
  ASSUME TypeInv, NEW p \in Procs
  PROVE  dbb[p] \in Limits /\ dbb[p].oit \in Nat /\ dbb[p].oat \in Nat /\ dbb[p].ost \in Nat
BY DEF TypeInv, Limits

LEMMA BumpedNext ==
  ASSUME TypeInv, NEW p \in Procs
  PROVE  /\ Bumped(p) \in [nt : Nat, oit : Nat, oat : Nat, ost : Nat]
         /\ Bumped(p).nt = header.nt + 1
         /\ Bumped(p).oit = Most(header.oit, dbb[p].oit)
         /\ Bumped(p).oat = Most(header.oat, dbb[p].oat)
<1>1. /\ header.nt + 1 \in Nat
      /\ Most(header.oit, dbb[p].oit) \in Nat /\ Most(header.oat, dbb[p].oat) \in Nat /\ Most(header.ost, dbb[p].ost) \in Nat
  <2>1. /\ header.nt \in Nat /\ header.oit \in Nat /\ header.oat \in Nat /\ header.ost \in Nat
        /\ dbb[p].oit \in Nat /\ dbb[p].oat \in Nat /\ dbb[p].ost \in Nat
    BY HeaderType, DbbType
  <2> QED
    BY <2>1 DEF Most
<1> QED
  BY <1>1 DEF Bumped

\* Where a cache is to be extended from.
ReadFrom(p) == IF Empty(p) THEN 0 ELSE (BackPage(p) + 1) * TransPerTip

LEMMA FrontTypes ==
  ASSUME TypeInv, NEW p \in Procs
  PROVE  /\ ~Empty(p) => FrontPage(p) \in Nat /\ BackPage(p) \in Nat
         /\ ReadFrom(p) \in Nat
         /\ Page(Most(ReadFrom(p), header.oit)) \in Nat /\ Page(header.nt) \in Nat
<1>1. ~Empty(p) => FrontPage(p) \in Nat /\ BackPage(p) \in Nat
  BY FrontIs, BackIs, CachedIs, TransactionsAssumption
<1>2. ReadFrom(p) \in Nat
  BY <1>1, TransactionsAssumption DEF ReadFrom
<1>3. Most(ReadFrom(p), header.oit) \in Nat /\ header.nt \in Nat
  BY <1>2, HeaderType, LeastNat
<1> QED
  BY <1>1, <1>2, <1>3, PageIs

LEMMA CopyEffect ==
  ASSUME TypeInv, NEW i \in Numbers, Copy(i)
  PROVE  /\ tra[i].pc \in {"inventory", "copy"}
         /\ Goes(i, IF tra[i].local.next < tra[i].local.last THEN "copy" ELSE "scan")
         /\ KeepsNumbers(i) /\ KeepsLimits(i) /\ KeepsSweep(i)
         /\ tra'[i].local.next = tra[i].local.next + 1
         /\ tra'[i].local.last = tra[i].local.last
         /\ tra'[i].local.trim = tra[i].local.trim
         /\ \A n \in 0..MaxTra : tra'[i].transactions[n] \in {tip[n], tra[i].transactions[n]}
         /\ cache' = [cache EXCEPT ![tra[i].proc] = Updated(tra[i].proc, tra[i].local.next, tip)]
         /\ UNCHANGED <<header, tip, lock, dbb, swept>>
<1> DEFINE pc == IF tra[i].local.next < tra[i].local.last THEN "copy" ELSE "scan"
           view == [n \in 0..MaxTra |-> IF Page(n) = tra[i].local.next /\ n <= tra[i].top THEN tip[n] ELSE tra[i].transactions[n]]
           l == [tra[i].local EXCEPT !.next = tra[i].local.next + 1]
           r == [tra[i] EXCEPT !.transactions = view, !.local = l, !.pc = pc]
<1>1. tra[i] \in Transaction /\ tra[i].pc \in {"inventory", "copy"}
  BY LiveIs DEF Copy
<1>19. tra[i].local \in Local
  BY <1>1, TypedTra
<1>2. /\ l \in Local
      /\ l.next = tra[i].local.next + 1 /\ l.last = tra[i].local.last /\ l.trim = tra[i].local.trim
      /\ l.active = tra[i].local.active /\ l.oat = tra[i].local.oat /\ l.new = tra[i].local.new
      /\ l.saved = tra[i].local.saved /\ l.marked = tra[i].local.marked
  BY <1>19 DEF Local, Unused, States
<1>3. tra' = [tra EXCEPT ![i] = r]
  BY <1>1, TypedTra DEF Copy, Inventory
<1>6. view \in Inventory
  BY <1>1, TypedTra DEF TypeInv, Inventory
<1>7. \A n \in 0..MaxTra : view[n] \in {tip[n], tra[i].transactions[n]}
  BY <1>1 DEF Inventory
<1>0. pc \in TraPc
  BY <1>1 DEF TraPc, Starting, Looking
<1> HIDE DEF l, pc, view
<1>4. /\ r \in Transaction
      /\ r.pc = pc /\ r.proc = tra[i].proc /\ r.kind = tra[i].kind
      /\ r.number = tra[i].number /\ r.top = tra[i].top /\ r.oldest = tra[i].oldest
      /\ r.oldest_active = tra[i].oldest_active /\ r.transactions = view /\ r.local = l
  BY <1>0, <1>1, <1>2, <1>6, <1>7, TypedTra DEF Transaction
<1> HIDE DEF r
<1>5. Goes(i, r.pc) /\ tra'[i] = r
  BY <1>1, <1>3, <1>4, GoesTo
<1>8. \A n \in 0..MaxTra : tra'[i].transactions[n] \in {tip[n], tra[i].transactions[n]}
  BY <1>4, <1>5, <1>7
<1>9. /\ cache' = [cache EXCEPT ![tra[i].proc] = Updated(tra[i].proc, tra[i].local.next, tip)]
      /\ UNCHANGED <<header, tip, lock, dbb, swept>>
  BY <1>1 DEF Copy, pages, bounds
<1> QED
  BY <1>1, <1>2, <1>4, <1>5, <1>6, <1>7, <1>8, <1>9 DEF pc, KeepsNumbers, KeepsLimits, KeepsSweep, view

LEMMA FillEffect ==
  ASSUME TypeInv, NEW i \in Numbers, Fill(i)
  PROVE  /\ tra[i].pc \in {"fill", "cache"}
         /\ Goes(i, IF tra[i].local.next < tra[i].local.last THEN "cache" ELSE "trim")
         /\ KeepsNumbers(i) /\ KeepsLimits(i) /\ KeepsSweep(i) /\ KeepsView(i)
         /\ tra'[i].local.next = tra[i].local.next + 1
         /\ tra'[i].local.last = tra[i].local.last
         /\ tra'[i].local.trim = tra[i].local.trim
         /\ cache' = [cache EXCEPT ![tra[i].proc] = Updated(tra[i].proc, tra[i].local.next, tip)]
         /\ UNCHANGED <<header, tip, lock, dbb, swept>>
<1> DEFINE pc == IF tra[i].local.next < tra[i].local.last THEN "cache" ELSE "trim"
           l == [tra[i].local EXCEPT !.next = tra[i].local.next + 1]
           r == [tra[i] EXCEPT !.local = l, !.pc = pc]
<1>1. tra[i] \in Transaction /\ tra[i].pc \in {"fill", "cache"}
  BY LiveIs DEF Fill
<1>19. tra[i].local \in Local
  BY <1>1, TypedTra
<1>2. /\ l \in Local
      /\ l.next = tra[i].local.next + 1 /\ l.last = tra[i].local.last /\ l.trim = tra[i].local.trim
      /\ l.active = tra[i].local.active /\ l.oat = tra[i].local.oat /\ l.new = tra[i].local.new
      /\ l.saved = tra[i].local.saved /\ l.marked = tra[i].local.marked
  BY <1>19 DEF Local, Unused, States
<1>3. tra' = [tra EXCEPT ![i] = r]
  BY <1>1, TypedTra DEF Fill
<1>0. pc \in TraPc
  BY <1>1 DEF TraPc, Starting, Looking
<1> HIDE DEF l, pc
<1>4. /\ r \in Transaction
      /\ r.pc = pc /\ r.proc = tra[i].proc /\ r.kind = tra[i].kind
      /\ r.number = tra[i].number /\ r.top = tra[i].top /\ r.oldest = tra[i].oldest
      /\ r.oldest_active = tra[i].oldest_active /\ r.transactions = tra[i].transactions /\ r.local = l
  BY <1>0, <1>1, <1>2, TypedTra DEF Transaction
<1> HIDE DEF r
<1>5. Goes(i, r.pc) /\ tra'[i] = r
  BY <1>1, <1>3, <1>4, GoesTo
<1>6. /\ cache' = [cache EXCEPT ![tra[i].proc] = Updated(tra[i].proc, tra[i].local.next, tip)]
      /\ UNCHANGED <<header, tip, lock, dbb, swept>>
  BY <1>1 DEF Fill, pages, bounds
<1> QED
  BY <1>1, <1>2, <1>4, <1>5, <1>6 DEF pc, KeepsNumbers, KeepsLimits, KeepsSweep, KeepsView

LEMMA TrimEffect ==
  ASSUME TypeInv, NEW i \in Numbers, Trim(i)
  PROVE  /\ tra[i].pc \in {"trim"}
         /\ Goes(i, "scan")
         /\ KeepsNumbers(i) /\ KeepsPages(i) /\ KeepsLimits(i) /\ KeepsSweep(i) /\ KeepsView(i)
         /\ cache' = [cache EXCEPT ![tra[i].proc] = [n \in 0..MaxTra |->
              IF (Page(n) + 1) * TransPerTip < tra[i].local.trim THEN "none" ELSE cache[tra[i].proc][n]]]
         /\ UNCHANGED <<header, tip, lock, dbb, swept>>
<1> DEFINE pc == "scan"
           l == tra[i].local
           r == [tra[i] EXCEPT !.pc = pc]
<1>1. tra[i] \in Transaction /\ tra[i].pc \in {"trim"}
  BY LiveIs DEF Trim, At
<1>19. tra[i].local \in Local
  BY <1>1, TypedTra
<1>2. /\ l \in Local
      /\ l.next = tra[i].local.next /\ l.last = tra[i].local.last /\ l.trim = tra[i].local.trim
      /\ l.active = tra[i].local.active /\ l.oat = tra[i].local.oat /\ l.new = tra[i].local.new
      /\ l.saved = tra[i].local.saved /\ l.marked = tra[i].local.marked
  BY <1>19 DEF Local, Unused, States
<1>3. tra' = [tra EXCEPT ![i] = r]
  BY <1>1, TypedTra DEF Trim
<1>0. pc \in TraPc
  BY <1>1 DEF TraPc, Starting, Looking
<1> HIDE DEF l, pc
<1>4. /\ r \in Transaction
      /\ r.pc = pc /\ r.proc = tra[i].proc /\ r.kind = tra[i].kind
      /\ r.number = tra[i].number /\ r.top = tra[i].top /\ r.oldest = tra[i].oldest
      /\ r.oldest_active = tra[i].oldest_active /\ r.transactions = tra[i].transactions /\ r.local = tra[i].local
  BY <1>0, <1>1, <1>2, TypedTra DEF Transaction
<1> HIDE DEF r
<1>5. Goes(i, r.pc) /\ tra'[i] = r
  BY <1>1, <1>3, <1>4, GoesTo
<1>6. /\ cache' = [cache EXCEPT ![tra[i].proc] = [n \in 0..MaxTra |->
              IF (Page(n) + 1) * TransPerTip < tra[i].local.trim THEN "none" ELSE cache[tra[i].proc][n]]]
      /\ UNCHANGED <<header, tip, lock, dbb, swept>>
  BY <1>1 DEF Trim, At, pages, bounds
<1> QED
  BY <1>1, <1>2, <1>4, <1>5, <1>6 DEF pc, KeepsNumbers, KeepsPages, KeepsLimits, KeepsSweep, KeepsView

LEMMA ExtendSkips ==
  ASSUME TypeInv, NEW i \in Numbers, Extend(i),
         ~Empty(tra[i].proc), tra[i].top < (BackPage(tra[i].proc) + 1) * TransPerTip
  PROVE  /\ tra[i].pc \in {"extend"}
         /\ Goes(i, "scan")
         /\ KeepsNumbers(i) /\ KeepsPages(i) /\ KeepsLimits(i) /\ KeepsSweep(i) /\ KeepsView(i)
         /\ UNCHANGED <<header, tip, lock, dbb, cache, swept>>
<1> DEFINE pc == "scan"
           l == tra[i].local
           r == [tra[i] EXCEPT !.pc = pc]
<1>1. tra[i] \in Transaction /\ tra[i].pc \in {"extend"}
  BY LiveIs DEF Extend, At
<1>19. tra[i].local \in Local
  BY <1>1, TypedTra
<1>2. /\ l \in Local
      /\ l.next = tra[i].local.next /\ l.last = tra[i].local.last /\ l.trim = tra[i].local.trim
      /\ l.active = tra[i].local.active /\ l.oat = tra[i].local.oat /\ l.new = tra[i].local.new
      /\ l.saved = tra[i].local.saved /\ l.marked = tra[i].local.marked
  BY <1>19, CachedIs DEF Local, Unused, States
<1>3. tra' = [tra EXCEPT ![i] = r]
  BY <1>1, TypedTra, CachedIs DEF Extend, At, Empty
<1>0. pc \in TraPc
  BY <1>1 DEF TraPc, Starting, Looking
<1> HIDE DEF l, pc
<1>4. /\ r \in Transaction
      /\ r.pc = pc /\ r.proc = tra[i].proc /\ r.kind = tra[i].kind
      /\ r.number = tra[i].number /\ r.top = tra[i].top /\ r.oldest = tra[i].oldest
      /\ r.oldest_active = tra[i].oldest_active /\ r.transactions = tra[i].transactions /\ r.local = tra[i].local
  BY <1>0, <1>1, <1>2, TypedTra DEF Transaction
<1> HIDE DEF r
<1>5. Goes(i, r.pc) /\ tra'[i] = r
  BY <1>1, <1>3, <1>4, GoesTo
<1>6. /\ UNCHANGED <<header, tip, lock, dbb, cache, swept>>
  BY <1>1 DEF Extend, At, pages, bounds
<1> QED
  BY <1>1, <1>2, <1>4, <1>5, <1>6 DEF pc, KeepsNumbers, KeepsPages, KeepsLimits, KeepsSweep, KeepsView

LEMMA ExtendReads ==
  ASSUME TypeInv, NEW i \in Numbers, Extend(i),
         Empty(tra[i].proc) \/ ~(tra[i].top < (BackPage(tra[i].proc) + 1) * TransPerTip)
  PROVE  /\ tra[i].pc \in {"extend"}
         /\ Goes(i, "fill")
         /\ KeepsNumbers(i) /\ KeepsLimits(i) /\ KeepsSweep(i) /\ KeepsView(i)
         /\ tra'[i].local.next = Page(Most(ReadFrom(tra[i].proc), header.oit))
         /\ tra'[i].local.last = Page(header.nt)
         /\ tra'[i].local.trim = header.oit
         /\ UNCHANGED <<header, tip, lock, dbb, cache, swept>>
<1> DEFINE pc == "fill"
           next == Page(Most(ReadFrom(tra[i].proc), header.oit))
           last == Page(header.nt)
           trim == header.oit
           l == [tra[i].local EXCEPT !.trim = trim, !.next = next, !.last = last]
           r == [tra[i] EXCEPT !.local = l, !.pc = pc]
<1>1. tra[i] \in Transaction /\ tra[i].pc \in {"extend"}
  BY LiveIs DEF Extend, At
<1>20. next \in Nat
  BY <1>1, FrontTypes, TypedTra
<1>21. last \in Nat
  BY <1>1, FrontTypes, TypedTra
<1>22. trim \in Nat
  BY <1>1, HeaderType
<1> HIDE DEF next, last, trim
<1>19. tra[i].local \in Local
  BY <1>1, TypedTra
<1>2. /\ l \in Local
      /\ l.next = next /\ l.last = last /\ l.trim = trim
      /\ l.active = tra[i].local.active /\ l.oat = tra[i].local.oat /\ l.new = tra[i].local.new
      /\ l.saved = tra[i].local.saved /\ l.marked = tra[i].local.marked
  BY <1>19, <1>20, <1>21, <1>22 DEF Local, Unused, States
<1>30. tra' = [tra EXCEPT ![i].pc = pc, ![i].local.trim = trim, ![i].local.next = next, ![i].local.last = last]
  BY <1>1, CachedIs DEF Extend, At, ReadFrom, next, last, trim
<1>3. tra' = [tra EXCEPT ![i] = r]
  BY <1>1, <1>30, TypedTra
<1>0. pc \in TraPc
  BY <1>1 DEF TraPc, Starting, Looking
<1> HIDE DEF l, pc
<1>4. /\ r \in Transaction
      /\ r.pc = pc /\ r.proc = tra[i].proc /\ r.kind = tra[i].kind
      /\ r.number = tra[i].number /\ r.top = tra[i].top /\ r.oldest = tra[i].oldest
      /\ r.oldest_active = tra[i].oldest_active /\ r.transactions = tra[i].transactions /\ r.local = l
  BY <1>0, <1>1, <1>2, <1>20, <1>21, <1>22, TypedTra DEF Transaction
<1> HIDE DEF r
<1>5. Goes(i, r.pc) /\ tra'[i] = r
  BY <1>1, <1>3, <1>4, GoesTo
<1>6. /\ UNCHANGED <<header, tip, lock, dbb, cache, swept>>
  BY <1>1 DEF Extend, At, pages, bounds
<1> QED
  BY <1>1, <1>2, <1>4, <1>5, <1>6 DEF pc, next, last, trim, KeepsNumbers, KeepsLimits, KeepsSweep, KeepsView

LEMMA ScanPublish ==
  ASSUME TypeInv, NEW i \in Numbers, NEW n \in Nat, ScanTo(i, n),
         n = tra[i].top
  PROVE  /\ tra[i].pc \in {"scan"}
         /\ Goes(i, "publish")
         /\ KeepsNumbers(i) /\ KeepsPages(i) /\ KeepsLimits(i) /\ KeepsSweep(i) /\ KeepsView(i)
         /\ UNCHANGED <<header, tip, lock, dbb, cache, swept>>
<1> DEFINE pc == "publish"
           l == tra[i].local
           r == [tra[i] EXCEPT !.pc = pc]
<1>1. tra[i] \in Transaction /\ tra[i].pc \in {"scan"}
  BY LiveIs DEF ScanTo, At
<1>19. tra[i].local \in Local
  BY <1>1, TypedTra
<1>2. /\ l \in Local
      /\ l.next = tra[i].local.next /\ l.last = tra[i].local.last /\ l.trim = tra[i].local.trim
      /\ l.active = tra[i].local.active /\ l.oat = tra[i].local.oat /\ l.new = tra[i].local.new
      /\ l.saved = tra[i].local.saved /\ l.marked = tra[i].local.marked
  BY <1>19 DEF Local, Unused, States
<1>3. tra' = [tra EXCEPT ![i] = r]
  BY <1>1, TypedTra DEF ScanTo, At
<1>0. pc \in TraPc
  BY <1>1 DEF TraPc, Starting, Looking
<1> HIDE DEF l, pc
<1>4. /\ r \in Transaction
      /\ r.pc = pc /\ r.proc = tra[i].proc /\ r.kind = tra[i].kind
      /\ r.number = tra[i].number /\ r.top = tra[i].top /\ r.oldest = tra[i].oldest
      /\ r.oldest_active = tra[i].oldest_active /\ r.transactions = tra[i].transactions /\ r.local = tra[i].local
  BY <1>0, <1>1, <1>2, TypedTra DEF Transaction
<1> HIDE DEF r
<1>5. Goes(i, r.pc) /\ tra'[i] = r
  BY <1>1, <1>3, <1>4, GoesTo
<1>6. /\ UNCHANGED <<header, tip, lock, dbb, cache, swept>>
  BY <1>1 DEF ScanTo, At, pages, bounds
<1> QED
  BY <1>1, <1>2, <1>4, <1>5, <1>6 DEF pc, KeepsNumbers, KeepsPages, KeepsLimits, KeepsSweep, KeepsView

LEMMA ScanSettle ==
  ASSUME TypeInv, NEW i \in Numbers, NEW n \in Nat, ScanTo(i, n),
         n # tra[i].top, lock[n] = 0, tra[i].local.cleanup
  PROVE  /\ tra[i].pc \in {"scan"}
         /\ Goes(i, "settle")
         /\ KeepsNumbers(i) /\ KeepsPages(i) /\ KeepsSweep(i) /\ KeepsView(i)
         /\ tra'[i].local.active = n
         /\ tra'[i].local.oat = tra[i].local.oat
         /\ tra'[i].oldest_active = tra[i].oldest_active
         /\ UNCHANGED <<header, tip, lock, dbb, cache, swept>>
<1> DEFINE pc == "settle"
           l == [tra[i].local EXCEPT !.active = n]
           r == [tra[i] EXCEPT !.local = l, !.pc = pc]
<1>1. tra[i] \in Transaction /\ tra[i].pc \in {"scan"}
  BY LiveIs DEF ScanTo, At
<1>19. tra[i].local \in Local
  BY <1>1, TypedTra
<1>2. /\ l \in Local
      /\ l.next = tra[i].local.next /\ l.last = tra[i].local.last /\ l.trim = tra[i].local.trim
      /\ l.active = n /\ l.oat = tra[i].local.oat /\ l.new = tra[i].local.new
      /\ l.saved = tra[i].local.saved /\ l.marked = tra[i].local.marked
  BY <1>19 DEF Local, Unused, States
<1>3. tra' = [tra EXCEPT ![i] = r]
  BY <1>1, TypedTra DEF ScanTo, At
<1>0. pc \in TraPc
  BY <1>1 DEF TraPc, Starting, Looking
<1> HIDE DEF l, pc
<1>4. /\ r \in Transaction
      /\ r.pc = pc /\ r.proc = tra[i].proc /\ r.kind = tra[i].kind
      /\ r.number = tra[i].number /\ r.top = tra[i].top /\ r.oldest = tra[i].oldest
      /\ r.oldest_active = tra[i].oldest_active /\ r.transactions = tra[i].transactions /\ r.local = l
  BY <1>0, <1>1, <1>2, TypedTra DEF Transaction
<1> HIDE DEF r
<1>5. Goes(i, r.pc) /\ tra'[i] = r
  BY <1>1, <1>3, <1>4, GoesTo
<1>6. /\ UNCHANGED <<header, tip, lock, dbb, cache, swept>>
  BY <1>1 DEF ScanTo, At, pages, bounds
<1> QED
  BY <1>1, <1>2, <1>4, <1>5, <1>6 DEF pc, KeepsNumbers, KeepsPages, KeepsSweep, KeepsView

LEMMA ScanQuery ==
  ASSUME TypeInv, NEW i \in Numbers, NEW n \in Numbers, ScanTo(i, n),
         n # tra[i].top, ~(lock[n] = 0 /\ tra[i].local.cleanup)
  PROVE  /\ tra[i].pc \in {"scan"}
         /\ Goes(i, IF Least(tra[i].oldest_active, IF n < tra[i].top /\ lock[n] # 0 THEN lock[n] ELSE n) = tra[i].local.ost THEN "publish" ELSE "query")
         /\ KeepsNumbers(i) /\ KeepsPages(i) /\ KeepsSweep(i) /\ KeepsView(i)
         /\ tra'[i].local.active = tra[i].local.active
         /\ tra'[i].local.oat = Least(tra[i].local.oat, n)
         /\ tra'[i].oldest_active = Least(tra[i].oldest_active, IF n < tra[i].top /\ lock[n] # 0 THEN lock[n] ELSE n)
         /\ UNCHANGED <<header, tip, lock, dbb, cache, swept>>
<1> DEFINE pc == IF Least(tra[i].oldest_active, IF n < tra[i].top /\ lock[n] # 0 THEN lock[n] ELSE n) = tra[i].local.ost THEN "publish" ELSE "query"
           lim == Least(tra[i].oldest_active, IF n < tra[i].top /\ lock[n] # 0 THEN lock[n] ELSE n)
           oat == Least(tra[i].local.oat, n)
           l == [tra[i].local EXCEPT !.oat = oat]
           r == [tra[i] EXCEPT !.oldest_active = lim, !.local = l, !.pc = pc]
<1>1. tra[i] \in Transaction /\ tra[i].pc \in {"scan"}
  BY LiveIs DEF ScanTo, At
<1>20. lim \in Nat
  BY <1>1, LeastNat, LockNat, TypedTra
<1>21. oat \in Nat
  BY <1>1, LeastNat, LockNat, TypedTra
<1> HIDE DEF lim, oat
<1>19. tra[i].local \in Local
  BY <1>1, TypedTra
<1>2. /\ l \in Local
      /\ l.next = tra[i].local.next /\ l.last = tra[i].local.last /\ l.trim = tra[i].local.trim
      /\ l.active = tra[i].local.active /\ l.oat = oat /\ l.new = tra[i].local.new
      /\ l.saved = tra[i].local.saved /\ l.marked = tra[i].local.marked
  BY <1>19, <1>20, <1>21 DEF Local, Unused, States
<1>3. tra' = [tra EXCEPT ![i] = r]
  BY <1>1, TypedTra DEF ScanTo, At, lim, oat
<1>0. pc \in TraPc
  BY <1>1 DEF TraPc, Starting, Looking
<1> HIDE DEF l, pc
<1>4. /\ r \in Transaction
      /\ r.pc = pc /\ r.proc = tra[i].proc /\ r.kind = tra[i].kind
      /\ r.number = tra[i].number /\ r.top = tra[i].top /\ r.oldest = tra[i].oldest
      /\ r.oldest_active = lim /\ r.transactions = tra[i].transactions /\ r.local = l
  BY <1>0, <1>1, <1>2, <1>20, <1>21, TypedTra DEF Transaction
<1> HIDE DEF r
<1>5. Goes(i, r.pc) /\ tra'[i] = r
  BY <1>1, <1>3, <1>4, GoesTo
<1>6. /\ UNCHANGED <<header, tip, lock, dbb, cache, swept>>
  BY <1>1 DEF ScanTo, At, pages, bounds
<1> QED
  BY <1>1, <1>2, <1>4, <1>5, <1>6 DEF pc, lim, oat, KeepsNumbers, KeepsPages, KeepsSweep, KeepsView

LEMMA CleanEffect ==
  ASSUME TypeInv, NEW i \in Numbers, Clean(i),
         tra[i].local.active \in 0..MaxTra
  PROVE  /\ tra[i].pc \in {"settle"}
         /\ Goes(i, "scan")
         /\ KeepsNumbers(i) /\ KeepsPages(i) /\ KeepsSweep(i)
         /\ tra'[i].local.active = tra[i].local.active + 1
         /\ tra'[i].local.oat = tra[i].local.oat
         /\ tra'[i].oldest_active = tra[i].oldest_active
         /\ \A m \in 0..MaxTra : tra'[i].transactions[m] =
              IF m = tra[i].local.active /\ tra[i].kind = "snapshot"
              THEN Settled(GetState(tra[i].proc, tra[i].local.active)) ELSE tra[i].transactions[m]
         /\ Readable(tra[i].proc, tra[i].local.active)
         /\ Settle(i, tra[i].local.active, GetState(tra[i].proc, tra[i].local.active))
         /\ UNCHANGED <<header, lock, dbb, swept>>
<1> DEFINE pc == "scan"
           cleanup == GetState(tra[i].proc, tra[i].local.active) # "committed"
           act == tra[i].local.active + 1
           set == IF tra[i].kind = "snapshot" THEN Settled(GetState(tra[i].proc, tra[i].local.active)) ELSE tra[i].transactions[tra[i].local.active]
           view == [tra[i].transactions EXCEPT ![tra[i].local.active] = set]
           l == [tra[i].local EXCEPT !.active = act, !.cleanup = cleanup]
           r == [tra[i] EXCEPT !.transactions = view, !.local = l, !.pc = pc]
<1>1. tra[i] \in Transaction /\ tra[i].pc \in {"settle"}
  BY LiveIs DEF Clean, At
<1>20. cleanup = TRUE \/ cleanup = FALSE
  BY <1>1, Zenon DEF cleanup
<1>21. act \in Nat
  BY <1>1, TypedTra
<1>22. set \in States
  BY <1>1, GetStateType, TypedTra DEF Settled, States, Inventory
<1> HIDE DEF cleanup, act, set
<1>19. tra[i].local \in Local
  BY <1>1, TypedTra
<1>2. /\ l \in Local
      /\ l.next = tra[i].local.next /\ l.last = tra[i].local.last /\ l.trim = tra[i].local.trim
      /\ l.active = act /\ l.oat = tra[i].local.oat /\ l.new = tra[i].local.new
      /\ l.saved = tra[i].local.saved /\ l.marked = tra[i].local.marked
  <2>1. CASE cleanup = TRUE
    BY <1>19, <2>1, <1>20, <1>21, <1>22 DEF Local
  <2>2. CASE cleanup = FALSE
    BY <1>19, <2>2, <1>20, <1>21, <1>22 DEF Local
  <2> QED
    BY <1>20, <2>1, <2>2, Zenon
<1>30. tra' = [tra EXCEPT ![i].transactions[tra[i].local.active] = set, ![i].local.cleanup = cleanup, ![i].local.active = act, ![i].pc = pc]
  BY <1>1 DEF Clean, At, cleanup, act, set
<1>31. [tra[i] EXCEPT !.transactions[tra[i].local.active] = set, !.local.cleanup = cleanup, !.local.active = act, !.pc = pc] = r
  <2>1. tra[i].local \in Local /\ tra[i].transactions \in Inventory
    BY <1>1, TypedTra
  <2> QED
    BY <1>1, <2>1 DEF Transaction, Local
<1>32. tra' = [tra EXCEPT ![i] = [tra[i] EXCEPT !.transactions[tra[i].local.active] = set, !.local.cleanup = cleanup, !.local.active = act, !.pc = pc]]
  BY <1>30, Zenon
<1>3. tra' = [tra EXCEPT ![i] = r]
  BY <1>31, <1>32, Zenon
<1>6. view \in Inventory
  BY <1>1, <1>22, TypedTra DEF Inventory
<1>7. \A m \in 0..MaxTra : view[m] =
              IF m = tra[i].local.active /\ tra[i].kind = "snapshot"
              THEN Settled(GetState(tra[i].proc, tra[i].local.active)) ELSE tra[i].transactions[m]
  BY <1>1, TypedTra DEF Inventory, set
<1>0. pc \in TraPc
  BY <1>1 DEF TraPc, Starting, Looking
<1> HIDE DEF l, pc, view
<1>4. /\ r \in Transaction
      /\ r.pc = pc /\ r.proc = tra[i].proc /\ r.kind = tra[i].kind
      /\ r.number = tra[i].number /\ r.top = tra[i].top /\ r.oldest = tra[i].oldest
      /\ r.oldest_active = tra[i].oldest_active /\ r.transactions = view /\ r.local = l
  BY <1>0, <1>1, <1>2, <1>20, <1>21, <1>22, <1>6, <1>7, TypedTra DEF Transaction
<1> HIDE DEF r
<1>5. Goes(i, r.pc) /\ tra'[i] = r
  BY <1>1, <1>3, <1>4, GoesTo
<1>8. \A m \in 0..MaxTra : tra'[i].transactions[m] =
              IF m = tra[i].local.active /\ tra[i].kind = "snapshot"
              THEN Settled(GetState(tra[i].proc, tra[i].local.active)) ELSE tra[i].transactions[m]
  BY <1>4, <1>5, <1>7
<1>9. /\ Readable(tra[i].proc, tra[i].local.active)
      /\ Settle(i, tra[i].local.active, GetState(tra[i].proc, tra[i].local.active))
      /\ UNCHANGED <<header, lock, dbb, swept>>
  BY <1>1 DEF Clean, At, pages, bounds
<1> QED
  BY <1>1, <1>2, <1>4, <1>5, <1>6, <1>7, <1>8, <1>9 DEF pc, cleanup, act, set, KeepsNumbers, KeepsPages, KeepsSweep, view

LEMMA QueryEffect ==
  ASSUME TypeInv, NEW i \in Numbers, Query(i),
         lock[tra[i].number] # 0, tra[i].number \in Numbers
  PROVE  /\ tra[i].pc \in {"query"}
         /\ Goes(i, "publish")
         /\ KeepsNumbers(i) /\ KeepsPages(i) /\ KeepsSweep(i) /\ KeepsView(i)
         /\ tra'[i].local.active = tra[i].local.active
         /\ tra'[i].local.oat = tra[i].local.oat
         /\ tra'[i].oldest_active = Least(tra[i].oldest_active, OldestData)
         /\ UNCHANGED <<header, tip, lock, dbb, cache, swept>>
<1> DEFINE pc == "publish"
           lim == Least(tra[i].oldest_active, OldestData)
           l == tra[i].local
           r == [tra[i] EXCEPT !.oldest_active = lim, !.pc = pc]
<1>1. tra[i] \in Transaction /\ tra[i].pc \in {"query"}
  BY LiveIs DEF Query, At
<1>20. lim \in Nat
  BY <1>1, LeastNat, DataMin, TypedTra
<1> HIDE DEF lim
<1>19. tra[i].local \in Local
  BY <1>1, TypedTra
<1>2. /\ l \in Local
      /\ l.next = tra[i].local.next /\ l.last = tra[i].local.last /\ l.trim = tra[i].local.trim
      /\ l.active = tra[i].local.active /\ l.oat = tra[i].local.oat /\ l.new = tra[i].local.new
      /\ l.saved = tra[i].local.saved /\ l.marked = tra[i].local.marked
  BY <1>19, <1>20 DEF Local, Unused, States
<1>3. tra' = [tra EXCEPT ![i] = r]
  BY <1>1, TypedTra DEF Query, At, lim
<1>0. pc \in TraPc
  BY <1>1 DEF TraPc, Starting, Looking
<1> HIDE DEF l, pc
<1>4. /\ r \in Transaction
      /\ r.pc = pc /\ r.proc = tra[i].proc /\ r.kind = tra[i].kind
      /\ r.number = tra[i].number /\ r.top = tra[i].top /\ r.oldest = tra[i].oldest
      /\ r.oldest_active = lim /\ r.transactions = tra[i].transactions /\ r.local = tra[i].local
  BY <1>0, <1>1, <1>2, <1>20, TypedTra DEF Transaction
<1> HIDE DEF r
<1>5. Goes(i, r.pc) /\ tra'[i] = r
  BY <1>1, <1>3, <1>4, GoesTo
<1>6. /\ UNCHANGED <<header, tip, lock, dbb, cache, swept>>
  BY <1>1 DEF Query, At, pages, bounds
<1> QED
  BY <1>1, <1>2, <1>4, <1>5, <1>6 DEF pc, lim, KeepsNumbers, KeepsPages, KeepsSweep, KeepsView

LEMMA PublishEffect ==
  ASSUME TypeInv, NEW i \in Numbers, Publish(i)
  PROVE  /\ tra[i].pc \in {"publish"}
         /\ Goes(i, IF tra[i].kind = "sweep" THEN "precommit" ELSE "running")
         /\ KeepsView(i)
         /\ tra'[i].number = tra[i].number
         /\ tra'[i].local.new = 0
         /\ tra'[i].local.next = 0
         /\ tra'[i].local.last = 0
         /\ tra'[i].local.trim = 0
         /\ tra'[i].local.active = 0
         /\ tra'[i].local.oat = 0
         /\ tra'[i].oldest_active = tra[i].oldest_active
         /\ tra'[i].local.saved = 0
         /\ tra'[i].local.marked = {}
         /\ lock' = [lock EXCEPT ![tra[i].number] = LockData(tra[i])]
         /\ \E oldest \in Interesting(tra[i]) : dbb' = [dbb EXCEPT ![tra[i].proc] = Raised(dbb[tra[i].proc], tra[i], oldest)]
         /\ UNCHANGED <<header, tip, cache, swept>>
<1> DEFINE pc == IF tra[i].kind = "sweep" THEN "precommit" ELSE "running"
           l == Unused
           r == [tra[i] EXCEPT !.local = l, !.pc = pc]
<1>1. tra[i] \in Transaction /\ tra[i].pc \in {"publish"}
  BY LiveIs DEF Publish, At
<1>19. tra[i].local \in Local
  BY <1>1, TypedTra
<1>2. /\ l \in Local
      /\ l.next = 0 /\ l.last = 0 /\ l.trim = 0
      /\ l.active = 0 /\ l.oat = 0 /\ l.new = 0
      /\ l.saved = 0 /\ l.marked = {}
  BY <1>19 DEF Local, Unused, States
<1>3. tra' = [tra EXCEPT ![i] = r]
  BY <1>1, TypedTra DEF Publish, At
<1>0. pc \in TraPc
  BY <1>1 DEF TraPc, Starting, Looking
<1> HIDE DEF l, pc
<1>4. /\ r \in Transaction
      /\ r.pc = pc /\ r.proc = tra[i].proc /\ r.kind = tra[i].kind
      /\ r.number = tra[i].number /\ r.top = tra[i].top /\ r.oldest = tra[i].oldest
      /\ r.oldest_active = tra[i].oldest_active /\ r.transactions = tra[i].transactions /\ r.local = l
  BY <1>0, <1>1, <1>2, TypedTra DEF Transaction
<1> HIDE DEF r
<1>5. Goes(i, r.pc) /\ tra'[i] = r
  BY <1>1, <1>3, <1>4, GoesTo
<1>6. /\ lock' = [lock EXCEPT ![tra[i].number] = LockData(tra[i])]
      /\ \E oldest \in Interesting(tra[i]) : dbb' = [dbb EXCEPT ![tra[i].proc] = Raised(dbb[tra[i].proc], tra[i], oldest)]
      /\ UNCHANGED <<header, tip, cache, swept>>
  BY <1>1 DEF Publish, At, pages, bounds
<1> QED
  BY <1>1, <1>2, <1>4, <1>5, <1>6 DEF pc, KeepsView

LEMMA EndEffect ==
  ASSUME TypeInv, NEW i \in Numbers, NEW state \in Ends, End(i, state)
  PROVE  /\ tra[i].pc \in {"running", "precommit"}
         /\ Goes(i, "release")
         /\ KeepsNumbers(i) /\ KeepsPages(i) /\ KeepsLimits(i) /\ KeepsSweep(i) /\ KeepsView(i)
         /\ tra[i].pc = "running" => tra[i].kind # "sweep"
         /\ SetState(tra[i].proc, tra[i].number, state)
         /\ UNCHANGED <<header, lock, dbb, swept>>
<1> DEFINE pc == "release"
           l == tra[i].local
           r == [tra[i] EXCEPT !.pc = pc]
<1>1. tra[i] \in Transaction /\ tra[i].pc \in {"running", "precommit"}
  BY LiveIs DEF End, At
<1>19. tra[i].local \in Local
  BY <1>1, TypedTra
<1>2. /\ l \in Local
      /\ l.next = tra[i].local.next /\ l.last = tra[i].local.last /\ l.trim = tra[i].local.trim
      /\ l.active = tra[i].local.active /\ l.oat = tra[i].local.oat /\ l.new = tra[i].local.new
      /\ l.saved = tra[i].local.saved /\ l.marked = tra[i].local.marked
  BY <1>19 DEF Local, Unused, States
<1>3. tra' = [tra EXCEPT ![i] = r]
  BY <1>1, TypedTra DEF End, At
<1>0. pc \in TraPc
  BY <1>1 DEF TraPc, Starting, Looking
<1> HIDE DEF l, pc
<1>4. /\ r \in Transaction
      /\ r.pc = pc /\ r.proc = tra[i].proc /\ r.kind = tra[i].kind
      /\ r.number = tra[i].number /\ r.top = tra[i].top /\ r.oldest = tra[i].oldest
      /\ r.oldest_active = tra[i].oldest_active /\ r.transactions = tra[i].transactions /\ r.local = tra[i].local
  BY <1>0, <1>1, <1>2, TypedTra DEF Transaction
<1> HIDE DEF r
<1>5. Goes(i, r.pc) /\ tra'[i] = r
  BY <1>1, <1>3, <1>4, GoesTo
<1>6. /\ tra[i].pc = "running" => tra[i].kind # "sweep"
      /\ SetState(tra[i].proc, tra[i].number, state)
      /\ UNCHANGED <<header, lock, dbb, swept>>
  BY <1>1 DEF End, At, pages, bounds
<1> QED
  BY <1>1, <1>2, <1>4, <1>5, <1>6 DEF pc, KeepsNumbers, KeepsPages, KeepsLimits, KeepsSweep, KeepsView

LEMMA ReleaseSweep ==
  ASSUME TypeInv, NEW i \in Numbers, Release(i),
         tra[i].kind = "sweep"
  PROVE  /\ tra[i].pc \in {"release"}
         /\ Goes(i, "running")
         /\ KeepsNumbers(i) /\ KeepsPages(i) /\ KeepsLimits(i) /\ KeepsSweep(i) /\ KeepsView(i)
         /\ lock' = [lock EXCEPT ![tra[i].number] = 0]
         /\ UNCHANGED <<header, tip, dbb, cache, swept>>
<1> DEFINE pc == "running"
           l == tra[i].local
           r == [tra[i] EXCEPT !.pc = pc]
<1>1. tra[i] \in Transaction /\ tra[i].pc \in {"release"}
  BY LiveIs DEF Release, At
<1>19. tra[i].local \in Local
  BY <1>1, TypedTra
<1>2. /\ l \in Local
      /\ l.next = tra[i].local.next /\ l.last = tra[i].local.last /\ l.trim = tra[i].local.trim
      /\ l.active = tra[i].local.active /\ l.oat = tra[i].local.oat /\ l.new = tra[i].local.new
      /\ l.saved = tra[i].local.saved /\ l.marked = tra[i].local.marked
  BY <1>19 DEF Local, Unused, States
<1>3. tra' = [tra EXCEPT ![i] = r]
  BY <1>1, TypedTra DEF Release, At
<1>0. pc \in TraPc
  BY <1>1 DEF TraPc, Starting, Looking
<1> HIDE DEF l, pc
<1>4. /\ r \in Transaction
      /\ r.pc = pc /\ r.proc = tra[i].proc /\ r.kind = tra[i].kind
      /\ r.number = tra[i].number /\ r.top = tra[i].top /\ r.oldest = tra[i].oldest
      /\ r.oldest_active = tra[i].oldest_active /\ r.transactions = tra[i].transactions /\ r.local = tra[i].local
  BY <1>0, <1>1, <1>2, TypedTra DEF Transaction
<1> HIDE DEF r
<1>5. Goes(i, r.pc) /\ tra'[i] = r
  BY <1>1, <1>3, <1>4, GoesTo
<1>6. /\ lock' = [lock EXCEPT ![tra[i].number] = 0]
      /\ UNCHANGED <<header, tip, dbb, cache, swept>>
  BY <1>1 DEF Release, At, pages, bounds
<1> QED
  BY <1>1, <1>2, <1>4, <1>5, <1>6 DEF pc, KeepsNumbers, KeepsPages, KeepsLimits, KeepsSweep, KeepsView

LEMMA RetainEffect ==
  ASSUME TypeInv, NEW i \in Numbers, NEW state \in Ends, Retain(i, state)
  PROVE  /\ tra[i].pc \in {"running"}
         /\ tra[i].kind # "sweep"
         /\ Goes(i, "retain")
         /\ KeepsPages(i) /\ KeepsLimits(i) /\ KeepsSweep(i) /\ KeepsView(i)
         /\ tra'[i].number = tra[i].number
         /\ tra'[i].local.new = header.nt + 1
         /\ header.nt + 1 <= MaxTra
         /\ header' = Bumped(tra[i].proc)
         /\ lock' = [lock EXCEPT ![header.nt + 1] = lock[tra[i].number]]
         /\ UNCHANGED <<tip, dbb, cache, swept>>
<1> DEFINE pc == "retain"
           new == header.nt + 1
           subs == IF state = "committed" THEN tra[i].subs \union {tra[i].number} ELSE tra[i].subs
           l == [tra[i].local EXCEPT !.new = new, !.state = state]
           r == [tra[i] EXCEPT !.subs = subs, !.local = l, !.pc = pc]
<1>1. tra[i] \in Transaction /\ tra[i].pc \in {"running"} /\ tra[i].kind # "sweep"
  BY LiveIs DEF Retain, At
<1>20. new \in Nat /\ state \in States
  BY <1>1, HeaderType, EndsType
<1>21. subs \in SUBSET Nat
  BY <1>1, TypedTra
<1> HIDE DEF new, subs
<1>19. tra[i].local \in Local
  BY <1>1, TypedTra
<1>2. /\ l \in Local
      /\ l.next = tra[i].local.next /\ l.last = tra[i].local.last /\ l.trim = tra[i].local.trim
      /\ l.active = tra[i].local.active /\ l.oat = tra[i].local.oat /\ l.new = new
      /\ l.saved = tra[i].local.saved /\ l.marked = tra[i].local.marked
  BY <1>19, <1>20, <1>21 DEF Local, Unused, States
<1>30. tra' = [tra EXCEPT ![i].pc = pc, ![i].local.new = new, ![i].local.state = state, ![i].subs = subs]
  BY <1>1, BumpedNext, TypedTra DEF Retain, At, new, subs
<1>3. tra' = [tra EXCEPT ![i] = r]
  BY <1>1, <1>30, TypedTra
<1>0. pc \in TraPc
  BY <1>1 DEF TraPc, Starting, Looking
<1> HIDE DEF l, pc
<1>4. /\ r \in Transaction
      /\ r.pc = pc /\ r.proc = tra[i].proc /\ r.kind = tra[i].kind
      /\ r.number = tra[i].number /\ r.top = tra[i].top /\ r.oldest = tra[i].oldest
      /\ r.oldest_active = tra[i].oldest_active /\ r.transactions = tra[i].transactions /\ r.local = l
  BY <1>0, <1>1, <1>2, <1>20, <1>21, TypedTra DEF Transaction
<1> HIDE DEF r
<1>5. Goes(i, r.pc) /\ tra'[i] = r
  BY <1>1, <1>3, <1>4, GoesTo
<1>6. /\ header.nt + 1 <= MaxTra
      /\ header' = Bumped(tra[i].proc)
      /\ lock' = [lock EXCEPT ![header.nt + 1] = lock[tra[i].number]]
      /\ UNCHANGED <<tip, dbb, cache, swept>>
  BY <1>1, BumpedNext, TypedTra DEF Retain, At, pages, bounds
<1> QED
  BY <1>1, <1>2, <1>4, <1>5, <1>6 DEF pc, new, subs, KeepsPages, KeepsLimits, KeepsSweep, KeepsView

LEMMA RetainStateEffect ==
  ASSUME TypeInv, NEW i \in Numbers, RetainState(i)
  PROVE  /\ tra[i].pc \in {"retain"}
         /\ Goes(i, "retained")
         /\ KeepsNumbers(i) /\ KeepsPages(i) /\ KeepsLimits(i) /\ KeepsSweep(i) /\ KeepsView(i)
         /\ SetState(tra[i].proc, tra[i].number, tra[i].local.state)
         /\ UNCHANGED <<header, lock, dbb, swept>>
<1> DEFINE pc == "retained"
           l == tra[i].local
           r == [tra[i] EXCEPT !.pc = pc]
<1>1. tra[i] \in Transaction /\ tra[i].pc \in {"retain"}
  BY LiveIs DEF RetainState, At
<1>19. tra[i].local \in Local
  BY <1>1, TypedTra
<1>2. /\ l \in Local
      /\ l.next = tra[i].local.next /\ l.last = tra[i].local.last /\ l.trim = tra[i].local.trim
      /\ l.active = tra[i].local.active /\ l.oat = tra[i].local.oat /\ l.new = tra[i].local.new
      /\ l.saved = tra[i].local.saved /\ l.marked = tra[i].local.marked
  BY <1>19 DEF Local, Unused, States
<1>3. tra' = [tra EXCEPT ![i] = r]
  BY <1>1, TypedTra DEF RetainState, At
<1>0. pc \in TraPc
  BY <1>1 DEF TraPc, Starting, Looking
<1> HIDE DEF l, pc
<1>4. /\ r \in Transaction
      /\ r.pc = pc /\ r.proc = tra[i].proc /\ r.kind = tra[i].kind
      /\ r.number = tra[i].number /\ r.top = tra[i].top /\ r.oldest = tra[i].oldest
      /\ r.oldest_active = tra[i].oldest_active /\ r.transactions = tra[i].transactions /\ r.local = tra[i].local
  BY <1>0, <1>1, <1>2, TypedTra DEF Transaction
<1> HIDE DEF r
<1>5. Goes(i, r.pc) /\ tra'[i] = r
  BY <1>1, <1>3, <1>4, GoesTo
<1>6. /\ SetState(tra[i].proc, tra[i].number, tra[i].local.state)
      /\ UNCHANGED <<header, lock, dbb, swept>>
  BY <1>1 DEF RetainState, At, pages, bounds
<1> QED
  BY <1>1, <1>2, <1>4, <1>5, <1>6 DEF pc, KeepsNumbers, KeepsPages, KeepsLimits, KeepsSweep, KeepsView

LEMMA RetainEndEffect ==
  ASSUME TypeInv, NEW i \in Numbers, RetainEnd(i)
  PROVE  /\ tra[i].pc \in {"retained"}
         /\ Goes(i, "running")
         /\ KeepsView(i)
         /\ tra'[i].number = tra[i].local.new
         /\ tra'[i].local.new = 0
         /\ tra'[i].local.next = 0
         /\ tra'[i].local.last = 0
         /\ tra'[i].local.trim = 0
         /\ tra'[i].local.active = 0
         /\ tra'[i].local.oat = 0
         /\ tra'[i].oldest_active = tra[i].oldest_active
         /\ tra'[i].local.saved = 0
         /\ tra'[i].local.marked = {}
         /\ lock' = [lock EXCEPT ![tra[i].number] = 0]
         /\ UNCHANGED <<header, tip, dbb, cache, swept>>
<1> DEFINE pc == "running"
           l == Unused
           r == [tra[i] EXCEPT !.number = tra[i].local.new, !.local = l, !.pc = pc]
<1>1. tra[i] \in Transaction /\ tra[i].pc \in {"retained"}
  BY LiveIs DEF RetainEnd, At
<1>19. tra[i].local \in Local
  BY <1>1, TypedTra
<1>2. /\ l \in Local
      /\ l.next = 0 /\ l.last = 0 /\ l.trim = 0
      /\ l.active = 0 /\ l.oat = 0 /\ l.new = 0
      /\ l.saved = 0 /\ l.marked = {}
  BY <1>19 DEF Local, Unused, States
<1>3. tra' = [tra EXCEPT ![i] = r]
  BY <1>1, TypedTra DEF RetainEnd, At
<1>0. pc \in TraPc
  BY <1>1 DEF TraPc, Starting, Looking
<1> HIDE DEF l, pc
<1>4. /\ r \in Transaction
      /\ r.pc = pc /\ r.proc = tra[i].proc /\ r.kind = tra[i].kind
      /\ r.number = tra[i].local.new /\ r.top = tra[i].top /\ r.oldest = tra[i].oldest
      /\ r.oldest_active = tra[i].oldest_active /\ r.transactions = tra[i].transactions /\ r.local = l
  BY <1>0, <1>1, <1>2, TypedTra DEF Transaction
<1> HIDE DEF r
<1>5. Goes(i, r.pc) /\ tra'[i] = r
  BY <1>1, <1>3, <1>4, GoesTo
<1>6. /\ lock' = [lock EXCEPT ![tra[i].number] = 0]
      /\ UNCHANGED <<header, tip, dbb, cache, swept>>
  BY <1>1 DEF RetainEnd, At, pages, bounds
<1> QED
  BY <1>1, <1>2, <1>4, <1>5, <1>6 DEF pc, KeepsView

LEMMA WaitEffect ==
  ASSUME TypeInv, NEW i \in Numbers, NEW n \in Numbers, Wait(i, n)
  PROVE  /\ tra[i].pc \in {"running"}
         /\ tra[i].kind # "sweep"
         /\ Goes(i, "running")
         /\ KeepsNumbers(i) /\ KeepsPages(i) /\ KeepsLimits(i) /\ KeepsSweep(i)
         /\ \A m \in 0..MaxTra : tra'[i].transactions[m] =
              IF m = n /\ GetState(tra[i].proc, n) # "committed" /\ n <= tra[i].top /\ tra[i].kind = "snapshot"
              THEN Settled(GetState(tra[i].proc, n)) ELSE tra[i].transactions[m]
         /\ n <= header.nt
         /\ lock[n] = 0
         /\ Readable(tra[i].proc, n)
         /\ Settle(i, n, GetState(tra[i].proc, n))
         /\ UNCHANGED <<header, lock, dbb, swept>>
<1> DEFINE pc == "running"
           settles == GetState(tra[i].proc, n) # "committed" /\ n <= tra[i].top /\ tra[i].kind = "snapshot"
           view == [tra[i].transactions EXCEPT ![n] =
                      IF settles THEN Settled(GetState(tra[i].proc, n)) ELSE tra[i].transactions[n]]
           l == tra[i].local
           r == [tra[i] EXCEPT !.transactions = view, !.pc = pc]
<1>1. tra[i] \in Transaction /\ tra[i].pc \in {"running"} /\ tra[i].kind # "sweep"
  BY LiveIs DEF Wait, At, Obtained
<1>19. tra[i].local \in Local
  BY <1>1, TypedTra
<1>2. /\ l \in Local
      /\ l.next = tra[i].local.next /\ l.last = tra[i].local.last /\ l.trim = tra[i].local.trim
      /\ l.active = tra[i].local.active /\ l.oat = tra[i].local.oat /\ l.new = tra[i].local.new
      /\ l.saved = tra[i].local.saved /\ l.marked = tra[i].local.marked
  BY <1>19 DEF Local, Unused, States
<1>3. tra' = [tra EXCEPT ![i] = r]
  BY <1>1, TypedTra DEF Wait, At
<1>6. Settled(GetState(tra[i].proc, n)) \in States
  BY <1>1, GetStateType, TypedTra DEF Settled, States, Numbers
<1>7. view \in Inventory
  BY <1>1, <1>6, TypedTra DEF Inventory
<1>8. \A m \in 0..MaxTra : view[m] =
              IF m = n /\ GetState(tra[i].proc, n) # "committed" /\ n <= tra[i].top /\ tra[i].kind = "snapshot"
              THEN Settled(GetState(tra[i].proc, n)) ELSE tra[i].transactions[m]
  BY <1>1, TypedTra DEF Inventory
<1>0. pc \in TraPc
  BY <1>1 DEF TraPc, Starting, Looking
<1> HIDE DEF l, pc, view
<1>4. /\ r \in Transaction
      /\ r.pc = pc /\ r.proc = tra[i].proc /\ r.kind = tra[i].kind
      /\ r.number = tra[i].number /\ r.top = tra[i].top /\ r.oldest = tra[i].oldest
      /\ r.oldest_active = tra[i].oldest_active /\ r.transactions = view /\ r.local = tra[i].local
  BY <1>0, <1>1, <1>2, <1>6, <1>7, <1>8, TypedTra DEF Transaction
<1> HIDE DEF r
<1>5. Goes(i, r.pc) /\ tra'[i] = r
  BY <1>1, <1>3, <1>4, GoesTo
<1>9. \A m \in 0..MaxTra : tra'[i].transactions[m] =
              IF m = n /\ GetState(tra[i].proc, n) # "committed" /\ n <= tra[i].top /\ tra[i].kind = "snapshot"
              THEN Settled(GetState(tra[i].proc, n)) ELSE tra[i].transactions[m]
  BY <1>4, <1>5, <1>8
<1>10. /\ n <= header.nt
      /\ lock[n] = 0
      /\ Readable(tra[i].proc, n)
      /\ Settle(i, n, GetState(tra[i].proc, n))
      /\ UNCHANGED <<header, lock, dbb, swept>>
  BY <1>1 DEF Wait, At, Obtained, pages, bounds
<1> QED
  BY <1>1, <1>2, <1>4, <1>5, <1>6, <1>7, <1>8, <1>9, <1>10 DEF pc, KeepsNumbers, KeepsPages, KeepsLimits, KeepsSweep, view

LEMMA SweepEffect ==
  ASSUME TypeInv, NEW i \in Numbers, Sweep(i)
  PROVE  /\ tra[i].pc \in {"running"}
         /\ tra[i].kind = "sweep"
         /\ Goes(i, "sweeping")
         /\ KeepsNumbers(i) /\ KeepsPages(i) /\ KeepsLimits(i) /\ KeepsView(i)
         /\ tra'[i].local.saved = tra[i].oldest_active
         /\ tra'[i].local.marked = {n \in Numbers : tip[n] = "dead"}
         /\ UNCHANGED <<header, tip, lock, dbb, cache, swept>>
<1> DEFINE pc == "sweeping"
           saved == tra[i].oldest_active
           marked == {n \in Numbers : tip[n] = "dead"}
           l == [tra[i].local EXCEPT !.saved = saved, !.marked = marked]
           r == [tra[i] EXCEPT !.local = l, !.pc = pc]
<1>1. tra[i] \in Transaction /\ tra[i].pc \in {"running"} /\ tra[i].kind = "sweep"
  BY LiveIs DEF Sweep, At
<1>20. saved \in Nat
  BY <1>1, TypedTra
<1>21. marked \in SUBSET Numbers
  BY <1>1, Zenon DEF marked
<1> HIDE DEF saved, marked
<1>19. tra[i].local \in Local
  BY <1>1, TypedTra
<1>2. /\ l \in Local
      /\ l.next = tra[i].local.next /\ l.last = tra[i].local.last /\ l.trim = tra[i].local.trim
      /\ l.active = tra[i].local.active /\ l.oat = tra[i].local.oat /\ l.new = tra[i].local.new
      /\ l.saved = saved /\ l.marked = marked
  BY <1>19, <1>20, <1>21 DEF Local, Unused, States
<1>3. tra' = [tra EXCEPT ![i] = r]
  BY <1>1, TypedTra DEF Sweep, At, saved, marked
<1>0. pc \in TraPc
  BY <1>1 DEF TraPc, Starting, Looking
<1> HIDE DEF l, pc
<1>4. /\ r \in Transaction
      /\ r.pc = pc /\ r.proc = tra[i].proc /\ r.kind = tra[i].kind
      /\ r.number = tra[i].number /\ r.top = tra[i].top /\ r.oldest = tra[i].oldest
      /\ r.oldest_active = tra[i].oldest_active /\ r.transactions = tra[i].transactions /\ r.local = l
  BY <1>0, <1>1, <1>2, <1>20, <1>21, TypedTra DEF Transaction
<1> HIDE DEF r
<1>5. Goes(i, r.pc) /\ tra'[i] = r
  BY <1>1, <1>3, <1>4, GoesTo
<1>6. /\ UNCHANGED <<header, tip, lock, dbb, cache, swept>>
  BY <1>1 DEF Sweep, At, pages, bounds
<1> QED
  BY <1>1, <1>2, <1>4, <1>5, <1>6 DEF pc, saved, marked, KeepsNumbers, KeepsPages, KeepsLimits, KeepsView

LEMMA SweptEffect ==
  ASSUME TypeInv, NEW i \in Numbers, Swept(i)
  PROVE  /\ tra[i].pc \in {"sweeping"}
         /\ Goes(i, "advance")
         /\ KeepsNumbers(i) /\ KeepsPages(i) /\ KeepsSweep(i) /\ KeepsView(i)
         /\ tra'[i].local.active = tra[i].local.active
         /\ tra'[i].local.oat = tra[i].local.oat
         /\ tra'[i].oldest_active = dbb[tra[i].proc].ost
         /\ swept' = swept \union tra[i].local.marked
         /\ UNCHANGED <<header, tip, lock, dbb, cache>>
<1> DEFINE pc == "advance"
           ost == dbb[tra[i].proc].ost
           l == tra[i].local
           r == [tra[i] EXCEPT !.oldest_active = ost, !.pc = pc]
<1>1. tra[i] \in Transaction /\ tra[i].pc \in {"sweeping"}
  BY LiveIs DEF Swept, At
<1>20. ost \in Nat
  BY <1>1, DbbType, TypedTra
<1> HIDE DEF ost
<1>19. tra[i].local \in Local
  BY <1>1, TypedTra
<1>2. /\ l \in Local
      /\ l.next = tra[i].local.next /\ l.last = tra[i].local.last /\ l.trim = tra[i].local.trim
      /\ l.active = tra[i].local.active /\ l.oat = tra[i].local.oat /\ l.new = tra[i].local.new
      /\ l.saved = tra[i].local.saved /\ l.marked = tra[i].local.marked
  BY <1>19, <1>20 DEF Local, Unused, States
<1>3. tra' = [tra EXCEPT ![i] = r]
  BY <1>1, TypedTra DEF Swept, At, ost
<1>0. pc \in TraPc
  BY <1>1 DEF TraPc, Starting, Looking
<1> HIDE DEF l, pc
<1>4. /\ r \in Transaction
      /\ r.pc = pc /\ r.proc = tra[i].proc /\ r.kind = tra[i].kind
      /\ r.number = tra[i].number /\ r.top = tra[i].top /\ r.oldest = tra[i].oldest
      /\ r.oldest_active = ost /\ r.transactions = tra[i].transactions /\ r.local = tra[i].local
  BY <1>0, <1>1, <1>2, <1>20, TypedTra DEF Transaction
<1> HIDE DEF r
<1>5. Goes(i, r.pc) /\ tra'[i] = r
  BY <1>1, <1>3, <1>4, GoesTo
<1>6. /\ swept' = swept \union tra[i].local.marked
      /\ UNCHANGED <<header, tip, lock, dbb, cache>>
  BY <1>1 DEF Swept, At, pages, bounds
<1> QED
  BY <1>1, <1>2, <1>4, <1>5, <1>6 DEF pc, ost, KeepsNumbers, KeepsPages, KeepsSweep, KeepsView

\* A transaction that is gone.
LEMMA ReleaseGone ==
  ASSUME TypeInv, NEW i \in Numbers, Release(i), tra[i].kind # "sweep"
  PROVE  /\ tra[i] \in Transaction /\ tra[i].pc = "release"
         /\ tra' = [tra EXCEPT ![i] = NoTra] /\ tra' \in [Numbers -> Transaction \union {NoTra}]
         /\ lock' = [lock EXCEPT ![tra[i].number] = 0]
         /\ UNCHANGED <<header, tip, dbb, cache, swept>>
<1>1. tra[i] \in Transaction /\ tra[i].pc = "release"
  BY LiveIs DEF Release, At
<1>2. tra' = [tra EXCEPT ![i] = NoTra]
  BY DEF Release
<1> QED
  BY <1>1, <1>2 DEF Release, TypeInv, pages

LEMMA AdvanceEffect ==
  ASSUME TypeInv, NEW i \in Numbers, Advance(i)
  PROVE  /\ tra[i] \in Transaction /\ tra[i].pc = "advance"
         /\ tra' = [tra EXCEPT ![i] = NoTra] /\ tra' \in [Numbers -> Transaction \union {NoTra}]
         /\ header' = IF header.oit < tra[i].local.saved - 1
                      THEN [header EXCEPT !.oit = Least(tra[i].top, tra[i].local.saved - 1)] ELSE header
         /\ header' \in [nt : Nat, oit : Nat, oat : Nat, ost : Nat]
         /\ UNCHANGED <<tip, lock, dbb, cache, swept>>
<1>1. tra[i] \in Transaction /\ tra[i].pc = "advance"
  BY LiveIs DEF Advance, At
<1>2. tra' = [tra EXCEPT ![i] = NoTra]
  BY DEF Advance
<1>3. header' = IF header.oit < tra[i].local.saved - 1
                THEN [header EXCEPT !.oit = Least(tra[i].top, tra[i].local.saved - 1)] ELSE header
  BY DEF Advance
<1>4. header' \in [nt : Nat, oit : Nat, oat : Nat, ost : Nat]
  <2>1. tra[i].top \in Nat /\ tra[i].local.saved \in Nat /\ header.oit \in Nat
    BY <1>1, TypedTra, HeaderType
  <2>2. header.oit < tra[i].local.saved - 1 => Least(tra[i].top, tra[i].local.saved - 1) \in Nat
    BY <2>1 DEF Least
  <2> QED
    BY <1>3, <2>2 DEF TypeInv
<1> QED
  BY <1>1, <1>2, <1>3, <1>4 DEF Advance, TypeInv

\* A transaction that has just got its number.
LEMMA StartEffect ==
  ASSUME OwnInv, NEW p \in Procs, NEW kind \in Kinds, Start(p, kind)
  PROVE  \E n \in Numbers :
           /\ n = header.nt + 1 /\ header' = Bumped(p)
           /\ lock' = [lock EXCEPT ![n] = IF kind = "snapshot" THEN Most(Bumped(p).oat, Bumped(p).oit) ELSE n]
           /\ tra' \in [Numbers -> Transaction \union {NoTra}] /\ tra'[n] \in Transaction
           /\ \A j \in Numbers \ {n} : tra'[j] = tra[j]
           /\ tra'[n].pc = IF kind = "snapshot" THEN "inventory" ELSE "extend"
           /\ tra'[n].proc = p /\ tra'[n].kind = kind /\ tra'[n].number = n /\ tra'[n].top = n
           /\ tra'[n].oldest = Bumped(p).oit /\ tra'[n].oldest_active = n
           /\ \A m \in 0..MaxTra : tra'[n].transactions[m] = "active"
           /\ tra'[n].local.next = Page(Bumped(p).oit) /\ tra'[n].local.last = Page(n)
           /\ tra'[n].local.active = Most(Bumped(p).oat, Bumped(p).oit) /\ tra'[n].local.oat = n
           /\ tra'[n].local.new = 0 /\ tra'[n].local.marked = {}
           /\ ~Live(n)
           /\ UNCHANGED <<tip, dbb, cache, swept>>
<1> DEFINE h == Bumped(p)
           n == header.nt + 1
           active == Most(h.oat, h.oit)
           cleanup == n % Cleanup = 0
           pc == IF kind = "snapshot" THEN "inventory" ELSE "extend"
           view == [m \in 0..MaxTra |-> "active"]
           next == Page(h.oit)
           last == Page(n)
           l == [Unused EXCEPT !.next = next, !.last = last, !.active = active, !.oat = n, !.ost = h.ost, !.cleanup = cleanup]
           r == [pc |-> pc, proc |-> p, kind |-> kind, number |-> n, top |-> n, oldest |-> h.oit, oldest_active |-> n,
                 transactions |-> view, subs |-> {}, local |-> l]
<1>1. h \in [nt : Nat, oit : Nat, oat : Nat, ost : Nat] /\ h.nt = n /\ TypeInv
  BY BumpedNext DEF OwnInv
<1>2. n \in Numbers /\ n \in Nat
  BY <1>1, HeaderType DEF Start, Numbers
<1>3. h.oit \in Nat /\ h.oat \in Nat /\ h.ost \in Nat
  BY <1>1
<1>4. active \in Nat /\ next \in Nat /\ last \in Nat
  BY <1>2, <1>3, LeastNat, PageIs
<1>5. (cleanup = TRUE \/ cleanup = FALSE) /\ view \in Inventory /\ pc \in TraPc /\ {} \in SUBSET Nat
  <2>1. cleanup = TRUE \/ cleanup = FALSE
    BY Zenon DEF cleanup
  <2>2. view \in Inventory
    BY DEF Inventory, States
  <2> HIDE DEF view, cleanup
  <2> QED
    BY <2>1, <2>2 DEF TraPc, Starting, Looking
<1>6. tra' = [tra EXCEPT ![n] = r] /\ header' = h
      /\ lock' = [lock EXCEPT ![n] = IF kind = "snapshot" THEN active ELSE n]
      /\ UNCHANGED <<tip, dbb, cache, swept>>
  BY <1>1 DEF Start
<1>7. \A m \in 0..MaxTra : view[m] = "active"
  OBVIOUS
<1>8. ~Live(n)
  BY <1>2, HeaderType, <1>1 DEF OwnInv, FitInv, FitOf
<1> HIDE DEF active, cleanup, next, last, view, pc, h
<1>9. Unused \in Local
  BY DEF Unused, Local, States
<1>10. /\ l \in Local /\ l.next = next /\ l.last = last /\ l.active = active /\ l.oat = n
       /\ l.new = 0 /\ l.marked = {}
  <2>1. Unused.new = 0 /\ Unused.marked = {}
    BY DEF Unused
  <2>2. CASE cleanup = TRUE
    BY <1>2, <1>3, <1>4, <1>9, <2>1, <2>2 DEF Local
  <2>3. CASE cleanup = FALSE
    BY <1>2, <1>3, <1>4, <1>9, <2>1, <2>3 DEF Local
  <2> QED
    BY <1>5, <2>2, <2>3, Zenon
<1> HIDE DEF l
<1>11. r \in Transaction
  BY <1>2, <1>3, <1>5, <1>10 DEF Transaction
<1>12. tra' \in [Numbers -> Transaction \union {NoTra}] /\ tra'[n] = r /\ \A j \in Numbers \ {n} : tra'[j] = tra[j]
  <2> HIDE DEF r
  <2> QED
    BY <1>1, <1>2, <1>6, <1>11 DEF TypeInv
<1> HIDE DEF n
<1> QED
  BY <1>2, <1>6, <1>7, <1>8, <1>10, <1>11, <1>12 DEF active, pc, next, last, h, n

(***************************************************************************)
(* Steps of a cache                                                        *)
(***************************************************************************)

\* What the cache of p reaches, it reaches after the step.
Grows(p) ==
  /\ Empty(p)' => Empty(p)
  /\ \A b \in Nat : Reach(p, b) => Reach(p, b)'

\* The end of the page of a number.
LEMMA PageEnd ==
  ASSUME NEW n \in 0..MaxTra
  PROVE  n \in Nat /\ Page(n) \in Nat /\ (Page(n) + 1) * TransPerTip \in Nat /\ n < (Page(n) + 1) * TransPerTip
<1>1. n \in Nat /\ TransPerTip \in Nat
  BY TransactionsAssumption
<1>2. Page(n) \in Nat /\ n < (Page(n) + 1) * TransPerTip
  BY <1>1, PageIs
<1>3. (Page(n) + 1) * TransPerTip \in Nat
  BY <1>1, <1>2
<1> QED
  BY <1>1, <1>2, <1>3

\* The first number of a page.
LEMMA PageFirst ==
  ASSUME NEW s \in Nat, NEW n \in 0..MaxTra, s <= Page(n)
  PROVE  s * TransPerTip \in 0..MaxTra /\ Page(s * TransPerTip) = s
<1> DEFINE m == s * TransPerTip
           q == Page(m)
<1>1. TransPerTip \in Nat /\ TransPerTip > 0 /\ n \in Nat /\ n <= MaxTra /\ MaxTra \in Nat
  BY TransactionsAssumption
<1>2. m \in Nat /\ m <= Page(n) * TransPerTip
  <2>1. Page(n) \in Nat
    BY <1>1, PageIs
  <2>2. s * TransPerTip <= Page(n) * TransPerTip
    BY <1>1, <2>1, ProductGrows
  <2> QED
    BY <1>1, <2>1, <2>2
<1>3. m \in 0..MaxTra
  BY <1>1, <1>2, PageIs
<1> HIDE DEF m
<1>4. q \in Nat /\ q * TransPerTip <= m /\ m < (q + 1) * TransPerTip
  BY <1>2, PageIs
<1> HIDE DEF q
<1>5. ~(q + 1 <= s)
  <2> SUFFICES ASSUME q + 1 <= s PROVE FALSE
    OBVIOUS
  <2>1. (q + 1) * TransPerTip <= s * TransPerTip
    BY <1>1, <1>4, ProductGrows
  <2> QED
    BY <1>1, <1>4, <2>1 DEF m
<1>6. ~(s + 1 <= q)
  <2> SUFFICES ASSUME s + 1 <= q PROVE FALSE
    OBVIOUS
  <2>1. (s + 1) * TransPerTip <= q * TransPerTip
    BY <1>1, <1>4, ProductGrows
  <2>2. (s + 1) * TransPerTip = s * TransPerTip + TransPerTip /\ s * TransPerTip \in Nat
    BY <1>1
  <2>3. s * TransPerTip + TransPerTip <= m /\ m = s * TransPerTip
    BY <1>1, <1>2, <1>4, <2>1, <2>2 DEF m
  <2> QED
    BY <1>1, <2>2, <2>3
<1>7. q = s
  BY <1>4, <1>5, <1>6
<1> QED
  BY <1>3, <1>7 DEF q, m

LEMMA GrowsSame ==
  ASSUME NEW p, cache'[p] = cache[p]
  PROVE  Grows(p) /\ (Empty(p)' <=> Empty(p)) /\ \A b : Reach(p, b)' <=> Reach(p, b)
BY DEF Grows, Empty, Reach, Has

\* Only pages below d are dropped, and one beyond d is there.
LEMMA GrowsDrop ==
  ASSUME NEW p, NEW d \in Nat, Reach(p, d)',
         \A m \in 0..MaxTra : Has(p, m) => Has(p, m)' \/ (Page(m) + 1) * TransPerTip <= d
  PROVE  Grows(p) /\ ~Empty(p)'
<1>1. PICK k \in 0..MaxTra : Has(p, k)' /\ (Page(k) + 1) * TransPerTip > d
  BY DEF Reach
<1>2. ASSUME NEW b \in Nat, Reach(p, b) PROVE Reach(p, b)'
  <2>1. PICK m \in 0..MaxTra : Has(p, m) /\ (Page(m) + 1) * TransPerTip > b
    BY <1>2 DEF Reach
  <2>2. CASE Has(p, m)'
    BY <2>1, <2>2 DEF Reach
  <2>3. CASE (Page(m) + 1) * TransPerTip <= d
    <3>1. (Page(k) + 1) * TransPerTip > b
      BY <1>1, <2>1, <2>3, PageEnd
    <3> QED
      BY <1>1, <3>1 DEF Reach
  <2> QED
    BY <2>1, <2>2, <2>3
<1>3. ~Empty(p)'
  BY <1>1 DEF Empty
<1> QED
  BY <1>2, <1>3 DEF Grows

\* updateCache with a page that has numbers.
LEMMA UpdatedGrows ==
  ASSUME TypeInv, CacheInv, NEW p \in Procs, NEW m \in 0..MaxTra, NEW content \in Inventory,
         Empty(p) => dbb[p].oit < (Page(m) + 1) * TransPerTip,
         cache' = [cache EXCEPT ![p] = Updated(p, Page(m), content)], dbb' = dbb
  PROVE  /\ Has(p, m)' /\ Reach(p, dbb[p].oit)' /\ ~Empty(p)'
         /\ \A q \in Procs : Grows(q) /\ (q # p => cache'[q] = cache[q])
<1>1. cache'[p] = Updated(p, Page(m), content) /\ \A q \in Procs : q # p => cache'[q] = cache[q]
  BY DEF TypeInv
<1>2. \A k \in 0..MaxTra : content[k] # "none"
  BY DEF Inventory, States
<1>3. \A k \in 0..MaxTra : Page(k) = Page(m) => Has(p, k)'
  BY <1>1, <1>2 DEF Updated, Has
<1>4. \A k \in 0..MaxTra : Has(p, k) => Has(p, k)' \/ (Page(k) + 1) * TransPerTip <= dbb[p].oit
  BY <1>1, <1>2 DEF Updated, Has
<1>5. dbb[p].oit \in Nat
  BY DbbType
<1>6. Reach(p, dbb[p].oit)'
  <2>1. CASE Empty(p)
    BY <1>3, <2>1 DEF Reach
  <2>2. CASE ~Empty(p)
    <3>1. PICK k \in 0..MaxTra : Has(p, k) /\ (Page(k) + 1) * TransPerTip > dbb[p].oit
      BY <2>2 DEF CacheInv, Reach
    <3>2. Has(p, k)'
      BY <1>4, <1>5, <3>1, PageEnd
    <3> QED
      BY <3>1, <3>2 DEF Reach
  <2> QED
    BY <2>1, <2>2
<1>7. Grows(p) /\ ~Empty(p)'
  BY <1>4, <1>5, <1>6, GrowsDrop
<1> QED
  BY <1>1, <1>3, <1>6, <1>7, GrowsSame

\* No number before the first page of a cache is in it.
LEMMA FrontBelow ==
  ASSUME NEW p, ~Empty(p), NEW n \in 0..MaxTra, n < FrontPage(p) * TransPerTip
  PROVE  ~Has(p, n)
<1> SUFFICES ASSUME Has(p, n) PROVE FALSE
  OBVIOUS
<1>1. FrontPage(p) \in Nat /\ FrontPage(p) <= Page(n) /\ Page(n) \in Nat /\ Page(n) * TransPerTip <= n /\ n \in Nat
  BY FrontIs, CachedIs, PageIs, TransactionsAssumption
<1>2. FrontPage(p) * TransPerTip <= Page(n) * TransPerTip /\ FrontPage(p) * TransPerTip \in Nat /\ Page(n) * TransPerTip \in Nat
  BY <1>1, ProductGrows, TransactionsAssumption
<1> QED
  BY <1>1, <1>2

\* The last number given is one, and no oldest transaction is beyond it.
LEMMA NextIs ==
  ASSUME OwnInv, NEW i \in Numbers, Live(i)
  PROVE  /\ header.nt \in 0..MaxTra /\ header.nt \in Numbers /\ i <= header.nt /\ header.oit <= header.nt
         /\ \A p \in Procs : dbb[p].oit <= header.nt
<1>1. i <= header.nt /\ header.nt \in Nat /\ header.nt <= MaxTra /\ MaxTra \in Nat /\ i \in Nat /\ i > 0
  BY HeaderType DEF OwnInv, FitInv, FitOf, Numbers
<1> QED
  BY <1>1 DEF OwnInv, OldestInv, Numbers

\* What the cache learns from TRA_get_state.
LEMMA LearntGrows ==
  ASSUME OwnInv, NEW i \in Numbers, Live(i), NEW p \in Procs, NEW n \in 0..MaxTra, ~Empty(p), Readable(p, n),
         cache' = [cache EXCEPT ![p] = Learnt(p, n)], dbb' = dbb
  PROVE  /\ Reach(p, dbb[p].oit)' /\ ~Empty(p)'
         /\ \A q \in Procs : Grows(q) /\ (q # p => cache'[q] = cache[q])
<1> DEFINE front == FrontPage(p) * TransPerTip
<1>1. cache'[p] = Learnt(p, n) /\ \A q \in Procs : q # p => cache'[q] = cache[q]
  BY DEF OwnInv, TypeInv
<1>2. tip \in Inventory /\ cache[p][n] \in Stored /\ TypeInv /\ CacheInv
  BY DEF OwnInv, TypeInv
<1>8. n < front => ~Has(p, n)
  BY FrontBelow
<1>3. CASE Learnt(p, n) = cache[p]
  BY <1>1, <1>2, <1>3, GrowsSame DEF CacheInv
<1>4. CASE Learnt(p, n) = Updated(p, Page(n), tip)
  BY <1>1, <1>2, <1>4, UpdatedGrows
<1>5. CASE ~(n < front) /\ cache[p][n] = "none"
  <2>12. header.nt \in 0..MaxTra
    BY NextIs
  <2>13. PICK N \in 0..MaxTra : N = header.nt
    BY <2>12
  <2> DEFINE first == Most(BackPage(p) + 1, Page(header.oit))
  <2>1. BackPage(p) < Page(N)
    BY <1>5, <1>8, <2>13 DEF Readable, Has
  <2>2. N \in 0..MaxTra /\ header.oit <= N /\ dbb[p].oit <= N /\ header.oit \in Nat /\ dbb[p].oit \in Nat /\ N \in Nat
    BY <1>2, <2>13, NextIs, HeaderType, DbbType
  <2>3. first <= Page(N) /\ Page(N) \in Nat /\ first \in Nat
    <3>1. Page(header.oit) <= Page(N) /\ Page(header.oit) \in Nat /\ Page(N) \in Nat
      BY <2>2, PageOrder, PageIs
    <3>2. BackPage(p) \in Nat
      BY <1>2, FrontTypes
    <3> QED
      BY <2>1, <3>1, <3>2 DEF Most
  <2>0. \E d \in Nat : d = Most(header.oit, dbb[p].oit)
    BY <2>2 DEF Most
  <2>10. PICK d \in Nat : d = Most(header.oit, dbb[p].oit)
    BY <2>0
  <2>4. d <= N /\ d >= dbb[p].oit /\ d >= header.oit
    BY <2>2, <2>10 DEF Most
  <2>5. \A m \in 0..MaxTra : cache'[p][m] =
          IF Page(m) \in first..Page(N) THEN tip[m]
          ELSE IF (Page(m) + 1) * TransPerTip < Most(header.oit, dbb[p].oit + 1) THEN "none"
          ELSE cache[p][m]
    <3>1. ~(n < FrontPage(p) * TransPerTip \/ cache[p][n] \in {"committed", "dead"}) /\ cache[p][n] # "active"
      BY <1>5
    <3>2. Learnt(p, n) = [m \in 0..MaxTra |->
            IF Page(m) \in first..Page(N) THEN tip[m]
            ELSE IF (Page(m) + 1) * TransPerTip < Most(header.oit, dbb[p].oit + 1) THEN "none"
            ELSE cache[p][m]]
      BY <2>13, <3>1, Zenon DEF Learnt
    <3> HIDE DEF first
    <3> QED
      BY <1>1, <3>2
  <2> HIDE DEF first
  <2>6. Has(p, N)'
    <3>1. Page(N) \in first..Page(N)
      BY <2>3
    <3>2. tip[N] # "none"
      BY <1>2, <2>2 DEF Inventory, States
    <3> QED
      BY <2>2, <2>5, <3>1, <3>2 DEF Has
  <2>7. Reach(p, d)' /\ Reach(p, dbb[p].oit)'
    <3>1. (Page(N) + 1) * TransPerTip > d /\ (Page(N) + 1) * TransPerTip > dbb[p].oit
      BY <2>2, <2>4, PageEnd
    <3> QED
      BY <2>2, <2>6, <3>1 DEF Reach
  <2>8. \A m \in 0..MaxTra : Has(p, m) => Has(p, m)' \/ (Page(m) + 1) * TransPerTip <= d
    <3> TAKE m \in 0..MaxTra
    <3>1. tip[m] # "none"
      BY <1>2 DEF Inventory, States
    <3>2. (Page(m) + 1) * TransPerTip \in Nat
      BY PageEnd
    <3>3. (Page(m) + 1) * TransPerTip < Most(header.oit, dbb[p].oit + 1) => (Page(m) + 1) * TransPerTip <= d
      BY <2>2, <2>10, <3>2 DEF Most
    <3> QED
      BY <2>5, <3>1, <3>3 DEF Has
  <2>9. Grows(p) /\ ~Empty(p)'
    BY <2>4, <2>7, <2>8, GrowsDrop
  <2> QED
    BY <1>1, <2>7, <2>9, GrowsSame
<1>6. CASE n < front \/ cache[p][n] \in {"committed", "dead"}
  <2>1. n < FrontPage(p) * TransPerTip \/ cache[p][n] \in {"committed", "dead"}
    BY <1>6
  <2>2. cache[p][n] # "active"
    BY <1>8, <2>1 DEF Has
  <2>3. Learnt(p, n) = cache[p]
    BY <2>1, <2>2, Zenon DEF Learnt
  <2> QED
    BY <1>3, <2>3
<1>7. CASE ~(n < front) /\ cache[p][n] = "active"
  BY <1>3, <1>4, <1>7 DEF Learnt
<1> QED
  BY <1>2, <1>5, <1>6, <1>7 DEF Stored, States

\* What TRA_wait leaves behind of a transaction whose lock nobody holds: dead,
\* or as it was.
LEMMA SettleGrows ==
  ASSUME OwnInv, NEW i \in Numbers, Live(i), NEW p \in Procs, p = tra[i].proc, ~Empty(p),
         NEW n \in Numbers, Readable(p, n), Settle(i, n, GetState(p, n)), dbb' = dbb
  PROVE  /\ tip' \in Inventory /\ cache' \in [Procs -> [0..MaxTra -> Stored]]
         /\ \A m \in 0..MaxTra : m # n => tip'[m] = tip[m]
         /\ tip' = tip \/ tip'[n] = "dead"
         /\ Reach(p, dbb[p].oit)' /\ ~Empty(p)'
         /\ \A q \in Procs : Grows(q) /\ (q # p => cache'[q] = cache[q])
<1>1. n \in 0..MaxTra /\ TypeInv /\ CacheInv
  BY LiveIs, TypedTra DEF OwnInv, Live, At, Numbers
<1>2. CASE GetState(p, n) = "active"
  <2>1. SetState(p, n, "dead")
    BY <1>2 DEF Settle
  <2>2. /\ tip' = [tip EXCEPT ![n] = "dead"] /\ tip' \in Inventory
        /\ cache' = [cache EXCEPT ![p] = Updated(p, Page(n), tip')]
        /\ cache' \in [Procs -> [0..MaxTra -> Stored]]
    BY <1>1, <2>1, SetStateType DEF States
  <2>3. tip'[n] = "dead" /\ \A m \in 0..MaxTra : m # n => tip'[m] = tip[m]
    BY <1>1, <2>2 DEF TypeInv, Inventory
  <2>4. /\ Reach(p, dbb[p].oit)' /\ ~Empty(p)'
        /\ \A q \in Procs : Grows(q) /\ (q # p => cache'[q] = cache[q])
    BY <1>1, <2>2, UpdatedGrows
  <2> QED
    BY <2>2, <2>3, <2>4
<1>3. CASE GetState(p, n) # "active"
  <2>1. cache' = [cache EXCEPT ![p] = Learnt(p, n)] /\ tip' = tip
    BY <1>3 DEF Settle
  <2>2. cache' \in [Procs -> [0..MaxTra -> Stored]] /\ tip' \in Inventory
    BY <1>1, <2>1, GetStateType DEF TypeInv
  <2>3. /\ Reach(p, dbb[p].oit)' /\ ~Empty(p)'
        /\ \A q \in Procs : Grows(q) /\ (q # p => cache'[q] = cache[q])
    BY <1>1, <2>1, LearntGrows
  <2> QED
    BY <2>1, <2>2, <2>3
<1> QED
  BY <1>2, <1>3

(***************************************************************************)
(* What a step of one transaction leaves to the others                     *)
(***************************************************************************)

\* Only the transaction i is changed; numbers are never taken back.
Only(i) ==
  /\ \A j \in Numbers \ {i} : tra'[j] = tra[j]
  /\ header'.nt \in Nat /\ header'.nt >= header.nt

\* The transaction has the numbers it had, or fewer.
KeepsOwn(i) == Live(i)' => Live(i) /\ \A n \in Numbers : Owns(i, n)' => Owns(i, n)

LEMMA FitKept ==
  ASSUME OwnInv, NEW i \in Numbers, Only(i), Live(i)' => FitOf(i)'
  PROVE  FitInv'
<1> SUFFICES ASSUME NEW j \in Numbers, Live(j)' PROVE FitOf(j)'
  BY DEF FitInv
<1>1. CASE j = i
  BY <1>1
<1>2. CASE j # i
  <2>1. tra'[j] = tra[j] /\ header'.nt \in Nat /\ header'.nt >= header.nt
    BY <1>2 DEF Only
  <2>2. FitOf(j) /\ tra[j] \in Transaction /\ header.nt \in Nat /\ j \in Nat
    BY <2>1, LiveIs, HeaderType DEF OwnInv, FitInv, Live, At, Numbers
  <2> QED
    BY <2>1, <2>2 DEF FitOf
<1> QED
  BY <1>1, <1>2

LEMMA NumberKept ==
  ASSUME OwnInv, NEW i \in Numbers, Only(i), header'.nt = header.nt, KeepsOwn(i),
         Live(i)' => /\ tra'[i].number \in Numbers /\ tra'[i].number <= header.nt
                     /\ tra'[i].local.new <= header.nt /\ tra'[i].local.new # tra'[i].number,
         \A n \in Numbers : n > header.nt => tip'[n] = tip[n] /\ lock'[n] = lock[n]
  PROVE  NumberInv'
<1>1. NumberInv
  BY DEF OwnInv
<1>2. \A n \in Numbers : n > header'.nt => tip'[n] = "active" /\ lock'[n] = 0
  BY <1>1 DEF NumberInv
<1>3. ASSUME NEW j \in Numbers, Live(j)'
      PROVE  /\ tra'[j].number \in Numbers /\ tra'[j].number <= header'.nt
             /\ tra'[j].local.new <= header'.nt /\ tra'[j].local.new # tra'[j].number
             /\ Live(j) /\ \A n \in Numbers : Owns(j, n)' => Owns(j, n)
  <2>1. CASE j = i
    BY <1>3, <2>1 DEF KeepsOwn
  <2>2. CASE j # i
    <3>1. tra'[j] = tra[j]
      BY <2>2 DEF Only
    <3>2. Live(j) /\ \A n \in Numbers : Owns(j, n)' => Owns(j, n)
      BY <1>3, <3>1 DEF Live, At, Owns
    <3> QED
      BY <1>1, <3>1, <3>2 DEF NumberInv
  <2> QED
    BY <2>1, <2>2
<1>4. \A j, k, n \in Numbers : Live(j)' /\ Live(k)' /\ Owns(j, n)' /\ Owns(k, n)' => j = k
  BY <1>1, <1>3 DEF NumberInv
<1> QED
  BY <1>2, <1>3, <1>4 DEF NumberInv

\* What others own and look at has its lock as before.
LEMMA LockKept ==
  ASSUME OwnInv, NEW i \in Numbers, Only(i), Live(i)' => LockOf(i)',
         \A j \in Numbers \ {i} : Live(j) =>
           /\ ~SweepsOn(j) => \A n \in Numbers : Owns(j, n) => lock'[n] # 0
           /\ At(j, "settle") => lock'[tra[j].local.active] = 0
  PROVE  LockInv'
<1> SUFFICES ASSUME NEW j \in Numbers, Live(j)' PROVE LockOf(j)'
  BY DEF LockInv
<1>1. CASE j = i
  BY <1>1
<1>2. CASE j # i
  <2>1. tra'[j] = tra[j] /\ header'.nt \in Nat /\ header'.nt >= header.nt
    BY <1>2 DEF Only
  <2>2. Live(j) /\ LockOf(j)
    BY <2>1 DEF OwnInv, LockInv, Live, At
  <2>3. tra[j] \in Transaction /\ header.nt \in Nat
    BY <2>2, LiveIs, HeaderType DEF OwnInv, Live, At
  <2>4. ~SweepsOn(j)' => \A n \in Numbers : Owns(j, n)' => lock'[n] # 0
    BY <1>2, <2>1, <2>2 DEF SweepsOn, Owns
  <2>5. At(j, "settle")' => tra'[j].local.active \in Numbers /\ tra'[j].local.active <= header'.nt
    <3>1. tra[j].local.active \in Nat
      BY <2>3, TypedTra
    <3> QED
      BY <2>1, <2>2, <2>3, <3>1 DEF LockOf, At
  <2>6. At(j, "settle")' => lock'[tra'[j].local.active] = 0
    BY <1>2, <2>1, <2>2 DEF At
  <2> QED
    BY <2>4, <2>5, <2>6 DEF LockOf
<1> QED
  BY <1>1, <1>2

LEMMA ActiveKept ==
  ASSUME OwnInv, NEW i \in Numbers, Only(i), Live(i)' => ActiveOf(i)',
         \A j \in Numbers \ {i} : Live(j) => \A n \in Numbers : Owns(j, n) /\ ~SweepsOn(j) => tip'[n] = tip[n]
  PROVE  ActiveInv'
<1> SUFFICES ASSUME NEW j \in Numbers, Live(j)' PROVE ActiveOf(j)'
  BY DEF ActiveInv
<1>1. CASE j = i
  BY <1>1
<1>2. CASE j # i
  <2>1. tra'[j] = tra[j]
    BY <1>2 DEF Only
  <2>2. Live(j) /\ ActiveOf(j) /\ FitOf(j) /\ TypeInv /\ tra[j].number \in Numbers
    BY <2>1 DEF OwnInv, ActiveInv, FitInv, NumberInv, Live, At
  <2>3. tra[j] \in Transaction /\ header.nt \in Nat /\ header.nt <= MaxTra /\ MaxTra \in Nat
    BY <2>2, LiveIs, HeaderType DEF Live, At
  <2>4. tra[j].number # 0 /\ (tra[j].local.new # 0 => tra[j].local.new \in Numbers)
    <3>1. tra[j].local.new \in Nat /\ tra[j].local.new <= header.nt
      BY <2>2, <2>3, TypedTra DEF OwnInv, NumberInv
    <3> QED
      BY <2>2, <2>3, <3>1 DEF Numbers
  <2>5. tra[j].local.new # 0 => ~SweepsOn(j)
    BY <2>2 DEF FitOf, SweepsOn
  <2>6. \A n \in Numbers : Owns(j, n) /\ ~SweepsOn(j) => tip'[n] = tip[n]
    BY <1>2, <2>2
  <2>7. Unended(j) => tip'[tra[j].number] = "active"
    BY <2>2, <2>4, <2>6 DEF ActiveOf, Unended, Owns
  <2>8. tra[j].local.new # 0 => tip'[tra[j].local.new] = "active"
    BY <2>2, <2>4, <2>5, <2>6 DEF ActiveOf, Owns
  <2> QED
    BY <2>1, <2>7, <2>8 DEF ActiveOf, Unended, SweepsOn
<1> QED
  BY <1>1, <1>2

LEMMA OldestKept ==
  ASSUME OwnInv, header'.nt \in Nat, header'.nt >= header.nt, header'.oit = header.oit,
         \A p \in Procs : dbb'[p].oit = dbb[p].oit
  PROVE  OldestInv'
<1>1. header.nt \in Nat /\ header.oit \in Nat /\ \A p \in Procs : dbb[p].oit \in Nat
  BY HeaderType, DbbType DEF OwnInv
<1> QED
  BY <1>1 DEF OwnInv, OldestInv

LEMMA CacheKept ==
  ASSUME OwnInv, \A p \in Procs : dbb'[p].oit = dbb[p].oit,
         \A p \in Procs : cache'[p] = cache[p] \/ Reach(p, dbb[p].oit)'
  PROVE  CacheInv'
<1> SUFFICES ASSUME NEW p \in Procs PROVE Empty(p)' \/ Reach(p, dbb[p].oit)'
  BY DEF CacheInv
<1>1. CASE cache'[p] = cache[p]
  <2>1. (Empty(p)' <=> Empty(p)) /\ \A b : Reach(p, b)' <=> Reach(p, b)
    BY <1>1, GrowsSame
  <2>2. Empty(p) \/ Reach(p, dbb[p].oit)
    BY DEF OwnInv, CacheInv
  <2>3. PICK b : b = dbb[p].oit
    OBVIOUS
  <2>4. Reach(p, b) <=> Reach(p, b)'
    BY <2>1
  <2> QED
    BY <2>1, <2>2, <2>3, <2>4
<1>2. CASE Reach(p, dbb[p].oit)'
  BY <1>2
<1> QED
  BY <1>1, <1>2

LEMMA LoadKept ==
  ASSUME OwnInv, NEW i \in Numbers, Only(i), Live(i)' => LoadOf(i)',
         header'.oit \in Nat, header'.oit >= header.oit,
         \A j \in Numbers \ {i} : Live(j) => \A p \in Procs : p = tra[j].proc =>
           Grows(p) /\ (Empty(p)' => dbb'[p].oit = dbb[p].oit)
  PROVE  LoadInv'
<1> SUFFICES ASSUME NEW j \in Numbers, Live(j)' PROVE LoadOf(j)'
  BY DEF LoadInv
<1>1. CASE j = i
  BY <1>1
<1>2. CASE j # i
  <2>1. tra'[j] = tra[j] /\ header'.nt \in Nat /\ header'.nt >= header.nt
    BY <1>2 DEF Only
  <2>2. Live(j) /\ LoadOf(j)
    BY <2>1 DEF OwnInv, LoadInv, Live, At
  <2>3. tra[j] \in Transaction /\ header.nt \in Nat /\ header.oit \in Nat /\ TypeInv
    BY <2>2, LiveIs, HeaderType DEF OwnInv, Live, At
  <2>4. PICK p \in Procs : p = tra[j].proc
    BY <2>3, TypedTra
  <2>5. Grows(p) /\ (Empty(p)' => dbb'[p].oit = dbb[p].oit)
    BY <1>2, <2>2, <2>4
  <2>6. \E l \in Local : l = tra[j].local
    BY <2>3, TypedTra
  <2>7. PICK l \in Local : l = tra[j].local
    BY <2>6
  <2>8. /\ l.next \in Nat /\ l.last \in Nat /\ l.trim \in Nat /\ j \in Nat /\ dbb[p].oit \in Nat
        /\ Page(header.nt) \in Nat /\ Page(header'.nt) \in Nat /\ Page(header.nt) <= Page(header'.nt)
    BY <2>1, <2>3, DbbType, PageIs, PageOrder DEF Local, Numbers
  <2> DEFINE q == tra[j].pc
  <2>9. /\ tra'[j].pc = q /\ tra'[j].proc = p /\ tra'[j].local = l /\ p' = p /\ l' = l
    BY <2>1, <2>4, <2>7
  <2> QED
    <3>1. q \notin {"inventory", "extend", "fill"} => ~Empty(p)'
      BY <2>2, <2>4, <2>5 DEF LoadOf, Grows
    <3>2. q \in {"trim", "scan", "settle", "query", "publish"} => Reach(p, j)'
      BY <2>2, <2>4, <2>5, <2>8 DEF LoadOf, Grows
    <3>3. q = "trim" => Reach(p, l.trim)'
      BY <2>2, <2>4, <2>5, <2>7, <2>8 DEF LoadOf, Grows
    <3>4. q \in {"inventory", "copy", "fill", "cache"} => l.next <= l.last /\ l.last <= Page(header'.nt)
      BY <2>2, <2>7, <2>8 DEF LoadOf
    <3>5. /\ q \in {"inventory", "copy"} => l.last = Page(j)
          /\ q \in {"fill", "cache"} => Page(j) <= l.last /\ l.trim < (l.last + 1) * TransPerTip
      BY <2>2, <2>7 DEF LoadOf
    <3>6. q \in {"inventory", "fill"} /\ Empty(p)' => dbb'[p].oit < (l.next + 1) * TransPerTip
      BY <2>2, <2>4, <2>5, <2>7 DEF LoadOf, Grows
    <3>7. q = "extend" /\ Empty(p)' => dbb'[p].oit <= header'.oit
      BY <2>2, <2>3, <2>4, <2>5, <2>8 DEF LoadOf, Grows
    <3> HIDE DEF q
    <3> QED
      BY <2>9, <3>1, <3>2, <3>3, <3>4, <3>5, <3>6, <3>7 DEF LoadOf, Page
<1> QED
  BY <1>1, <1>2

(***************************************************************************)
(* Steps of a transaction                                                  *)
(***************************************************************************)

\* What a transaction changes of what all see: states of numbers that are its
\* own or without a lock, and locks of its own.
Touches(i) ==
  /\ header' = header
  /\ \A n \in Numbers : tip'[n] = tip[n] \/ Owns(i, n) \/ (lock[n] = 0 /\ n <= header.nt)
  /\ \A n \in Numbers : lock'[n] = lock[n] \/ (Owns(i, n) /\ ~SweepsOn(i))
  /\ \A p \in Procs : Grows(p) /\ (dbb'[p] = dbb[p] \/ ~Empty(p)')

\* The invariant for the transaction that makes the step.
ItsOwn(i) == FitOf(i)' /\ LockOf(i)' /\ ActiveOf(i)' /\ LoadOf(i)'

LEMMA StepKept ==
  ASSUME OwnInv, NEW i \in Numbers, Live(i), Touches(i), \A j \in Numbers \ {i} : tra'[j] = tra[j],
         TypeInv', OldestInv', CacheInv', KeepsOwn(i),
         Live(i)' => /\ tra'[i].number \in Numbers /\ tra'[i].number <= header.nt
                     /\ tra'[i].local.new <= header.nt /\ tra'[i].local.new # tra'[i].number
                     /\ ItsOwn(i)
  PROVE  OwnInv'
<1>1. header.nt \in Nat /\ header.oit \in Nat
  BY HeaderType DEF OwnInv
<1>2. header' = header /\ Only(i)
  BY <1>1 DEF Touches, Only
<1>3. \A n \in Numbers : Owns(i, n) => n <= header.nt
  BY DEF OwnInv, NumberInv, Owns
<1>4. \A j \in Numbers \ {i}, n \in Numbers : Live(j) /\ Owns(j, n) => ~Owns(i, n)
  BY DEF OwnInv, NumberInv
<1>5. FitInv'
  BY <1>2, FitKept DEF ItsOwn
<1>6. NumberInv'
  <2>1. \A n \in Numbers : n > header.nt => tip'[n] = tip[n] /\ lock'[n] = lock[n]
    <3>1. \A n \in Numbers : n \in Nat
      BY DEF Numbers
    <3> QED
      BY <1>1, <1>3, <3>1 DEF Touches
  <2> QED
    BY <1>2, <2>1, NumberKept
<1>7. LockInv'
  <2>1. ASSUME NEW j \in Numbers \ {i}, Live(j)
        PROVE  /\ ~SweepsOn(j) => \A n \in Numbers : Owns(j, n) => lock'[n] # 0
               /\ At(j, "settle") => lock'[tra[j].local.active] = 0
    <3>1. LockOf(j)
      BY <2>1 DEF OwnInv, LockInv
    <3>2. ~SweepsOn(j) => \A n \in Numbers : Owns(j, n) => lock'[n] # 0
      BY <1>4, <2>1, <3>1 DEF LockOf, Touches
    <3>3. LockOf(i)
      BY DEF OwnInv, LockInv
    <3>4. At(j, "settle") => lock'[tra[j].local.active] = 0
      BY <3>1, <3>3 DEF LockOf, Touches
    <3> QED
      BY <3>2, <3>4
  <2> QED
    BY <1>2, <2>1, LockKept DEF ItsOwn
<1>8. ActiveInv'
  <2>1. ASSUME NEW j \in Numbers \ {i}, Live(j), NEW n \in Numbers, Owns(j, n), ~SweepsOn(j)
        PROVE  tip'[n] = tip[n]
    BY <1>4, <2>1 DEF Touches, OwnInv, LockInv, LockOf
  <2> QED
    BY <1>2, <2>1, ActiveKept DEF ItsOwn
<1>9. LoadInv'
  <2>1. \A j \in Numbers \ {i} : Live(j) => \A p \in Procs : p = tra[j].proc =>
           Grows(p) /\ (Empty(p)' => dbb'[p].oit = dbb[p].oit)
    BY DEF Touches
  <2> QED
    BY <1>1, <1>2, <2>1, LoadKept DEF ItsOwn
<1> QED
  BY <1>5, <1>6, <1>7, <1>8, <1>9 DEF OwnInv

\* A transaction goes on with its numbers, the limits of the processes stay.
LEMMA GoesKept ==
  ASSUME OwnInv, NEW i \in Numbers, NEW pc, Goes(i, pc), pc # "none", KeepsNumbers(i), Touches(i), dbb' = dbb,
         tip' \in Inventory, lock' \in [Numbers -> Nat], cache' \in [Procs -> [0..MaxTra -> Stored]], swept' \subseteq Numbers,
         \A p \in Procs : cache'[p] = cache[p] \/ Reach(p, dbb[p].oit)',
         ItsOwn(i)
  PROVE  OwnInv'
<1>1. TypeInv'
  BY DEF OwnInv, TypeInv, Touches, Goes
<1>2. Live(i) /\ Live(i)' /\ \A j \in Numbers \ {i} : tra'[j] = tra[j]
  BY TypedTra DEF Goes, Live, At
<1>3. header.nt \in Nat
  BY HeaderType DEF OwnInv
<1>4. OldestInv'
  BY <1>3, OldestKept DEF Touches
<1>5. CacheInv'
  BY CacheKept
<1>6. KeepsOwn(i)
  BY <1>2 DEF KeepsOwn, KeepsNumbers, Owns
<1>7. /\ tra'[i].number \in Numbers /\ tra'[i].number <= header.nt
      /\ tra'[i].local.new <= header.nt /\ tra'[i].local.new # tra'[i].number
  BY <1>2 DEF KeepsNumbers, OwnInv, NumberInv
<1> QED
  BY <1>1, <1>2, <1>4, <1>5, <1>6, <1>7, StepKept

\* Nothing but the transaction is changed.
LEMMA MoveKept ==
  ASSUME OwnInv, NEW i \in Numbers, NEW pc, Goes(i, pc), pc # "none", KeepsNumbers(i),
         UNCHANGED <<header, tip, lock, dbb, cache>>, swept' \subseteq Numbers, ItsOwn(i)
  PROVE  OwnInv'
<1>1. Touches(i)
  <2>1. \A p \in Procs : Grows(p)
    BY GrowsSame
  <2> QED
    BY <2>1 DEF Touches
<1>2. /\ tip' \in Inventory /\ lock' \in [Numbers -> Nat] /\ cache' \in [Procs -> [0..MaxTra -> Stored]]
  BY DEF OwnInv, TypeInv
<1> QED
  BY <1>1, <1>2, GoesKept

\* What is known of a transaction before its step.
LEMMA ItsFacts ==
  ASSUME OwnInv, NEW i \in Numbers, tra[i] \in Transaction
  PROVE  /\ Live(i) /\ FitOf(i) /\ LockOf(i) /\ ActiveOf(i) /\ LoadOf(i)
         /\ tra[i].number \in Numbers /\ tra[i].number <= header.nt /\ tra[i].number # 0 /\ i \in Nat /\ i > 0
         /\ tra[i].local.new \in Nat /\ tra[i].local.new <= header.nt /\ tra[i].local.new # tra[i].number
         /\ tra[i].local.new # 0 => tra[i].local.new \in Numbers
         /\ header.nt \in Nat /\ header.nt \in Numbers /\ header.nt \in 0..MaxTra /\ header.oit \in Nat
         /\ i <= header.nt /\ header.oit <= header.nt
<1>1. Live(i)
  BY TypedTra DEF Live, At
<1>2. FitOf(i) /\ LockOf(i) /\ ActiveOf(i) /\ LoadOf(i)
  BY <1>1 DEF OwnInv, FitInv, LockInv, ActiveInv, LoadInv
<1>3. header.nt \in Nat /\ header.oit \in Nat /\ MaxTra \in Nat /\ header.nt <= MaxTra /\ tra[i].local.new \in Nat
  BY HeaderType, TypedTra DEF OwnInv
<1>4. header.nt \in 0..MaxTra /\ header.nt \in Numbers /\ i <= header.nt /\ header.oit <= header.nt
  BY <1>1, NextIs
<1>5. /\ tra[i].number \in Numbers /\ tra[i].number <= header.nt
      /\ tra[i].local.new <= header.nt /\ tra[i].local.new # tra[i].number
  BY <1>1 DEF OwnInv, NumberInv
<1> QED
  BY <1>1, <1>2, <1>3, <1>4, <1>5 DEF Numbers

\* The cache reaches beyond the transaction.
LEMMA ExtendSkipsKept ==
  ASSUME OwnInv, NEW i \in Numbers, Extend(i), ~Empty(tra[i].proc), tra[i].top < (BackPage(tra[i].proc) + 1) * TransPerTip
  PROVE  OwnInv'
<1>0. TypeInv
  BY DEF OwnInv
<1>1. /\ tra[i].pc = "extend" /\ Goes(i, "scan")
      /\ KeepsNumbers(i) /\ KeepsPages(i) /\ KeepsLimits(i) /\ KeepsSweep(i)
      /\ UNCHANGED <<header, tip, lock, dbb, cache, swept>>
  BY <1>0, ExtendSkips
<1>2. /\ Live(i) /\ FitOf(i) /\ LockOf(i) /\ ActiveOf(i) /\ LoadOf(i)
      /\ tra[i].number \in Numbers /\ tra[i].number <= header.nt /\ tra[i].number # 0 /\ i \in Nat /\ i > 0
      /\ header.nt \in Nat /\ header.nt \in Numbers /\ header.nt \in 0..MaxTra /\ header.oit \in Nat
      /\ i <= header.nt /\ header.oit <= header.nt
  BY <1>1, ItsFacts DEF Goes
<1>3. PICK p \in Procs : p = tra[i].proc /\ p = tra'[i].proc
  BY <1>1, TypedTra DEF Goes
<1>4. (Empty(p)' <=> Empty(p)) /\ \A b : Reach(p, b)' <=> Reach(p, b)
  BY <1>1, GrowsSame
<1>10. Reach(p, i)
  <2>1. PICK m \in 0..MaxTra : Has(p, m) /\ BackPage(p) = Page(m)
    BY <1>3, BackIs, CachedIs
  <2> QED
    BY <1>2, <1>3, <2>1, PageEnd DEF Reach, FitOf
<1>5. FitOf(i)'
  BY <1>1, <1>2 DEF FitOf, Goes, KeepsNumbers, KeepsLimits, KeepsPages, KeepsSweep, Starting, Looking
<1>6. LockOf(i)'
  BY <1>1, <1>2 DEF LockOf, Goes, KeepsNumbers, Owns, SweepsOn, At, FitOf
<1>7. ActiveOf(i)'
  BY <1>1, <1>2 DEF ActiveOf, Goes, KeepsNumbers, Unended, SweepsOn
<1>8. LoadOf(i)'
  BY <1>1, <1>2, <1>3, <1>4, <1>10 DEF LoadOf, Goes, KeepsPages, Page
<1>9. swept' \subseteq Numbers
  BY <1>0, <1>1 DEF TypeInv
<1> QED
  BY <1>1, <1>5, <1>6, <1>7, <1>8, <1>9, MoveKept DEF ItsOwn

\* The pages to read are taken from the header page.
LEMMA ExtendReadsKept ==
  ASSUME OwnInv, NEW i \in Numbers, Extend(i),
         Empty(tra[i].proc) \/ ~(tra[i].top < (BackPage(tra[i].proc) + 1) * TransPerTip)
  PROVE  OwnInv'
<1>0. TypeInv
  BY DEF OwnInv
<1>1. /\ tra[i].pc = "extend" /\ Goes(i, "fill")
      /\ KeepsNumbers(i) /\ KeepsLimits(i) /\ KeepsSweep(i)
      /\ tra'[i].local.next = Page(Most(ReadFrom(tra[i].proc), header.oit))
      /\ tra'[i].local.last = Page(header.nt) /\ tra'[i].local.trim = header.oit
      /\ UNCHANGED <<header, tip, lock, dbb, cache, swept>>
  BY <1>0, ExtendReads
<1>2. /\ Live(i) /\ FitOf(i) /\ LockOf(i) /\ ActiveOf(i) /\ LoadOf(i)
      /\ tra[i].number \in Numbers /\ tra[i].number <= header.nt /\ tra[i].number # 0 /\ i \in Nat /\ i > 0
      /\ header.nt \in Nat /\ header.nt \in Numbers /\ header.nt \in 0..MaxTra /\ header.oit \in Nat
      /\ i <= header.nt /\ header.oit <= header.nt
  BY <1>1, ItsFacts DEF Goes
<1>3. PICK p \in Procs : p = tra[i].proc /\ p = tra'[i].proc
  BY <1>1, TypedTra DEF Goes
<1>4. (Empty(p)' <=> Empty(p)) /\ \A b : Reach(p, b)' <=> Reach(p, b)
  BY <1>1, GrowsSame
<1> DEFINE from == Most(ReadFrom(p), header.oit)
<1>10. from \in Nat /\ from <= header.nt /\ from >= header.oit
  <2>1. ReadFrom(p) \in Nat
    BY <1>0, FrontTypes
  <2>2. ReadFrom(p) <= header.nt
    BY <1>2, <1>3, <2>1 DEF ReadFrom, FitOf
  <2> QED
    BY <1>2, <2>1, <2>2 DEF Most
<1> HIDE DEF from
<1>11. PICK next \in Nat, last \in Nat : next = Page(from) /\ last = Page(header.nt)
  BY <1>2, <1>10, PageIs
<1>12. next <= last /\ Page(i) <= last
  BY <1>2, <1>10, <1>11, PageOrder
<1>13. header.oit < (last + 1) * TransPerTip
  <2>1. header.nt < (last + 1) * TransPerTip /\ (last + 1) * TransPerTip \in Nat
    BY <1>2, <1>11, PageEnd
  <2> QED
    BY <1>2, <2>1
<1>14. Empty(p) => dbb[p].oit < (next + 1) * TransPerTip
  <2>1. from < (next + 1) * TransPerTip /\ (next + 1) * TransPerTip \in Nat
    <3>1. from \in 0..MaxTra
      BY <1>2, <1>10, TransactionsAssumption
    <3> QED
      BY <1>11, <3>1, PageEnd
  <2>2. Empty(p) => dbb[p].oit <= header.oit
    BY <1>1, <1>2, <1>3 DEF LoadOf
  <2> QED
    BY <1>0, <1>2, <1>10, <2>1, <2>2, DbbType
<1>15. tra'[i].local.next = next /\ tra'[i].local.last = last /\ tra'[i].local.trim = header.oit
  BY <1>1, <1>3, <1>11 DEF from
<1>5. FitOf(i)'
  BY <1>1, <1>2 DEF FitOf, Goes, KeepsNumbers, KeepsLimits, KeepsPages, KeepsSweep, Starting, Looking
<1>6. LockOf(i)'
  BY <1>1, <1>2 DEF LockOf, Goes, KeepsNumbers, Owns, SweepsOn, At, FitOf
<1>7. ActiveOf(i)'
  BY <1>1, <1>2 DEF ActiveOf, Goes, KeepsNumbers, Unended, SweepsOn
<1>8. LoadOf(i)'
  <2>1. tra'[i].pc = "fill" /\ tra'[i].proc = p /\ dbb' = dbb /\ header' = header
    BY <1>1, <1>3 DEF Goes
  <2>2. last = Page(header'.nt)
    BY <1>11, <2>1
  <2> QED
    BY <1>4, <1>11, <1>12, <1>13, <1>14, <1>15, <2>1, <2>2 DEF LoadOf, Page
<1>9. swept' \subseteq Numbers
  BY <1>0, <1>1 DEF TypeInv
<1> QED
  BY <1>1, <1>5, <1>6, <1>7, <1>8, <1>9, MoveKept DEF ItsOwn

\* Nobody older is active.
LEMMA ScanPublishKept ==
  ASSUME OwnInv, NEW i \in Numbers, ScanTo(i, tra[i].top)
  PROVE  OwnInv'
<1>0. TypeInv
  BY DEF OwnInv
<1>10. tra[i].top \in Nat
  BY <1>0, LiveIs, TypedTra DEF ScanTo, At
<1>1. /\ tra[i].pc = "scan" /\ Goes(i, "publish")
      /\ KeepsNumbers(i) /\ KeepsPages(i) /\ KeepsLimits(i) /\ KeepsSweep(i)
      /\ UNCHANGED <<header, tip, lock, dbb, cache, swept>>
  BY <1>0, <1>10, ScanPublish
<1>2. /\ Live(i) /\ FitOf(i) /\ LockOf(i) /\ ActiveOf(i) /\ LoadOf(i)
      /\ tra[i].number \in Numbers /\ tra[i].number <= header.nt /\ tra[i].number # 0 /\ i \in Nat /\ i > 0
      /\ header.nt \in Nat /\ header.nt \in Numbers /\ header.nt \in 0..MaxTra /\ header.oit \in Nat
      /\ i <= header.nt /\ header.oit <= header.nt
  BY <1>1, ItsFacts DEF Goes
<1>3. PICK p \in Procs : p = tra[i].proc /\ p = tra'[i].proc
  BY <1>1, TypedTra DEF Goes
<1>4. (Empty(p)' <=> Empty(p)) /\ \A b : Reach(p, b)' <=> Reach(p, b)
  BY <1>1, GrowsSame
<1>5. FitOf(i)'
  BY <1>1, <1>2 DEF FitOf, Goes, KeepsNumbers, KeepsLimits, KeepsPages, KeepsSweep, Starting, Looking
<1>6. LockOf(i)'
  BY <1>1, <1>2 DEF LockOf, Goes, KeepsNumbers, Owns, SweepsOn, At, FitOf
<1>7. ActiveOf(i)'
  BY <1>1, <1>2 DEF ActiveOf, Goes, KeepsNumbers, Unended, SweepsOn
<1>8. LoadOf(i)'
  BY <1>1, <1>2, <1>3, <1>4 DEF LoadOf, Goes, KeepsPages, Page
<1>9. swept' \subseteq Numbers
  BY <1>0, <1>1 DEF TypeInv
<1> QED
  BY <1>1, <1>5, <1>6, <1>7, <1>8, <1>9, MoveKept DEF ItsOwn

\* A transaction without a lock is to be settled.
LEMMA ScanSettleKept ==
  ASSUME OwnInv, NEW i \in Numbers, NEW n \in Numbers, tra[i].local.active <= n, n < i, ScanTo(i, n), n # tra[i].top,
         lock[n] = 0, tra[i].local.cleanup
  PROVE  OwnInv'
<1>0. TypeInv
  BY DEF OwnInv
<1>1. /\ tra[i].pc = "scan" /\ Goes(i, "settle")
      /\ KeepsNumbers(i) /\ KeepsPages(i) /\ KeepsSweep(i)
      /\ tra'[i].local.active = n /\ tra'[i].local.oat = tra[i].local.oat /\ tra'[i].oldest_active = tra[i].oldest_active
      /\ UNCHANGED <<header, tip, lock, dbb, cache, swept>>
  <2>1. n \in Nat
    BY DEF Numbers
  <2> QED
    BY <1>0, <2>1, ScanSettle
<1>2. /\ Live(i) /\ FitOf(i) /\ LockOf(i) /\ ActiveOf(i) /\ LoadOf(i)
      /\ tra[i].number \in Numbers /\ tra[i].number <= header.nt /\ tra[i].number # 0 /\ i \in Nat /\ i > 0
      /\ header.nt \in Nat /\ header.nt \in Numbers /\ header.nt \in 0..MaxTra /\ header.oit \in Nat
      /\ i <= header.nt /\ header.oit <= header.nt
  BY <1>1, ItsFacts DEF Goes
<1>3. PICK p \in Procs : p = tra[i].proc /\ p = tra'[i].proc
  BY <1>1, TypedTra DEF Goes
<1>4. (Empty(p)' <=> Empty(p)) /\ \A b : Reach(p, b)' <=> Reach(p, b)
  BY <1>1, GrowsSame
<1>10. n \in Nat /\ n > 0 /\ n <= header.nt
  BY <1>2 DEF Numbers
<1>5. FitOf(i)'
  BY <1>1, <1>2, <1>10 DEF FitOf, Goes, KeepsNumbers, KeepsLimits, KeepsPages, KeepsSweep, Starting, Looking
<1>6. LockOf(i)'
  BY <1>1, <1>2, <1>10 DEF LockOf, Goes, KeepsNumbers, Owns, SweepsOn, At, FitOf
<1>7. ActiveOf(i)'
  BY <1>1, <1>2 DEF ActiveOf, Goes, KeepsNumbers, Unended, SweepsOn
<1>8. LoadOf(i)'
  BY <1>1, <1>2, <1>3, <1>4 DEF LoadOf, Goes, KeepsPages, Page
<1>9. swept' \subseteq Numbers
  BY <1>0, <1>1 DEF TypeInv
<1> QED
  BY <1>1, <1>5, <1>6, <1>7, <1>8, <1>9, MoveKept DEF ItsOwn

\* The data of the lock of an active transaction.
LEMMA ScanQueryKept ==
  ASSUME OwnInv, NEW i \in Numbers, NEW n \in Numbers, tra[i].local.active <= n, n < i, ScanTo(i, n), n # tra[i].top,
         ~(lock[n] = 0 /\ tra[i].local.cleanup)
  PROVE  OwnInv'
<1>0. TypeInv
  BY DEF OwnInv
<1>10. PICK pc \in {"publish", "query"} : pc = IF Least(tra[i].oldest_active, IF n < tra[i].top /\ lock[n] # 0 THEN lock[n] ELSE n) = tra[i].local.ost THEN "publish" ELSE "query"
  OBVIOUS
<1>1. /\ tra[i].pc = "scan" /\ Goes(i, pc)
      /\ KeepsNumbers(i) /\ KeepsPages(i) /\ KeepsSweep(i)
      /\ tra'[i].local.active = tra[i].local.active /\ tra'[i].local.oat = Least(tra[i].local.oat, n)
      /\ tra'[i].oldest_active = Least(tra[i].oldest_active, IF n < tra[i].top /\ lock[n] # 0 THEN lock[n] ELSE n)
      /\ UNCHANGED <<header, tip, lock, dbb, cache, swept>>
  BY <1>0, <1>10, ScanQuery
<1>2. /\ Live(i) /\ FitOf(i) /\ LockOf(i) /\ ActiveOf(i) /\ LoadOf(i)
      /\ tra[i].number \in Numbers /\ tra[i].number <= header.nt /\ tra[i].number # 0 /\ i \in Nat /\ i > 0
      /\ header.nt \in Nat /\ header.nt \in Numbers /\ header.nt \in 0..MaxTra /\ header.oit \in Nat
      /\ i <= header.nt /\ header.oit <= header.nt
  BY <1>1, ItsFacts DEF Goes
<1>3. PICK p \in Procs : p = tra[i].proc /\ p = tra'[i].proc
  BY <1>1, TypedTra DEF Goes
<1>4. (Empty(p)' <=> Empty(p)) /\ \A b : Reach(p, b)' <=> Reach(p, b)
  BY <1>1, GrowsSame
<1>11. /\ n \in Nat /\ n > 0 /\ lock[n] \in Nat
       /\ tra[i].local.oat \in Nat /\ tra[i].oldest_active \in Nat /\ tra[i].oldest_active <= i /\ tra[i].local.oat > 0
  BY <1>0, <1>1, <1>2, TypedTra, LockNat DEF Numbers, Goes, FitOf, Starting, Looking
<1>12. tra'[i].local.oat > 0 /\ tra'[i].oldest_active <= i
  BY <1>1, <1>2, <1>11 DEF Least
<1>5. FitOf(i)'
  BY <1>1, <1>2, <1>12 DEF FitOf, Goes, KeepsNumbers, KeepsSweep, Starting, Looking
<1>6. LockOf(i)'
  BY <1>1, <1>2 DEF LockOf, Goes, KeepsNumbers, Owns, SweepsOn, At, FitOf
<1>7. ActiveOf(i)'
  BY <1>1, <1>2 DEF ActiveOf, Goes, KeepsNumbers, Unended, SweepsOn
<1>8. LoadOf(i)'
  BY <1>1, <1>2, <1>3, <1>4 DEF LoadOf, Goes, KeepsPages, Page
<1>9. swept' \subseteq Numbers
  BY <1>0, <1>1 DEF TypeInv
<1> QED
  BY <1>1, <1>5, <1>6, <1>7, <1>8, <1>9, MoveKept DEF ItsOwn

\* The least data of all locks.
LEMMA QueryKept ==
  ASSUME OwnInv, NEW i \in Numbers, Query(i)
  PROVE  OwnInv'
<1>0. TypeInv
  BY DEF OwnInv
<1>10. tra[i] \in Transaction /\ tra[i].pc = "query"
  BY <1>0, LiveIs DEF Query, At
<1>11. tra[i].number \in Numbers /\ lock[tra[i].number] # 0
  BY <1>10, ItsFacts DEF LockOf, Owns, SweepsOn
<1>1. /\ tra[i].pc = "query" /\ Goes(i, "publish")
      /\ KeepsNumbers(i) /\ KeepsPages(i) /\ KeepsSweep(i)
      /\ tra'[i].local.active = tra[i].local.active /\ tra'[i].local.oat = tra[i].local.oat
      /\ tra'[i].oldest_active = Least(tra[i].oldest_active, OldestData)
      /\ UNCHANGED <<header, tip, lock, dbb, cache, swept>>
  BY <1>0, <1>11, QueryEffect
<1>2. /\ Live(i) /\ FitOf(i) /\ LockOf(i) /\ ActiveOf(i) /\ LoadOf(i)
      /\ tra[i].number \in Numbers /\ tra[i].number <= header.nt /\ tra[i].number # 0 /\ i \in Nat /\ i > 0
      /\ header.nt \in Nat /\ header.nt \in Numbers /\ header.nt \in 0..MaxTra /\ header.oit \in Nat
      /\ i <= header.nt /\ header.oit <= header.nt
  BY <1>1, ItsFacts DEF Goes
<1>3. PICK p \in Procs : p = tra[i].proc /\ p = tra'[i].proc
  BY <1>1, TypedTra DEF Goes
<1>4. (Empty(p)' <=> Empty(p)) /\ \A b : Reach(p, b)' <=> Reach(p, b)
  BY <1>1, GrowsSame
<1>12. tra'[i].oldest_active <= i
  <2>1. OldestData \in Nat /\ tra[i].oldest_active \in Nat /\ tra[i].oldest_active <= i
    BY <1>0, <1>2, <1>10, <1>11, DataMin, TypedTra DEF FitOf
  <2> QED
    BY <1>1, <1>2, <2>1 DEF Least
<1>5. FitOf(i)'
  BY <1>1, <1>2, <1>12 DEF FitOf, Goes, KeepsNumbers, KeepsSweep, Starting, Looking
<1>6. LockOf(i)'
  BY <1>1, <1>2 DEF LockOf, Goes, KeepsNumbers, Owns, SweepsOn, At, FitOf
<1>7. ActiveOf(i)'
  BY <1>1, <1>2 DEF ActiveOf, Goes, KeepsNumbers, Unended, SweepsOn
<1>8. LoadOf(i)'
  BY <1>1, <1>2, <1>3, <1>4 DEF LoadOf, Goes, KeepsPages, Page
<1>9. swept' \subseteq Numbers
  BY <1>0, <1>1 DEF TypeInv
<1> QED
  BY <1>1, <1>5, <1>6, <1>7, <1>8, <1>9, MoveKept DEF ItsOwn

\* A sweep begins.
LEMMA SweepKept ==
  ASSUME OwnInv, NEW i \in Numbers, Sweep(i)
  PROVE  OwnInv'
<1>0. TypeInv
  BY DEF OwnInv
<1>1. /\ tra[i].pc = "running" /\ tra[i].kind = "sweep" /\ Goes(i, "sweeping")
      /\ KeepsNumbers(i) /\ KeepsPages(i) /\ KeepsLimits(i)
      /\ tra'[i].local.saved = tra[i].oldest_active
      /\ UNCHANGED <<header, tip, lock, dbb, cache, swept>>
  BY <1>0, SweepEffect
<1>2. /\ Live(i) /\ FitOf(i) /\ LockOf(i) /\ ActiveOf(i) /\ LoadOf(i)
      /\ tra[i].number \in Numbers /\ tra[i].number <= header.nt /\ tra[i].number # 0 /\ i \in Nat /\ i > 0
      /\ header.nt \in Nat /\ header.nt \in Numbers /\ header.nt \in 0..MaxTra /\ header.oit \in Nat
      /\ i <= header.nt /\ header.oit <= header.nt
  BY <1>1, ItsFacts DEF Goes
<1>3. PICK p \in Procs : p = tra[i].proc /\ p = tra'[i].proc
  BY <1>1, TypedTra DEF Goes
<1>4. (Empty(p)' <=> Empty(p)) /\ \A b : Reach(p, b)' <=> Reach(p, b)
  BY <1>1, GrowsSame
<1>5. FitOf(i)'
  BY <1>1, <1>2 DEF FitOf, Goes, KeepsNumbers, KeepsLimits, Starting, Looking
<1>6. LockOf(i)'
  BY <1>1, <1>2 DEF LockOf, Goes, KeepsNumbers, Owns, SweepsOn, At, FitOf
<1>7. ActiveOf(i)'
  BY <1>1, <1>2 DEF ActiveOf, Goes, KeepsNumbers, Unended, SweepsOn
<1>8. LoadOf(i)'
  BY <1>1, <1>2, <1>3, <1>4 DEF LoadOf, Goes, KeepsPages, Page
<1>9. swept' \subseteq Numbers
  BY <1>0, <1>1 DEF TypeInv
<1> QED
  BY <1>1, <1>5, <1>6, <1>7, <1>8, <1>9, MoveKept DEF ItsOwn

\* A sweep has gone through the relations.
LEMMA SweptKept ==
  ASSUME OwnInv, NEW i \in Numbers, Swept(i)
  PROVE  OwnInv'
<1>0. TypeInv
  BY DEF OwnInv
<1>1. /\ tra[i].pc = "sweeping" /\ Goes(i, "advance")
      /\ KeepsNumbers(i) /\ KeepsPages(i) /\ KeepsSweep(i)
      /\ tra'[i].local.active = tra[i].local.active /\ tra'[i].local.oat = tra[i].local.oat
      /\ swept' = swept \union tra[i].local.marked
      /\ UNCHANGED <<header, tip, lock, dbb, cache>>
  BY <1>0, SweptEffect
<1>2. /\ Live(i) /\ FitOf(i) /\ LockOf(i) /\ ActiveOf(i) /\ LoadOf(i)
      /\ tra[i].number \in Numbers /\ tra[i].number <= header.nt /\ tra[i].number # 0 /\ i \in Nat /\ i > 0
      /\ header.nt \in Nat /\ header.nt \in Numbers /\ header.nt \in 0..MaxTra /\ header.oit \in Nat
      /\ i <= header.nt /\ header.oit <= header.nt
  BY <1>1, ItsFacts DEF Goes
<1>3. PICK p \in Procs : p = tra[i].proc /\ p = tra'[i].proc
  BY <1>1, TypedTra DEF Goes
<1>4. (Empty(p)' <=> Empty(p)) /\ \A b : Reach(p, b)' <=> Reach(p, b)
  BY <1>1, GrowsSame
<1>5. FitOf(i)'
  BY <1>1, <1>2 DEF FitOf, Goes, KeepsNumbers, KeepsSweep, Starting, Looking
<1>6. LockOf(i)'
  BY <1>1, <1>2 DEF LockOf, Goes, KeepsNumbers, Owns, SweepsOn, At, FitOf
<1>7. ActiveOf(i)'
  BY <1>1, <1>2 DEF ActiveOf, Goes, KeepsNumbers, Unended, SweepsOn
<1>8. LoadOf(i)'
  BY <1>1, <1>2, <1>3, <1>4 DEF LoadOf, Goes, KeepsPages, Page
<1>9. swept' \subseteq Numbers
  BY <1>1, TypedTra DEF OwnInv, TypeInv, Goes
<1> QED
  BY <1>1, <1>5, <1>6, <1>7, <1>8, <1>9, MoveKept DEF ItsOwn

\* A snapshot copies a page of the inventory.
LEMMA CopyKept ==
  ASSUME OwnInv, NEW i \in Numbers, Copy(i)
  PROVE  OwnInv'
<1>0. TypeInv /\ CacheInv
  BY DEF OwnInv
<1>13. PICK pc \in {"copy", "scan"} : pc = IF tra[i].local.next < tra[i].local.last THEN "copy" ELSE "scan"
  OBVIOUS
<1>1. /\ tra[i].pc \in {"inventory", "copy"} /\ Goes(i, pc)
      /\ KeepsNumbers(i) /\ KeepsLimits(i) /\ KeepsSweep(i)
      /\ tra'[i].local.next = tra[i].local.next + 1 /\ tra'[i].local.last = tra[i].local.last
      /\ tra'[i].local.trim = tra[i].local.trim
      /\ cache' = [cache EXCEPT ![tra[i].proc] = Updated(tra[i].proc, tra[i].local.next, tip)]
      /\ UNCHANGED <<header, tip, lock, dbb, swept>>
  BY <1>0, <1>13, CopyEffect
<1>2. /\ Live(i) /\ FitOf(i) /\ LockOf(i) /\ ActiveOf(i) /\ LoadOf(i)
      /\ tra[i].number \in Numbers /\ tra[i].number <= header.nt /\ tra[i].number # 0 /\ i \in Nat /\ i > 0
      /\ header.nt \in Nat /\ header.nt \in Numbers /\ header.nt \in 0..MaxTra /\ header.oit \in Nat
      /\ i <= header.nt /\ header.oit <= header.nt
  BY <1>1, ItsFacts DEF Goes
<1>3. PICK p \in Procs : p = tra[i].proc /\ p = tra'[i].proc
  BY <1>1, TypedTra DEF Goes
<1>14. PICK next \in Nat, last \in Nat, trim \in Nat :
        next = tra[i].local.next /\ last = tra[i].local.last /\ trim = tra[i].local.trim
  BY <1>1, TypedTra DEF Goes
<1>15. next <= last /\ last <= Page(header.nt) /\ Page(i) \in Nat /\ Page(header.nt) \in Nat /\ next <= Page(header.nt)
  <2>1. next <= last /\ last <= Page(header.nt)
    BY <1>1, <1>2, <1>14 DEF LoadOf
  <2>2. Page(i) \in Nat /\ Page(header.nt) \in Nat
    BY <1>2, PageIs
  <2> QED
    BY <2>1, <2>2
<1>16. next * TransPerTip \in 0..MaxTra /\ Page(next * TransPerTip) = next
  BY <1>2, <1>15, PageFirst
<1>17. PICK m \in 0..MaxTra : Page(m) = next
  BY <1>16
<1>4. /\ cache' \in [Procs -> [0..MaxTra -> Stored]] /\ Has(p, m)' /\ ~Empty(p)'
      /\ \A q \in Procs : Grows(q) /\ (q # p => cache'[q] = cache[q])
      /\ Reach(p, dbb[p].oit)'
  <2>1. cache' = [cache EXCEPT ![p] = Updated(p, Page(m), tip)] /\ dbb' = dbb
    BY <1>1, <1>3, <1>14, <1>17
  <2>2. tip \in Inventory /\ Updated(p, Page(m), tip) \in [0..MaxTra -> Stored]
    <3>1. tip \in Inventory /\ cache[p] \in [0..MaxTra -> Stored]
      BY <1>0 DEF TypeInv
    <3> QED
      BY <3>1 DEF Updated, Inventory, Stored
  <2>3. Empty(p) => dbb[p].oit < (Page(m) + 1) * TransPerTip
    BY <1>1, <1>2, <1>3, <1>14, <1>17 DEF LoadOf, FitOf
  <2>4. cache' \in [Procs -> [0..MaxTra -> Stored]]
    BY <1>0, <2>1, <2>2 DEF TypeInv
  <2> QED
    BY <1>0, <2>1, <2>2, <2>3, <2>4, UpdatedGrows
<1>5. FitOf(i)'
  BY <1>1, <1>2 DEF FitOf, Goes, KeepsNumbers, KeepsLimits, KeepsSweep, Starting, Looking
<1>6. LockOf(i)'
  BY <1>1, <1>2 DEF LockOf, Goes, KeepsNumbers, Owns, SweepsOn, At, FitOf
<1>7. ActiveOf(i)'
  BY <1>1, <1>2 DEF ActiveOf, Goes, KeepsNumbers, Unended, SweepsOn
<1>8. LoadOf(i)'
  <2>1. CASE next < last
    <3>1. pc = "copy" /\ last = Page(i)
      BY <1>1, <1>2, <1>13, <1>14, <2>1 DEF LoadOf
    <3> QED
      BY <1>1, <1>3, <1>4, <1>14, <1>15, <2>1, <3>1 DEF LoadOf, Goes, Page
  <2>2. CASE ~(next < last)
    <3>1. pc = "scan" /\ next = Page(i)
      BY <1>1, <1>2, <1>13, <1>14, <1>15, <2>2 DEF LoadOf
    <3>2. (Page(m) + 1) * TransPerTip > i
      BY <1>2, <1>17, <3>1, PageIs
    <3>3. Reach(p, i)'
      BY <1>4, <3>2 DEF Reach
    <3> QED
      BY <1>1, <1>3, <1>4, <3>1, <3>3 DEF LoadOf, Goes
  <2> QED
    BY <2>1, <2>2
<1>9. Touches(i)
  BY <1>1, <1>4 DEF Touches
<1>10. tip' \in Inventory /\ lock' \in [Numbers -> Nat] /\ cache' \in [Procs -> [0..MaxTra -> Stored]] /\ swept' \subseteq Numbers
  BY <1>0, <1>1, <1>4 DEF TypeInv
<1>11. \A q \in Procs : cache'[q] = cache[q] \/ Reach(q, dbb[q].oit)'
  BY <1>3, <1>4
<1> QED
  BY <1>1, <1>5, <1>6, <1>7, <1>8, <1>9, <1>10, <1>11, GoesKept DEF ItsOwn

\* A page of the inventory is read for the cache alone.
LEMMA FillKept ==
  ASSUME OwnInv, NEW i \in Numbers, Fill(i)
  PROVE  OwnInv'
<1>0. TypeInv /\ CacheInv
  BY DEF OwnInv
<1>13. PICK pc \in {"cache", "trim"} : pc = IF tra[i].local.next < tra[i].local.last THEN "cache" ELSE "trim"
  OBVIOUS
<1>1. /\ tra[i].pc \in {"fill", "cache"} /\ Goes(i, pc)
      /\ KeepsNumbers(i) /\ KeepsLimits(i) /\ KeepsSweep(i)
      /\ tra'[i].local.next = tra[i].local.next + 1 /\ tra'[i].local.last = tra[i].local.last
      /\ tra'[i].local.trim = tra[i].local.trim
      /\ cache' = [cache EXCEPT ![tra[i].proc] = Updated(tra[i].proc, tra[i].local.next, tip)]
      /\ UNCHANGED <<header, tip, lock, dbb, swept>>
  BY <1>0, <1>13, FillEffect
<1>2. /\ Live(i) /\ FitOf(i) /\ LockOf(i) /\ ActiveOf(i) /\ LoadOf(i)
      /\ tra[i].number \in Numbers /\ tra[i].number <= header.nt /\ tra[i].number # 0 /\ i \in Nat /\ i > 0
      /\ header.nt \in Nat /\ header.nt \in Numbers /\ header.nt \in 0..MaxTra /\ header.oit \in Nat
      /\ i <= header.nt /\ header.oit <= header.nt
  BY <1>1, ItsFacts DEF Goes
<1>3. PICK p \in Procs : p = tra[i].proc /\ p = tra'[i].proc
  BY <1>1, TypedTra DEF Goes
<1>14. PICK next \in Nat, last \in Nat, trim \in Nat :
        next = tra[i].local.next /\ last = tra[i].local.last /\ trim = tra[i].local.trim
  BY <1>1, TypedTra DEF Goes
<1>15. next <= last /\ last <= Page(header.nt) /\ Page(i) \in Nat /\ Page(header.nt) \in Nat /\ next <= Page(header.nt)
  <2>1. next <= last /\ last <= Page(header.nt)
    BY <1>1, <1>2, <1>14 DEF LoadOf
  <2>2. Page(i) \in Nat /\ Page(header.nt) \in Nat
    BY <1>2, PageIs
  <2> QED
    BY <2>1, <2>2
<1>16. next * TransPerTip \in 0..MaxTra /\ Page(next * TransPerTip) = next
  BY <1>2, <1>15, PageFirst
<1>17. PICK m \in 0..MaxTra : Page(m) = next
  BY <1>16
<1>4. /\ cache' \in [Procs -> [0..MaxTra -> Stored]] /\ Has(p, m)' /\ ~Empty(p)'
      /\ \A q \in Procs : Grows(q) /\ (q # p => cache'[q] = cache[q])
      /\ Reach(p, dbb[p].oit)'
  <2>1. cache' = [cache EXCEPT ![p] = Updated(p, Page(m), tip)] /\ dbb' = dbb
    BY <1>1, <1>3, <1>14, <1>17
  <2>2. tip \in Inventory /\ Updated(p, Page(m), tip) \in [0..MaxTra -> Stored]
    <3>1. tip \in Inventory /\ cache[p] \in [0..MaxTra -> Stored]
      BY <1>0 DEF TypeInv
    <3> QED
      BY <3>1 DEF Updated, Inventory, Stored
  <2>3. Empty(p) => dbb[p].oit < (Page(m) + 1) * TransPerTip
    BY <1>1, <1>2, <1>3, <1>14, <1>17 DEF LoadOf, FitOf
  <2>4. cache' \in [Procs -> [0..MaxTra -> Stored]]
    BY <1>0, <2>1, <2>2 DEF TypeInv
  <2> QED
    BY <1>0, <2>1, <2>2, <2>3, <2>4, UpdatedGrows
<1>5. FitOf(i)'
  BY <1>1, <1>2 DEF FitOf, Goes, KeepsNumbers, KeepsLimits, KeepsSweep, Starting, Looking
<1>6. LockOf(i)'
  BY <1>1, <1>2 DEF LockOf, Goes, KeepsNumbers, Owns, SweepsOn, At, FitOf
<1>7. ActiveOf(i)'
  BY <1>1, <1>2 DEF ActiveOf, Goes, KeepsNumbers, Unended, SweepsOn
<1>8. LoadOf(i)'
  <2>0. Page(i) <= last /\ trim < (last + 1) * TransPerTip
    BY <1>1, <1>2, <1>14 DEF LoadOf
  <2>1. CASE next < last
    <3>1. pc = "cache"
      BY <1>13, <1>14, <2>1
    <3> QED
      BY <1>1, <1>3, <1>4, <1>14, <1>15, <2>0, <2>1, <3>1 DEF LoadOf, Goes, Page
  <2>2. CASE ~(next < last)
    <3>1. pc = "trim" /\ next = last
      BY <1>13, <1>14, <1>15, <2>2
    <3>2. (Page(i) + 1) * TransPerTip <= (last + 1) * TransPerTip /\ i < (Page(i) + 1) * TransPerTip
      BY <1>2, <1>15, <2>0, PageIs, ProductGrows, TransactionsAssumption
    <3>3. (Page(i) + 1) * TransPerTip \in Nat /\ (last + 1) * TransPerTip \in Nat
      BY <1>15, TransactionsAssumption
    <3>4. (Page(m) + 1) * TransPerTip > i /\ (Page(m) + 1) * TransPerTip > trim
      BY <1>2, <1>17, <2>0, <3>1, <3>2, <3>3
    <3>5. Reach(p, i)' /\ Reach(p, trim)'
      BY <1>4, <3>4 DEF Reach
    <3> QED
      BY <1>1, <1>3, <1>4, <1>14, <3>1, <3>5 DEF LoadOf, Goes
  <2> QED
    BY <2>1, <2>2
<1>9. Touches(i)
  BY <1>1, <1>4 DEF Touches
<1>10. tip' \in Inventory /\ lock' \in [Numbers -> Nat] /\ cache' \in [Procs -> [0..MaxTra -> Stored]] /\ swept' \subseteq Numbers
  BY <1>0, <1>1, <1>4 DEF TypeInv
<1>11. \A q \in Procs : cache'[q] = cache[q] \/ Reach(q, dbb[q].oit)'
  BY <1>3, <1>4
<1> QED
  BY <1>1, <1>5, <1>6, <1>7, <1>8, <1>9, <1>10, <1>11, GoesKept DEF ItsOwn

\* Pages below the oldest transaction are dropped.
LEMMA TrimKept ==
  ASSUME OwnInv, NEW i \in Numbers, Trim(i)
  PROVE  OwnInv'
<1>0. TypeInv /\ CacheInv
  BY DEF OwnInv
<1>1. /\ tra[i].pc = "trim" /\ Goes(i, "scan")
      /\ KeepsNumbers(i) /\ KeepsPages(i) /\ KeepsLimits(i) /\ KeepsSweep(i)
      /\ cache' = [cache EXCEPT ![tra[i].proc] = [n \in 0..MaxTra |->
              IF (Page(n) + 1) * TransPerTip < tra[i].local.trim THEN "none" ELSE cache[tra[i].proc][n]]]
      /\ UNCHANGED <<header, tip, lock, dbb, swept>>
  BY <1>0, TrimEffect
<1>2. /\ Live(i) /\ FitOf(i) /\ LockOf(i) /\ ActiveOf(i) /\ LoadOf(i)
      /\ tra[i].number \in Numbers /\ tra[i].number <= header.nt /\ tra[i].number # 0 /\ i \in Nat /\ i > 0
      /\ header.nt \in Nat /\ header.nt \in Numbers /\ header.nt \in 0..MaxTra /\ header.oit \in Nat
      /\ i <= header.nt /\ header.oit <= header.nt
  BY <1>1, ItsFacts DEF Goes
<1>3. PICK p \in Procs : p = tra[i].proc /\ p = tra'[i].proc
  BY <1>1, TypedTra DEF Goes
<1>14. PICK trim \in Nat : trim = tra[i].local.trim
  BY <1>1, TypedTra DEF Goes
<1>15. Reach(p, trim) /\ ~Empty(p) /\ Reach(p, i)
  BY <1>1, <1>2, <1>3, <1>14 DEF LoadOf
<1>4. /\ cache' \in [Procs -> [0..MaxTra -> Stored]] /\ ~Empty(p)'
      /\ \A q \in Procs : Grows(q) /\ (q # p => cache'[q] = cache[q])
      /\ Reach(p, dbb[p].oit)' /\ Reach(p, i)'
  <2> DEFINE c == [n \in 0..MaxTra |-> IF (Page(n) + 1) * TransPerTip < trim THEN "none" ELSE cache[p][n]]
  <2>1. cache' = [cache EXCEPT ![p] = c] /\ c \in [0..MaxTra -> Stored]
    BY <1>0, <1>1, <1>3, <1>14 DEF TypeInv, Stored
  <2>2. cache'[p] = c /\ \A q \in Procs : q # p => cache'[q] = cache[q]
    BY <1>0, <2>1 DEF TypeInv
  <2>3. cache' \in [Procs -> [0..MaxTra -> Stored]]
    BY <1>0, <2>1 DEF TypeInv
  <2>4. \A n \in 0..MaxTra : Has(p, n) => Has(p, n)' \/ (Page(n) + 1) * TransPerTip < trim
    BY <2>2 DEF Has
  <2> HIDE DEF c
  <2>5. Reach(p, trim)'
    <3>1. PICK m \in 0..MaxTra : Has(p, m) /\ (Page(m) + 1) * TransPerTip > trim
      BY <1>15 DEF Reach
    <3>2. Has(p, m)'
      BY <2>4, <3>1, PageEnd
    <3> QED
      BY <3>1, <3>2 DEF Reach
  <2>6. \A n \in 0..MaxTra : Has(p, n) => Has(p, n)' \/ (Page(n) + 1) * TransPerTip <= trim
    BY <2>4, PageEnd
  <2>7. Grows(p) /\ ~Empty(p)'
    BY <2>5, <2>6, GrowsDrop
  <2>8. PICK oit \in Nat : oit = dbb[p].oit /\ oit = dbb'[p].oit
    BY <1>0, <1>1, DbbType
  <2>9. Reach(p, oit)
    BY <1>0, <1>15, <2>8 DEF CacheInv
  <2>10. Reach(p, oit)' /\ Reach(p, i)'
    BY <1>2, <1>15, <2>7, <2>9 DEF Grows
  <2> QED
    BY <2>2, <2>3, <2>7, <2>8, <2>10, GrowsSame
<1>5. FitOf(i)'
  BY <1>1, <1>2 DEF FitOf, Goes, KeepsNumbers, KeepsLimits, KeepsSweep, Starting, Looking
<1>6. LockOf(i)'
  BY <1>1, <1>2 DEF LockOf, Goes, KeepsNumbers, Owns, SweepsOn, At, FitOf
<1>7. ActiveOf(i)'
  BY <1>1, <1>2 DEF ActiveOf, Goes, KeepsNumbers, Unended, SweepsOn
<1>8. LoadOf(i)'
  BY <1>1, <1>3, <1>4 DEF LoadOf, Goes
<1>9. Touches(i)
  BY <1>1, <1>4 DEF Touches
<1>10. tip' \in Inventory /\ lock' \in [Numbers -> Nat] /\ cache' \in [Procs -> [0..MaxTra -> Stored]] /\ swept' \subseteq Numbers
  BY <1>0, <1>1, <1>4 DEF TypeInv
<1>11. \A q \in Procs : cache'[q] = cache[q] \/ Reach(q, dbb[q].oit)'
  BY <1>3, <1>4
<1> QED
  BY <1>1, <1>5, <1>6, <1>7, <1>8, <1>9, <1>10, <1>11, GoesKept DEF ItsOwn

\* The state of a number on its page, and the page in the cache of the process.
LEMMA SetStateGrows ==
  ASSUME OwnInv, NEW p \in Procs, ~Empty(p), NEW n \in Numbers, NEW s \in States, SetState(p, n, s), dbb' = dbb
  PROVE  /\ tip' \in Inventory /\ cache' \in [Procs -> [0..MaxTra -> Stored]]
         /\ tip'[n] = s /\ \A m \in 0..MaxTra : m # n => tip'[m] = tip[m]
         /\ Reach(p, dbb[p].oit)' /\ ~Empty(p)'
         /\ \A q \in Procs : Grows(q) /\ (q # p => cache'[q] = cache[q])
<1>1. n \in 0..MaxTra /\ TypeInv /\ CacheInv
  BY DEF OwnInv, Numbers
<1>2. /\ tip' = [tip EXCEPT ![n] = s] /\ tip' \in Inventory
      /\ cache' = [cache EXCEPT ![p] = Updated(p, Page(n), tip')]
      /\ cache' \in [Procs -> [0..MaxTra -> Stored]]
  BY <1>1, SetStateType
<1>3. tip'[n] = s /\ \A m \in 0..MaxTra : m # n => tip'[m] = tip[m]
  BY <1>1, <1>2 DEF TypeInv, Inventory
<1>4. /\ Reach(p, dbb[p].oit)' /\ ~Empty(p)'
      /\ \A q \in Procs : Grows(q) /\ (q # p => cache'[q] = cache[q])
  BY <1>1, <1>2, UpdatedGrows
<1> QED
  BY <1>2, <1>3, <1>4

\* A transaction without a lock is taken for dead.
LEMMA CleanKept ==
  ASSUME OwnInv, NEW i \in Numbers, Clean(i)
  PROVE  OwnInv'
<1>0. TypeInv /\ CacheInv
  BY DEF OwnInv
<1>13. tra[i] \in Transaction /\ tra[i].pc = "settle"
  BY <1>0, LiveIs DEF Clean, At
<1>14. PICK n \in Numbers : n = tra[i].local.active /\ n <= header.nt /\ lock[n] = 0 /\ n \in 0..MaxTra
  <2>1. LockOf(i) /\ \A n \in Numbers : n \in 0..MaxTra
    BY <1>13, ItsFacts DEF Numbers
  <2> QED
    BY <1>13, <2>1 DEF LockOf, At
<1>1. /\ tra[i].pc = "settle" /\ Goes(i, "scan")
      /\ KeepsNumbers(i) /\ KeepsPages(i) /\ KeepsSweep(i)
      /\ tra'[i].local.active = n + 1 /\ tra'[i].local.oat = tra[i].local.oat /\ tra'[i].oldest_active = tra[i].oldest_active
      /\ Readable(tra[i].proc, n) /\ Settle(i, n, GetState(tra[i].proc, n))
      /\ UNCHANGED <<header, lock, dbb, swept>>
  BY <1>0, <1>14, CleanEffect
<1>2. /\ Live(i) /\ FitOf(i) /\ LockOf(i) /\ ActiveOf(i) /\ LoadOf(i)
      /\ tra[i].number \in Numbers /\ tra[i].number <= header.nt /\ tra[i].number # 0 /\ i \in Nat /\ i > 0
      /\ header.nt \in Nat /\ header.nt \in Numbers /\ header.nt \in 0..MaxTra /\ header.oit \in Nat
      /\ i <= header.nt /\ header.oit <= header.nt
  BY <1>1, ItsFacts DEF Goes
<1>3. PICK p \in Procs : p = tra[i].proc /\ p = tra'[i].proc
  BY <1>1, TypedTra DEF Goes
<1>15. ~Empty(p) /\ Reach(p, i)
  BY <1>1, <1>2, <1>3 DEF LoadOf
<1>4. /\ tip' \in Inventory /\ cache' \in [Procs -> [0..MaxTra -> Stored]]
      /\ \A m \in 0..MaxTra : m # n => tip'[m] = tip[m]
      /\ Reach(p, dbb[p].oit)' /\ ~Empty(p)'
      /\ \A q \in Procs : Grows(q) /\ (q # p => cache'[q] = cache[q])
  <2>1. Readable(p, n) /\ Settle(i, n, GetState(p, n)) /\ dbb' = dbb
    BY <1>1, <1>3
  <2> QED
    BY <1>2, <1>3, <1>15, <2>1, SettleGrows
<1>16. \A m \in Numbers : m \in 0..MaxTra
  BY DEF Numbers
<1>17. \A m \in Numbers : Owns(i, m) => m # n
  BY <1>1, <1>2, <1>14 DEF LockOf, SweepsOn
<1>18. Reach(p, i)'
  BY <1>2, <1>4, <1>15 DEF Grows
<1>5. FitOf(i)'
  BY <1>1, <1>2, <1>14 DEF FitOf, Goes, KeepsNumbers, KeepsSweep, Starting, Looking, Numbers
<1>6. LockOf(i)'
  BY <1>1, <1>2 DEF LockOf, Goes, KeepsNumbers, Owns, SweepsOn, At, FitOf
<1>7. ActiveOf(i)'
  <2>1. tip'[tra[i].number] = tip[tra[i].number]
    BY <1>2, <1>4, <1>16, <1>17 DEF Owns
  <2>2. tra[i].local.new = 0
    BY <1>1, <1>2 DEF FitOf
  <2> QED
    BY <1>1, <1>2, <2>1, <2>2 DEF ActiveOf, Goes, KeepsNumbers, Unended, SweepsOn
<1>8. LoadOf(i)'
  BY <1>1, <1>3, <1>4, <1>18 DEF LoadOf, Goes
<1>9. Touches(i)
  BY <1>1, <1>4, <1>14, <1>16 DEF Touches
<1>10. tip' \in Inventory /\ lock' \in [Numbers -> Nat] /\ cache' \in [Procs -> [0..MaxTra -> Stored]] /\ swept' \subseteq Numbers
  BY <1>0, <1>1, <1>4 DEF TypeInv
<1>11. \A q \in Procs : cache'[q] = cache[q] \/ Reach(q, dbb[q].oit)'
  BY <1>3, <1>4
<1> QED
  BY <1>1, <1>5, <1>6, <1>7, <1>8, <1>9, <1>10, <1>11, GoesKept DEF ItsOwn

\* Who has got the lock of another transaction takes it for dead.
LEMMA WaitKept ==
  ASSUME OwnInv, NEW i \in Numbers, NEW n \in Numbers, Wait(i, n)
  PROVE  OwnInv'
<1>0. TypeInv /\ CacheInv
  BY DEF OwnInv
<1>1. /\ tra[i].pc = "running" /\ tra[i].kind # "sweep" /\ Goes(i, "running")
      /\ KeepsNumbers(i) /\ KeepsPages(i) /\ KeepsLimits(i) /\ KeepsSweep(i)
      /\ n <= header.nt /\ lock[n] = 0
      /\ Readable(tra[i].proc, n) /\ Settle(i, n, GetState(tra[i].proc, n))
      /\ UNCHANGED <<header, lock, dbb, swept>>
  BY <1>0, WaitEffect
<1>2. /\ Live(i) /\ FitOf(i) /\ LockOf(i) /\ ActiveOf(i) /\ LoadOf(i)
      /\ tra[i].number \in Numbers /\ tra[i].number <= header.nt /\ tra[i].number # 0 /\ i \in Nat /\ i > 0
      /\ header.nt \in Nat /\ header.nt \in Numbers /\ header.nt \in 0..MaxTra /\ header.oit \in Nat
      /\ i <= header.nt /\ header.oit <= header.nt
  BY <1>1, ItsFacts DEF Goes
<1>3. PICK p \in Procs : p = tra[i].proc /\ p = tra'[i].proc
  BY <1>1, TypedTra DEF Goes
<1>15. ~Empty(p)
  BY <1>1, <1>2, <1>3 DEF LoadOf
<1>4. /\ tip' \in Inventory /\ cache' \in [Procs -> [0..MaxTra -> Stored]]
      /\ \A m \in 0..MaxTra : m # n => tip'[m] = tip[m]
      /\ Reach(p, dbb[p].oit)' /\ ~Empty(p)'
      /\ \A q \in Procs : Grows(q) /\ (q # p => cache'[q] = cache[q])
  <2>1. Readable(p, n) /\ Settle(i, n, GetState(p, n)) /\ dbb' = dbb
    BY <1>1, <1>3
  <2> QED
    BY <1>2, <1>3, <1>15, <2>1, SettleGrows
<1>16. \A m \in Numbers : m \in 0..MaxTra
  BY DEF Numbers
<1>17. \A m \in Numbers : Owns(i, m) => m # n
  BY <1>1, <1>2 DEF LockOf, SweepsOn
<1>5. FitOf(i)'
  BY <1>1, <1>2 DEF FitOf, Goes, KeepsNumbers, KeepsLimits, KeepsSweep, Starting, Looking
<1>6. LockOf(i)'
  BY <1>1, <1>2 DEF LockOf, Goes, KeepsNumbers, Owns, SweepsOn, At, FitOf
<1>7. ActiveOf(i)'
  <2>1. tip'[tra[i].number] = tip[tra[i].number]
    BY <1>2, <1>4, <1>16, <1>17 DEF Owns
  <2>2. tra[i].local.new = 0
    BY <1>1, <1>2 DEF FitOf
  <2> QED
    BY <1>1, <1>2, <2>1, <2>2 DEF ActiveOf, Goes, KeepsNumbers, Unended, SweepsOn
<1>8. LoadOf(i)'
  BY <1>1, <1>3, <1>4 DEF LoadOf, Goes
<1>9. Touches(i)
  BY <1>1, <1>4, <1>16 DEF Touches
<1>10. tip' \in Inventory /\ lock' \in [Numbers -> Nat] /\ cache' \in [Procs -> [0..MaxTra -> Stored]] /\ swept' \subseteq Numbers
  BY <1>0, <1>1, <1>4 DEF TypeInv
<1>11. \A q \in Procs : cache'[q] = cache[q] \/ Reach(q, dbb[q].oit)'
  BY <1>3, <1>4
<1> QED
  BY <1>1, <1>5, <1>6, <1>7, <1>8, <1>9, <1>10, <1>11, GoesKept DEF ItsOwn

\* A transaction sets its state.
LEMMA EndKept ==
  ASSUME OwnInv, NEW i \in Numbers, NEW state0 \in Ends, End(i, state0)
  PROVE  OwnInv'
<1>0. TypeInv /\ CacheInv
  BY DEF OwnInv
<1>1. /\ tra[i].pc \in {"running", "precommit"} /\ (tra[i].pc = "running" => tra[i].kind # "sweep") /\ Goes(i, "release")
      /\ KeepsNumbers(i) /\ KeepsPages(i) /\ KeepsLimits(i) /\ KeepsSweep(i)
      /\ SetState(tra[i].proc, tra[i].number, state0)
      /\ UNCHANGED <<header, lock, dbb, swept>>
  BY <1>0, EndEffect
<1>2. /\ Live(i) /\ FitOf(i) /\ LockOf(i) /\ ActiveOf(i) /\ LoadOf(i)
      /\ tra[i].number \in Numbers /\ tra[i].number <= header.nt /\ tra[i].number # 0 /\ i \in Nat /\ i > 0
      /\ header.nt \in Nat /\ header.nt \in Numbers /\ header.nt \in 0..MaxTra /\ header.oit \in Nat
      /\ i <= header.nt /\ header.oit <= header.nt
  BY <1>1, ItsFacts DEF Goes
<1>3. PICK p \in Procs : p = tra[i].proc /\ p = tra'[i].proc
  BY <1>1, TypedTra DEF Goes
<1>14. PICK n \in Numbers, state \in States : n = tra[i].number /\ state = state0
  BY <1>1, <1>2, TypedTra, EndsType DEF Goes
<1>15. ~Empty(p)
  BY <1>1, <1>2, <1>3 DEF LoadOf
<1>4. /\ tip' \in Inventory /\ cache' \in [Procs -> [0..MaxTra -> Stored]]
      /\ \A m \in 0..MaxTra : m # n => tip'[m] = tip[m]
      /\ Reach(p, dbb[p].oit)' /\ ~Empty(p)'
      /\ \A q \in Procs : Grows(q) /\ (q # p => cache'[q] = cache[q])
  <2>1. SetState(p, n, state) /\ dbb' = dbb
    BY <1>1, <1>3, <1>14
  <2> QED
    BY <1>15, <2>1, SetStateGrows
<1>16. \A m \in Numbers : m \in 0..MaxTra
  BY DEF Numbers
<1>17. Owns(i, n)
  BY <1>2, <1>14 DEF Owns
<1>5. FitOf(i)'
  BY <1>1, <1>2 DEF FitOf, Goes, KeepsNumbers, KeepsLimits, KeepsSweep, Starting, Looking
<1>6. LockOf(i)'
  BY <1>1, <1>2 DEF LockOf, Goes, KeepsNumbers, Owns, SweepsOn, At, FitOf
<1>7. ActiveOf(i)'
  <2>1. tra[i].local.new = 0
    BY <1>1, <1>2 DEF FitOf
  <2> QED
    BY <1>1, <1>2, <2>1 DEF ActiveOf, Goes, KeepsNumbers, Unended, SweepsOn
<1>8. LoadOf(i)'
  BY <1>1, <1>3, <1>4 DEF LoadOf, Goes
<1>9. Touches(i)
  BY <1>1, <1>4, <1>16, <1>17 DEF Touches
<1>10. tip' \in Inventory /\ lock' \in [Numbers -> Nat] /\ cache' \in [Procs -> [0..MaxTra -> Stored]] /\ swept' \subseteq Numbers
  BY <1>0, <1>1, <1>4 DEF TypeInv
<1>11. \A q \in Procs : cache'[q] = cache[q] \/ Reach(q, dbb[q].oit)'
  BY <1>3, <1>4
<1> QED
  BY <1>1, <1>5, <1>6, <1>7, <1>8, <1>9, <1>10, <1>11, GoesKept DEF ItsOwn

\* A transaction that goes on sets the state of its number.
LEMMA RetainStateKept ==
  ASSUME OwnInv, NEW i \in Numbers, RetainState(i)
  PROVE  OwnInv'
<1>0. TypeInv /\ CacheInv
  BY DEF OwnInv
<1>1. /\ tra[i].pc \in {"retain"} /\ TRUE /\ Goes(i, "retained")
      /\ KeepsNumbers(i) /\ KeepsPages(i) /\ KeepsLimits(i) /\ KeepsSweep(i)
      /\ SetState(tra[i].proc, tra[i].number, tra[i].local.state)
      /\ UNCHANGED <<header, lock, dbb, swept>>
  BY <1>0, RetainStateEffect
<1>2. /\ Live(i) /\ FitOf(i) /\ LockOf(i) /\ ActiveOf(i) /\ LoadOf(i)
      /\ tra[i].number \in Numbers /\ tra[i].number <= header.nt /\ tra[i].number # 0 /\ i \in Nat /\ i > 0
      /\ header.nt \in Nat /\ header.nt \in Numbers /\ header.nt \in 0..MaxTra /\ header.oit \in Nat
      /\ i <= header.nt /\ header.oit <= header.nt
  BY <1>1, ItsFacts DEF Goes
<1>3. PICK p \in Procs : p = tra[i].proc /\ p = tra'[i].proc
  BY <1>1, TypedTra DEF Goes
<1>14. PICK n \in Numbers, state \in States : n = tra[i].number /\ state = tra[i].local.state
  BY <1>1, <1>2, TypedTra, EndsType DEF Goes
<1>15. ~Empty(p)
  BY <1>1, <1>2, <1>3 DEF LoadOf
<1>4. /\ tip' \in Inventory /\ cache' \in [Procs -> [0..MaxTra -> Stored]]
      /\ \A m \in 0..MaxTra : m # n => tip'[m] = tip[m]
      /\ Reach(p, dbb[p].oit)' /\ ~Empty(p)'
      /\ \A q \in Procs : Grows(q) /\ (q # p => cache'[q] = cache[q])
  <2>1. SetState(p, n, state) /\ dbb' = dbb
    BY <1>1, <1>3, <1>14
  <2> QED
    BY <1>15, <2>1, SetStateGrows
<1>16. \A m \in Numbers : m \in 0..MaxTra
  BY DEF Numbers
<1>17. Owns(i, n)
  BY <1>2, <1>14 DEF Owns
<1>5. FitOf(i)'
  BY <1>1, <1>2 DEF FitOf, Goes, KeepsNumbers, KeepsLimits, KeepsSweep, Starting, Looking
<1>6. LockOf(i)'
  BY <1>1, <1>2 DEF LockOf, Goes, KeepsNumbers, Owns, SweepsOn, At, FitOf
<1>7. ActiveOf(i)'
  <2>1. tra[i].local.new # 0 => tip'[tra[i].local.new] = tip[tra[i].local.new]
    <3>1. tra[i].local.new # 0 => tra[i].local.new \in Numbers /\ tra[i].local.new # n
      BY <1>1, <1>14, ItsFacts DEF Goes
    <3> QED
      BY <1>4, <1>16, <3>1
  <2> QED
    BY <1>1, <1>2, <2>1 DEF ActiveOf, Goes, KeepsNumbers, Unended, SweepsOn
<1>8. LoadOf(i)'
  BY <1>1, <1>3, <1>4 DEF LoadOf, Goes
<1>9. Touches(i)
  BY <1>1, <1>4, <1>16, <1>17 DEF Touches
<1>10. tip' \in Inventory /\ lock' \in [Numbers -> Nat] /\ cache' \in [Procs -> [0..MaxTra -> Stored]] /\ swept' \subseteq Numbers
  BY <1>0, <1>1, <1>4 DEF TypeInv
<1>11. \A q \in Procs : cache'[q] = cache[q] \/ Reach(q, dbb[q].oit)'
  BY <1>3, <1>4
<1> QED
  BY <1>1, <1>5, <1>6, <1>7, <1>8, <1>9, <1>10, <1>11, GoesKept DEF ItsOwn

\* A transaction releases the lock of its number: a sweep goes on, ...
LEMMA ReleaseSweepKept ==
  ASSUME OwnInv, NEW i \in Numbers, Release(i), tra[i].kind = "sweep"
  PROVE  OwnInv'
<1>0. TypeInv
  BY DEF OwnInv
<1>1. /\ tra[i].pc = "release" /\ Goes(i, "running")
      /\ KeepsNumbers(i) /\ KeepsPages(i) /\ KeepsLimits(i) /\ KeepsSweep(i)
      /\ lock' = [lock EXCEPT ![tra[i].number] = 0]
      /\ UNCHANGED <<header, tip, dbb, cache, swept>>
  BY <1>0, ReleaseSweep
<1>2. FitOf(i) /\ LoadOf(i) /\ tra[i].number \in Numbers /\ tra[i].number # 0
  BY <1>1, ItsFacts DEF Goes
<1>3. PICK p \in Procs : p = tra[i].proc /\ p = tra'[i].proc
  BY <1>1, TypedTra DEF Goes
<1>4. Empty(p)' <=> Empty(p)
  BY <1>1, GrowsSame
<1>5. FitOf(i)'
  BY <1>1, <1>2 DEF FitOf, Goes, KeepsNumbers, KeepsLimits, KeepsSweep, Starting, Looking
<1>6. LockOf(i)'
  BY <1>1 DEF LockOf, Goes, SweepsOn, At
<1>7. ActiveOf(i)'
  BY <1>1, <1>2 DEF ActiveOf, Goes, KeepsNumbers, Unended, SweepsOn, FitOf
<1>8. LoadOf(i)'
  BY <1>1, <1>2, <1>3, <1>4 DEF LoadOf, Goes
<1>9. lock' \in [Numbers -> Nat] /\ \A n \in Numbers : n # tra[i].number => lock'[n] = lock[n]
  BY <1>0, <1>1 DEF TypeInv
<1>10. Touches(i)
  <2>1. \A q \in Procs : Grows(q)
    BY <1>1, GrowsSame
  <2>2. Owns(i, tra[i].number) /\ ~SweepsOn(i)
    BY <1>1, <1>2 DEF Owns, SweepsOn
  <2> QED
    BY <1>1, <1>9, <2>1, <2>2 DEF Touches
<1> QED
  BY <1>0, <1>1, <1>5, <1>6, <1>7, <1>8, <1>9, <1>10, GoesKept DEF ItsOwn, TypeInv

\* ... any other is gone.
LEMMA ReleaseGoneKept ==
  ASSUME OwnInv, NEW i \in Numbers, Release(i), tra[i].kind # "sweep"
  PROVE  OwnInv'
<1>0. TypeInv
  BY DEF OwnInv
<1>1. /\ tra[i] \in Transaction /\ tra[i].pc = "release"
      /\ tra' = [tra EXCEPT ![i] = NoTra] /\ tra' \in [Numbers -> Transaction \union {NoTra}]
      /\ lock' = [lock EXCEPT ![tra[i].number] = 0]
      /\ UNCHANGED <<header, tip, dbb, cache, swept>>
  BY <1>0, ReleaseGone
<1>2. Live(i) /\ tra[i].number \in Numbers /\ tra[i].number # 0 /\ header.nt \in Nat
  BY <1>1, ItsFacts
<1>3. ~Live(i)' /\ \A j \in Numbers \ {i} : tra'[j] = tra[j]
  BY <1>0, <1>1 DEF TypeInv, Live, At, NoTra
<1>4. lock' \in [Numbers -> Nat] /\ \A n \in Numbers : n # tra[i].number => lock'[n] = lock[n]
  BY <1>0, <1>1 DEF TypeInv
<1>5. Touches(i)
  <2>1. \A q \in Procs : Grows(q)
    BY <1>1, GrowsSame
  <2>2. Owns(i, tra[i].number) /\ ~SweepsOn(i)
    BY <1>1, <1>2 DEF Owns, SweepsOn
  <2> QED
    BY <1>1, <1>4, <2>1, <2>2 DEF Touches
<1>6. TypeInv'
  BY <1>0, <1>1, <1>4 DEF TypeInv
<1>7. OldestInv'
  BY <1>1, <1>2, OldestKept
<1>8. CacheInv'
  BY <1>1, CacheKept
<1> QED
  BY <1>2, <1>3, <1>5, <1>6, <1>7, <1>8, StepKept DEF KeepsOwn

\* What the process knows after it started a transaction.
LEMMA RaisedType ==
  ASSUME OwnInv, NEW i \in Numbers, tra[i] \in Transaction, NEW p \in Procs, p = tra[i].proc, ~Empty(p),
         NEW oldest \in Interesting(tra[i])
  PROVE  /\ Raised(dbb[p], tra[i], oldest) \in Limits
         /\ Raised(dbb[p], tra[i], oldest).oit > 0
         /\ \/ Raised(dbb[p], tra[i], oldest).oit = dbb[p].oit
            \/ Raised(dbb[p], tra[i], oldest).oit < i
<1>1. /\ dbb[p] \in Limits /\ dbb[p].oit \in Nat /\ dbb[p].oat \in Nat /\ dbb[p].ost \in Nat
      /\ tra[i].local.oat \in Nat /\ tra[i].oldest_active \in Nat /\ dbb[p].oit > 0
  BY DbbType, TypedTra DEF OwnInv, OldestInv
<1>2. oldest \in Nat /\ oldest <= i /\ i \in Nat
  BY InterestingRange, ItsFacts DEF FitOf
<1>3. PICK oit \in Nat, oat \in Nat, ost \in Nat :
        /\ oit = Most(dbb[p].oit, oldest - 1) /\ oat = Most(dbb[p].oat, tra[i].local.oat)
        /\ ost = Most(dbb[p].ost, tra[i].oldest_active)
  <2>1. Most(dbb[p].oit, oldest - 1) \in Nat
    BY <1>1, <1>2 DEF Most
  <2> QED
    BY <1>1, <2>1, LeastNat
<1>4. oit > 0 /\ (oit = dbb[p].oit \/ oit < i)
  BY <1>1, <1>2, <1>3 DEF Most
<1>5. Raised(dbb[p], tra[i], oldest) = [oit |-> oit, oat |-> oat, ost |-> ost]
  BY <1>3 DEF Raised
<1> QED
  BY <1>4, <1>5 DEF Limits

\* transaction_start ends.
LEMMA PublishKept ==
  ASSUME OwnInv, NEW i \in Numbers, Publish(i)
  PROVE  OwnInv'
<1>0. TypeInv
  BY DEF OwnInv
<1>13. PICK pc \in {"precommit", "running"} : pc = IF tra[i].kind = "sweep" THEN "precommit" ELSE "running"
  OBVIOUS
<1>1. /\ tra[i].pc = "publish" /\ Goes(i, pc)
      /\ tra'[i].number = tra[i].number /\ tra'[i].local.new = 0
      /\ tra'[i].oldest_active = tra[i].oldest_active /\ tra'[i].local.saved = 0
      /\ lock' = [lock EXCEPT ![tra[i].number] = LockData(tra[i])]
      /\ \E oldest \in Interesting(tra[i]) : dbb' = [dbb EXCEPT ![tra[i].proc] = Raised(dbb[tra[i].proc], tra[i], oldest)]
      /\ UNCHANGED <<header, tip, cache, swept>>
  BY <1>0, <1>13, PublishEffect
<1>2. /\ Live(i) /\ FitOf(i) /\ LockOf(i) /\ ActiveOf(i) /\ LoadOf(i)
      /\ tra[i].number \in Numbers /\ tra[i].number <= header.nt /\ tra[i].number # 0 /\ i \in Nat /\ i > 0
      /\ header.nt \in Nat /\ i <= header.nt
      /\ tra[i].local.oat \in Nat /\ tra[i].number \in Nat
  BY <1>1, ItsFacts, TypedTra DEF Goes
<1>3. PICK p \in Procs : p = tra[i].proc /\ p = tra'[i].proc
  BY <1>1, TypedTra DEF Goes
<1>4. ~Empty(p) /\ Reach(p, i) /\ (Empty(p)' <=> Empty(p)) /\ \A b : Reach(p, b)' <=> Reach(p, b)
  BY <1>1, <1>2, <1>3, GrowsSame DEF LoadOf
<1>5. PICK r \in Limits : dbb' = [dbb EXCEPT ![p] = r] /\ r.oit > 0 /\ (r.oit = dbb[p].oit \/ r.oit < i)
  <2>1. PICK oldest \in Interesting(tra[i]) : dbb' = [dbb EXCEPT ![p] = Raised(dbb[p], tra[i], oldest)]
    BY <1>1, <1>3
  <2> QED
    BY <1>1, <1>3, <1>4, <2>1, RaisedType DEF Goes
<1>6. dbb'[p] = r /\ \A q \in Procs : q # p => dbb'[q] = dbb[q]
  BY <1>0, <1>5 DEF TypeInv
<1>7. LockData(tra[i]) \in Nat /\ LockData(tra[i]) # 0
  BY <1>1, <1>2 DEF LockData, FitOf, Starting, Looking
<1>8. lock' \in [Numbers -> Nat] /\ lock'[tra[i].number] # 0 /\ \A n \in Numbers : n # tra[i].number => lock'[n] = lock[n]
  BY <1>0, <1>1, <1>2, <1>7 DEF TypeInv
<1>9. TypeInv'
  BY <1>0, <1>1, <1>5, <1>8 DEF TypeInv, Goes
<1>10. OldestInv'
  <2>1. r.oit \in Nat /\ \A q \in Procs : dbb[q].oit \in Nat
    BY <1>0, DbbType DEF Limits
  <2> QED
    BY <1>1, <1>2, <1>5, <1>6, <2>1 DEF OldestInv, OwnInv
<1>11. CacheInv'
  <2> SUFFICES ASSUME NEW q \in Procs PROVE Empty(q)' \/ Reach(q, dbb[q].oit)'
    BY DEF CacheInv
  <2>1. (Empty(q)' <=> Empty(q)) /\ \A b : Reach(q, b)' <=> Reach(q, b)
    BY <1>1, GrowsSame
  <2>2. PICK b \in Nat : b = dbb[q].oit
    BY <1>0, DbbType
  <2>3. Empty(q) \/ Reach(q, b)
    BY <2>2 DEF OwnInv, CacheInv
  <2>4. CASE dbb'[q].oit = b
    BY <2>1, <2>3, <2>4
  <2>5. CASE q = p /\ r.oit < i
    <3>1. PICK m \in 0..MaxTra : Has(p, m) /\ (Page(m) + 1) * TransPerTip > i
      BY <1>4 DEF Reach
    <3>2. PICK oit \in Nat : oit = r.oit /\ oit = dbb'[p].oit
      BY <1>6 DEF Limits
    <3>3. (Page(m) + 1) * TransPerTip > oit
      BY <1>2, <2>5, <3>1, <3>2, PageEnd
    <3>4. Reach(p, oit)'
      BY <1>4, <3>1, <3>3 DEF Reach
    <3> QED
      BY <2>5, <3>2, <3>4
  <2> QED
    BY <1>5, <1>6, <2>2, <2>4, <2>5
<1>12. Touches(i)
  <2>1. \A q \in Procs : Grows(q)
    BY <1>1, GrowsSame
  <2>2. Owns(i, tra[i].number) /\ ~SweepsOn(i)
    BY <1>1, <1>2 DEF Owns, SweepsOn
  <2> QED
    BY <1>1, <1>4, <1>6, <1>8, <2>1, <2>2 DEF Touches
<1>14. KeepsOwn(i) /\ Live(i)' /\ \A j \in Numbers \ {i} : tra'[j] = tra[j]
  BY <1>1, <1>2, <1>13 DEF KeepsOwn, Goes, Owns, Live, At
<1>15. FitOf(i)'
  BY <1>1, <1>2, <1>13 DEF FitOf, Goes, Starting, Looking
<1>16. LockOf(i)'
  BY <1>1, <1>2, <1>8, <1>13 DEF LockOf, Goes, Owns, At
<1>17. ActiveOf(i)'
  BY <1>1, <1>2, <1>13 DEF ActiveOf, Goes, Unended, SweepsOn
<1>18. LoadOf(i)'
  BY <1>1, <1>3, <1>4, <1>13 DEF LoadOf, Goes
<1>19. tra'[i].number \in Numbers /\ tra'[i].number <= header.nt /\ tra'[i].local.new <= header.nt /\ tra'[i].local.new # tra'[i].number
  BY <1>1, <1>2
<1> QED
  BY <1>2, <1>9, <1>10, <1>11, <1>12, <1>14, <1>15, <1>16, <1>17, <1>18, <1>19, StepKept DEF ItsOwn

\* A transaction that keeps its context goes on with its new number.
LEMMA RetainEndKept ==
  ASSUME OwnInv, NEW i \in Numbers, RetainEnd(i)
  PROVE  OwnInv'
<1>0. TypeInv
  BY DEF OwnInv
<1>1. /\ tra[i].pc = "retained" /\ Goes(i, "running")
      /\ tra'[i].number = tra[i].local.new /\ tra'[i].local.new = 0
      /\ tra'[i].oldest_active = tra[i].oldest_active /\ tra'[i].local.saved = 0
      /\ lock' = [lock EXCEPT ![tra[i].number] = 0]
      /\ UNCHANGED <<header, tip, dbb, cache, swept>>
  BY <1>0, RetainEndEffect
<1>2. /\ Live(i) /\ FitOf(i) /\ LockOf(i) /\ ActiveOf(i) /\ LoadOf(i)
      /\ tra[i].number \in Numbers /\ tra[i].number # 0 /\ i \in Nat /\ i > 0 /\ header.nt \in Nat
      /\ tra[i].local.new \in Nat /\ tra[i].local.new <= header.nt /\ tra[i].local.new # tra[i].number
      /\ (tra[i].local.new # 0 => tra[i].local.new \in Numbers)
  BY <1>1, ItsFacts DEF Goes
<1>20. tra[i].local.new # 0 /\ tra[i].local.new \in Numbers /\ tra[i].kind # "sweep"
  BY <1>1, <1>2 DEF FitOf
<1>3. PICK p \in Procs : p = tra[i].proc /\ p = tra'[i].proc
  BY <1>1, TypedTra DEF Goes
<1>4. ~Empty(p)'
  BY <1>1, <1>2, <1>3, GrowsSame DEF LoadOf
<1>8. lock' \in [Numbers -> Nat] /\ \A n \in Numbers : n # tra[i].number => lock'[n] = lock[n]
  BY <1>0, <1>1, <1>2 DEF TypeInv
<1>9. TypeInv'
  BY <1>0, <1>1, <1>8 DEF TypeInv, Goes
<1>10. OldestInv'
  BY <1>1, <1>2, OldestKept
<1>11. CacheInv'
  BY <1>1, CacheKept
<1>12. Touches(i)
  <2>1. \A q \in Procs : Grows(q)
    BY <1>1, GrowsSame
  <2>2. Owns(i, tra[i].number) /\ ~SweepsOn(i)
    BY <1>1, <1>2 DEF Owns, SweepsOn
  <2> QED
    BY <1>1, <1>8, <2>1, <2>2 DEF Touches
<1>14. KeepsOwn(i) /\ Live(i)' /\ \A j \in Numbers \ {i} : tra'[j] = tra[j]
  BY <1>1, <1>2 DEF KeepsOwn, Goes, Owns, Live, At
<1>15. FitOf(i)'
  BY <1>1, <1>2, <1>20 DEF FitOf, Goes, Starting, Looking
<1>16. LockOf(i)'
  BY <1>1, <1>2, <1>8, <1>20 DEF LockOf, Goes, Owns, At, SweepsOn
<1>17. ActiveOf(i)'
  BY <1>1, <1>2, <1>20 DEF ActiveOf, Goes, Unended, SweepsOn
<1>18. LoadOf(i)'
  BY <1>1, <1>3, <1>4 DEF LoadOf, Goes
<1>19. tra'[i].number \in Numbers /\ tra'[i].number <= header.nt /\ tra'[i].local.new <= header.nt /\ tra'[i].local.new # tra'[i].number
  BY <1>1, <1>2, <1>20
<1> QED
  BY <1>2, <1>9, <1>10, <1>11, <1>12, <1>14, <1>15, <1>16, <1>17, <1>18, <1>19, StepKept DEF ItsOwn

(***************************************************************************)
(* Steps that take a number from the header page                           *)
(***************************************************************************)

\* A transaction i gets the number n, for itself or to go on with.
Gets(i, n) ==
  /\ n = header.nt + 1 /\ n \in Numbers
  /\ \A j \in Numbers \ {i} : tra'[j] = tra[j]
  /\ tip' = tip
  /\ \A m \in Numbers : m # n => lock'[m] = lock[m]
  /\ cache' = cache /\ dbb' = dbb

LEMMA GetsKept ==
  ASSUME OwnInv, NEW i \in Numbers, NEW n \in Numbers, NEW p \in Procs, Gets(i, n), header' = Bumped(p),
         TypeInv', tra'[i] \in Transaction,
         tra'[i].number \in Numbers /\ tra'[i].number <= n /\ tra'[i].local.new <= n /\ tra'[i].local.new # tra'[i].number,
         \A m \in Numbers : Owns(i, m)' => m = n \/ (Live(i) /\ Owns(i, m)),
         ItsOwn(i)
  PROVE  OwnInv'
<1>1. /\ header.nt \in Nat /\ header.oit \in Nat /\ n \in Nat /\ n = header.nt + 1
      /\ header'.nt = n /\ header'.oit = Most(header.oit, dbb[p].oit)
      /\ \A q \in Procs : dbb[q].oit \in Nat
  BY HeaderType, DbbType, BumpedNext DEF OwnInv, Gets, Numbers
<1>2. Only(i) /\ Live(i)'
  BY <1>1, TypedTra DEF Gets, Only, Live, At
<1>3. FitInv'
  BY <1>2, FitKept DEF ItsOwn
<1>4. \A m \in Numbers : m \in Nat
  BY DEF Numbers
<1>5. ASSUME NEW j \in Numbers, Live(j), NEW m \in Numbers, Owns(j, m)
      PROVE  m # n /\ m <= header.nt
  <2>1. tra[j].number <= header.nt /\ tra[j].local.new <= header.nt
    BY <1>5 DEF OwnInv, NumberInv
  <2> QED
    BY <1>1, <1>4, <1>5, <2>1 DEF Owns
<1>6. NumberInv'
  <2>1. \A m \in Numbers : m > header'.nt => tip'[m] = "active" /\ lock'[m] = 0
    BY <1>1, <1>4 DEF OwnInv, NumberInv, Gets
  <2>2. ASSUME NEW j \in Numbers, Live(j)'
        PROVE  /\ tra'[j].number \in Numbers /\ tra'[j].number <= header'.nt
               /\ tra'[j].local.new <= header'.nt /\ tra'[j].local.new # tra'[j].number
               /\ j # i => Live(j) /\ \A m \in Numbers : Owns(j, m)' => Owns(j, m)
    <3>1. CASE j = i
      BY <1>1, <3>1
    <3>2. CASE j # i
      <4>1. tra'[j] = tra[j]
        BY <3>2 DEF Gets
      <4>2. Live(j) /\ \A m \in Numbers : Owns(j, m)' => Owns(j, m)
        BY <2>2, <4>1 DEF Live, At, Owns
      <4>3. tra[j] \in Transaction
        BY <4>2, LiveIs DEF OwnInv, Live, At
      <4>4. /\ tra[j].number \in Numbers /\ tra[j].number <= header.nt
            /\ tra[j].local.new <= header.nt /\ tra[j].local.new # tra[j].number /\ tra[j].local.new \in Nat
        BY <4>2, <4>3, TypedTra DEF OwnInv, NumberInv
      <4>5. tra[j].number <= header'.nt /\ tra[j].local.new <= header'.nt
        <5>1. tra[j].number \in Nat
          BY <1>4, <4>4
        <5> QED
          BY <1>1, <4>4, <5>1
      <4> QED
        BY <4>1, <4>2, <4>4, <4>5
    <3> QED
      BY <3>1, <3>2
  <2>3. ASSUME NEW j \in Numbers, NEW k \in Numbers, NEW m \in Numbers,
               Live(j)', Live(k)', Owns(j, m)', Owns(k, m)', j # k
        PROVE  FALSE
    <3>1. CASE j # i /\ k # i
      BY <2>2, <2>3, <3>1 DEF OwnInv, NumberInv
    <3>2. CASE j = i /\ k # i
      <4>1. Live(k) /\ Owns(k, m)
        BY <2>2, <2>3, <3>2
      <4>2. m # n /\ Live(i) /\ Owns(i, m)
        BY <1>5, <2>3, <3>2, <4>1
      <4> QED
        BY <3>2, <4>1, <4>2 DEF OwnInv, NumberInv
    <3>3. CASE k = i /\ j # i
      <4>1. Live(j) /\ Owns(j, m)
        BY <2>2, <2>3, <3>3
      <4>2. m # n /\ Live(i) /\ Owns(i, m)
        BY <1>5, <2>3, <3>3, <4>1
      <4> QED
        BY <3>3, <4>1, <4>2 DEF OwnInv, NumberInv
    <3> QED
      BY <2>3, <3>1, <3>2, <3>3
  <2> QED
    BY <2>1, <2>2, <2>3 DEF NumberInv
<1>7. LockInv'
  <2>1. ASSUME NEW j \in Numbers \ {i}, Live(j)
        PROVE  /\ ~SweepsOn(j) => \A m \in Numbers : Owns(j, m) => lock'[m] # 0
               /\ At(j, "settle") => lock'[tra[j].local.active] = 0
    <3>1. LockOf(j)
      BY <2>1 DEF OwnInv, LockInv
    <3>2. ~SweepsOn(j) => \A m \in Numbers : Owns(j, m) => lock'[m] # 0
      BY <1>5, <2>1, <3>1 DEF LockOf, Gets
    <3>3. At(j, "settle") => lock'[tra[j].local.active] = 0
      BY <1>1, <1>4, <3>1 DEF LockOf, Gets
    <3> QED
      BY <3>2, <3>3
  <2> QED
    BY <1>2, <2>1, LockKept DEF ItsOwn
<1>8. ActiveInv'
  BY <1>2, ActiveKept DEF ItsOwn, Gets
<1>9. OldestInv'
  BY <1>1 DEF OwnInv, OldestInv, Most, Gets
<1>10. CacheInv'
  BY CacheKept DEF Gets
<1>11. LoadInv'
  <2>1. \A q : Grows(q)
    BY GrowsSame DEF Gets
  <2>2. header'.oit \in Nat /\ header'.oit >= header.oit
    BY <1>1 DEF Most
  <2> QED
    BY <1>2, <2>1, <2>2, LoadKept DEF ItsOwn, Gets
<1> QED
  BY <1>3, <1>6, <1>7, <1>8, <1>9, <1>10, <1>11 DEF OwnInv

\* A transaction starts.
LEMMA StartKept ==
  ASSUME OwnInv, NEW p \in Procs, NEW kind \in Kinds, Start(p, kind)
  PROVE  OwnInv'
<1>0. TypeInv
  BY DEF OwnInv
<1>1. PICK n \in Numbers :
           /\ n = header.nt + 1 /\ header' = Bumped(p)
           /\ lock' = [lock EXCEPT ![n] = IF kind = "snapshot" THEN Most(Bumped(p).oat, Bumped(p).oit) ELSE n]
           /\ tra' \in [Numbers -> Transaction \union {NoTra}] /\ tra'[n] \in Transaction
           /\ \A j \in Numbers \ {n} : tra'[j] = tra[j]
           /\ tra'[n].pc = IF kind = "snapshot" THEN "inventory" ELSE "extend"
           /\ tra'[n].proc = p /\ tra'[n].kind = kind /\ tra'[n].number = n /\ tra'[n].top = n
           /\ tra'[n].oldest = Bumped(p).oit /\ tra'[n].oldest_active = n
           /\ tra'[n].local.next = Page(Bumped(p).oit) /\ tra'[n].local.last = Page(n)
           /\ tra'[n].local.active = Most(Bumped(p).oat, Bumped(p).oit) /\ tra'[n].local.oat = n
           /\ tra'[n].local.new = 0 /\ ~Live(n)
           /\ UNCHANGED <<tip, dbb, cache, swept>>
  BY StartEffect
<1>2. PICK h \in [nt : Nat, oit : Nat, oat : Nat, ost : Nat] : h = Bumped(p) /\ h = header'
  BY <1>0, <1>1, BumpedNext
<1>3. /\ header.nt \in Nat /\ header.oit \in Nat /\ dbb[p].oit \in Nat /\ n \in Nat /\ n > 0
      /\ h.nt = n /\ h.oit = Most(header.oit, dbb[p].oit) /\ h.oit \in Nat /\ h.oat \in Nat
      /\ MaxTra \in Nat /\ n <= MaxTra
  BY <1>0, <1>1, <1>2, HeaderType, DbbType, BumpedNext DEF Numbers
<1>4. h.oit > 0 /\ h.oit <= n /\ header.oit <= h.oit /\ dbb[p].oit <= h.oit
  BY <1>1, <1>3 DEF OwnInv, OldestInv, Most
<1>5. PICK active \in Nat : active = Most(h.oat, h.oit) /\ active > 0
  BY <1>3, <1>4 DEF Most
<1>6. lock' \in [Numbers -> Nat] /\ lock'[n] # 0 /\ \A m \in Numbers : m # n => lock'[m] = lock[m]
  BY <1>0, <1>1, <1>2, <1>3, <1>5 DEF TypeInv
<1>7. TypeInv'
  BY <1>0, <1>1, <1>2, <1>3, <1>6 DEF TypeInv
<1>8. Gets(n, n)
  BY <1>1, <1>6 DEF Gets
<1>9. FitOf(n)'
  BY <1>1, <1>2, <1>3, <1>5 DEF FitOf, Starting, Looking
<1>10. LockOf(n)'
  BY <1>1, <1>6 DEF LockOf, Owns, At
<1>11. ActiveOf(n)'
  BY <1>1, <1>3 DEF ActiveOf, OwnInv, NumberInv
<1>12. LoadOf(n)'
  <2>1. PICK next \in Nat, last \in Nat : next = Page(h.oit) /\ last = Page(n)
    BY <1>3, PageIs
  <2>2. next <= last
    BY <1>3, <1>4, <2>1, PageOrder
  <2>3. h.oit < (next + 1) * TransPerTip /\ (next + 1) * TransPerTip \in Nat
    <3>1. h.oit \in 0..MaxTra
      BY <1>3, <1>4
    <3> QED
      BY <2>1, <3>1, PageEnd
  <2>4. dbb'[p].oit < (next + 1) * TransPerTip /\ dbb'[p].oit <= header'.oit
    BY <1>1, <1>2, <1>3, <1>4, <2>3
  <2>5. tra'[n].local.next = next /\ tra'[n].local.last = last /\ header'.nt = n /\ tra'[n].proc = p
        /\ tra'[n].pc \in {"inventory", "extend"}
    BY <1>1, <1>2, <1>3, <2>1
  <2> QED
    BY <2>1, <2>2, <2>4, <2>5 DEF LoadOf, Page
<1>13. \A m \in Numbers : Owns(n, m)' => m = n
  BY <1>1 DEF Owns
<1>14. tra'[n].number \in Numbers /\ tra'[n].number <= n /\ tra'[n].local.new <= n /\ tra'[n].local.new # tra'[n].number
  BY <1>1, <1>3
<1> QED
  BY <1>1, <1>7, <1>8, <1>9, <1>10, <1>11, <1>12, <1>13, <1>14, GetsKept DEF ItsOwn

\* A transaction takes the number it will keep its context with.
LEMMA RetainKept ==
  ASSUME OwnInv, NEW i \in Numbers, NEW state \in Ends, Retain(i, state)
  PROVE  OwnInv'
<1>0. TypeInv
  BY DEF OwnInv
<1>1. /\ tra[i].pc = "running" /\ tra[i].kind # "sweep" /\ Goes(i, "retain")
      /\ KeepsLimits(i) /\ KeepsSweep(i)
      /\ tra'[i].number = tra[i].number /\ tra'[i].local.new = header.nt + 1
      /\ header.nt + 1 <= MaxTra /\ header' = Bumped(tra[i].proc)
      /\ lock' = [lock EXCEPT ![header.nt + 1] = lock[tra[i].number]]
      /\ UNCHANGED <<tip, dbb, cache, swept>>
  BY <1>0, RetainEffect
<1>2. /\ Live(i) /\ FitOf(i) /\ LockOf(i) /\ ActiveOf(i) /\ LoadOf(i)
      /\ tra[i].number \in Numbers /\ tra[i].number # 0 /\ tra[i].number <= header.nt /\ i \in Nat /\ i > 0 /\ header.nt \in Nat
      /\ i <= header.nt /\ tra[i].number \in Nat
  BY <1>1, ItsFacts, TypedTra DEF Goes
<1>3. PICK p \in Procs : p = tra[i].proc /\ p = tra'[i].proc
  BY <1>1, TypedTra DEF Goes
<1>4. ~Empty(p)'
  BY <1>1, <1>2, <1>3, GrowsSame DEF LoadOf
<1>5. PICK n \in Numbers : n = header.nt + 1
  BY <1>1, <1>2 DEF Numbers
<1>6. /\ Bumped(p) \in [nt : Nat, oit : Nat, oat : Nat, ost : Nat]
      /\ header'.nt = n /\ n \in Nat /\ n <= MaxTra
  BY <1>0, <1>1, <1>2, <1>3, <1>5, BumpedNext
<1>7. lock' \in [Numbers -> Nat] /\ lock'[n] # 0 /\ \A m \in Numbers : m # n => lock'[m] = lock[m]
  <2>1. lock[tra[i].number] \in Nat /\ lock[tra[i].number] # 0
    BY <1>0, <1>1, <1>2, LockNat DEF LockOf, Owns, SweepsOn
  <2> QED
    BY <1>0, <1>1, <1>5, <2>1 DEF TypeInv
<1>8. TypeInv'
  BY <1>0, <1>1, <1>3, <1>6, <1>7 DEF TypeInv, Goes
<1>9. Gets(i, n)
  BY <1>1, <1>5, <1>7 DEF Gets, Goes
<1>10. FitOf(i)'
  BY <1>1, <1>2, <1>5, <1>6 DEF FitOf, Goes, KeepsLimits, KeepsSweep, Starting, Looking
<1>11. tra[i].number < n /\ tra'[i].local.new = n
  BY <1>1, <1>2, <1>5
<1>12. LockOf(i)'
  <2>1. lock'[tra[i].number] # 0
    BY <1>1, <1>2, <1>6, <1>7, <1>11 DEF LockOf, Owns, SweepsOn
  <2> QED
    BY <1>1, <1>7, <1>11, <2>1 DEF LockOf, Goes, Owns, At
<1>13. ActiveOf(i)'
  <2>1. tip[n] = "active"
    BY <1>2, <1>5, <1>6 DEF OwnInv, NumberInv
  <2> QED
    BY <1>1, <1>2, <1>11, <2>1 DEF ActiveOf, Goes, Unended, SweepsOn
<1>14. LoadOf(i)'
  BY <1>1, <1>3, <1>4 DEF LoadOf, Goes
<1>15. \A m \in Numbers : Owns(i, m)' => m = n \/ (Live(i) /\ Owns(i, m))
  BY <1>1, <1>2, <1>11 DEF Owns
<1>16. tra'[i].number \in Numbers /\ tra'[i].number <= n /\ tra'[i].local.new <= n /\ tra'[i].local.new # tra'[i].number
  BY <1>1, <1>2, <1>6, <1>11
<1> QED
  BY <1>1, <1>3, <1>8, <1>9, <1>10, <1>12, <1>13, <1>14, <1>15, <1>16, GetsKept DEF ItsOwn, Goes

(***************************************************************************)
(* The end of a sweep, the death of a process, the first attachment        *)
(***************************************************************************)

\* A sweep raises the oldest transaction of the header page.
LEMMA AdvanceKept ==
  ASSUME OwnInv, NEW i \in Numbers, Advance(i)
  PROVE  OwnInv'
<1>0. TypeInv
  BY DEF OwnInv
<1>1. /\ tra[i] \in Transaction /\ tra[i].pc = "advance"
      /\ tra' = [tra EXCEPT ![i] = NoTra] /\ tra' \in [Numbers -> Transaction \union {NoTra}]
      /\ header' = IF header.oit < tra[i].local.saved - 1
                   THEN [header EXCEPT !.oit = Least(tra[i].top, tra[i].local.saved - 1)] ELSE header
      /\ header' \in [nt : Nat, oit : Nat, oat : Nat, ost : Nat]
      /\ UNCHANGED <<tip, lock, dbb, cache, swept>>
  BY <1>0, AdvanceEffect
<1>2. /\ Live(i) /\ FitOf(i) /\ i \in Nat /\ i > 0 /\ header.nt \in Nat /\ header.oit \in Nat /\ i <= header.nt
      /\ header.nt <= MaxTra
  BY <1>0, <1>1, ItsFacts, HeaderType
<1>3. header'.nt = header.nt /\ header'.oit >= header.oit /\ header'.oit \in Nat /\ header'.oit <= header.nt
  <2>1. tra[i].top = i /\ tra[i].local.saved <= i /\ tra[i].local.saved \in Nat
    BY <1>1, <1>2, TypedTra DEF FitOf
  <2>2. header.oit <= header.nt
    BY <1>1, ItsFacts
  <2>3. CASE header.oit < tra[i].local.saved - 1
    <3>1. Least(tra[i].top, tra[i].local.saved - 1) = tra[i].local.saved - 1
      BY <1>2, <2>1 DEF Least
    <3>2. header'.oit = tra[i].local.saved - 1 /\ header'.nt = header.nt
      BY <1>0, <1>1, <2>3, <3>1 DEF TypeInv
    <3> QED
      BY <1>2, <2>1, <2>3, <3>2
  <2>4. CASE ~(header.oit < tra[i].local.saved - 1)
    BY <1>1, <1>2, <2>2, <2>4
  <2> QED
    BY <2>3, <2>4
<1>4. ~Live(i)' /\ (\A j \in Numbers \ {i} : tra'[j] = tra[j]) /\ Only(i)
  BY <1>0, <1>1, <1>2, <1>3 DEF TypeInv, Live, At, NoTra, Only
<1>5. TypeInv'
  BY <1>0, <1>1, <1>2, <1>3 DEF TypeInv
<1>6. FitInv'
  BY <1>4, FitKept
<1>7. NumberInv'
  BY <1>1, <1>3, <1>4, NumberKept DEF KeepsOwn
<1>8. LockInv'
  BY <1>1, <1>4, LockKept DEF OwnInv, LockInv, LockOf
<1>9. OldestInv'
  BY <1>1, <1>2, <1>3 DEF OwnInv, OldestInv
<1>10. ActiveInv'
  BY <1>1, <1>4, ActiveKept
<1>11. CacheInv'
  BY <1>1, CacheKept
<1>12. LoadInv'
  <2>1. \A q : Grows(q)
    BY <1>1, GrowsSame
  <2> QED
    BY <1>1, <1>3, <1>4, <2>1, LoadKept
<1> QED
  BY <1>5, <1>6, <1>7, <1>8, <1>9, <1>10, <1>11, <1>12 DEF OwnInv

\* A process dies.
LEMMA CrashKept ==
  ASSUME OwnInv, NEW p \in Procs, Crash(p)
  PROVE  OwnInv'
<1>0. TypeInv
  BY DEF OwnInv
<1> DEFINE gone == {i \in Numbers : Live(i) /\ tra[i].proc = p}
<1>1. /\ lock' = [n \in Numbers |-> IF \E i \in gone : n \in {tra[i].number, tra[i].local.new} THEN 0 ELSE lock[n]]
      /\ tra' = [i \in Numbers |-> IF i \in gone THEN NoTra ELSE tra[i]]
      /\ dbb' = [dbb EXCEPT ![p] = OfHeader]
      /\ cache' = [cache EXCEPT ![p] = [n \in 0..MaxTra |-> "none"]]
      /\ UNCHANGED <<header, tip, swept>>
  BY DEF Crash, pages
<1>2. TypeInv'
  <2>1. tra' \in [Numbers -> Transaction \union {NoTra}] /\ lock' \in [Numbers -> Nat]
    BY <1>0, <1>1 DEF TypeInv
  <2>2. dbb' \in [Procs -> Limits]
    BY <1>0, <1>1 DEF TypeInv, Limits, OfHeader
  <2>3. cache' \in [Procs -> [0..MaxTra -> Stored]]
    BY <1>0, <1>1 DEF TypeInv, Stored
  <2> QED
    BY <1>0, <1>1, <2>1, <2>2, <2>3 DEF TypeInv
<1>3. ASSUME NEW j \in Numbers, Live(j)'
      PROVE  tra'[j] = tra[j] /\ Live(j) /\ tra[j].proc # p /\ tra[j] \in Transaction
  <2>1. j \notin gone
    BY <1>1, <1>3 DEF Live, At, NoTra
  <2>2. tra'[j] = tra[j] /\ Live(j)
    BY <1>1, <1>3, <2>1 DEF Live, At
  <2> QED
    BY <1>0, <2>1, <2>2, LiveIs DEF Live, At
<1>4. /\ \A n \in Numbers : lock'[n] \in {0, lock[n]}
      /\ \A j, n \in Numbers : Live(j)' /\ Owns(j, n) => lock'[n] = lock[n]
  <2>1. \A n \in Numbers : lock'[n] \in {0, lock[n]}
    BY <1>1
  <2>2. ASSUME NEW j \in Numbers, NEW n \in Numbers, Live(j)', Owns(j, n), lock'[n] # lock[n]
        PROVE  FALSE
    <3>1. PICK i \in gone : n \in {tra[i].number, tra[i].local.new}
      BY <1>1, <2>2
    <3>2. Live(i) /\ Owns(i, n) /\ i # j /\ Live(j)
      BY <1>3, <2>2, <3>1 DEF Owns
    <3> QED
      BY <2>2, <3>2 DEF OwnInv, NumberInv
  <2> QED
    BY <2>1, <2>2
<1> HIDE DEF gone
<1>5. FitInv'
  <2> SUFFICES ASSUME NEW j \in Numbers, Live(j)' PROVE FitOf(j)'
    BY DEF FitInv
  <2> QED
    BY <1>1, <1>3 DEF OwnInv, FitInv, FitOf
<1>6. NumberInv'
  <2>1. \A n \in Numbers : n > header'.nt => tip'[n] = "active" /\ lock'[n] = 0
    BY <1>1, <1>4 DEF OwnInv, NumberInv
  <2>2. \A j, n \in Numbers : Live(j)' /\ Owns(j, n)' => Live(j) /\ Owns(j, n)
    BY <1>3 DEF Owns
  <2>3. \A j \in Numbers : Live(j)' =>
       /\ tra'[j].number \in Numbers /\ tra'[j].number <= header'.nt
       /\ tra'[j].local.new <= header'.nt /\ tra'[j].local.new # tra'[j].number
    BY <1>1, <1>3 DEF OwnInv, NumberInv
  <2> QED
    BY <2>1, <2>2, <2>3 DEF OwnInv, NumberInv
<1>7. LockInv'
  <2> SUFFICES ASSUME NEW j \in Numbers, Live(j)' PROVE LockOf(j)'
    BY DEF LockInv
  <2>1. LockOf(j) /\ tra'[j] = tra[j]
    BY <1>3 DEF OwnInv, LockInv
  <2> QED
    BY <1>1, <1>4, <2>1 DEF LockOf, SweepsOn, Owns, At
<1>8. OldestInv'
  <2>1. dbb'[p].oit = header.oit /\ \A q \in Procs : q # p => dbb'[q] = dbb[q]
    BY <1>0, <1>1 DEF TypeInv, OfHeader
  <2> QED
    BY <1>1, <2>1 DEF OwnInv, OldestInv
<1>9. ActiveInv'
  <2> SUFFICES ASSUME NEW j \in Numbers, Live(j)' PROVE ActiveOf(j)'
    BY DEF ActiveInv
  <2>1. ActiveOf(j) /\ tra'[j] = tra[j]
    BY <1>3 DEF OwnInv, ActiveInv
  <2> QED
    BY <1>1, <2>1 DEF ActiveOf, Unended, SweepsOn
<1>10. /\ \A q \in Procs : q # p => dbb'[q] = dbb[q] /\ cache'[q] = cache[q]
       /\ Empty(p)'
  BY <1>0, <1>1 DEF TypeInv, Empty, Has
<1>11. CacheInv'
  <2> SUFFICES ASSUME NEW q \in Procs PROVE Empty(q)' \/ Reach(q, dbb[q].oit)'
    BY DEF CacheInv
  <2>1. CASE q = p
    BY <1>10, <2>1
  <2>2. CASE q # p
    <3>1. PICK b : b = dbb[q].oit /\ b = dbb'[q].oit
      BY <1>10, <2>2
    <3>2. (Empty(q)' <=> Empty(q)) /\ (Reach(q, b)' <=> Reach(q, b))
      BY <1>10, <2>2, GrowsSame
    <3> QED
      BY <3>1, <3>2 DEF OwnInv, CacheInv
  <2> QED
    BY <2>1, <2>2
<1>12. LoadInv'
  <2> SUFFICES ASSUME NEW j \in Numbers, Live(j)' PROVE LoadOf(j)'
    BY DEF LoadInv
  <2>1. LoadOf(j) /\ tra'[j] = tra[j] /\ tra[j].proc # p /\ tra[j] \in Transaction
    BY <1>3 DEF OwnInv, LoadInv
  <2>2. PICK q \in Procs : q = tra[j].proc /\ q # p
    BY <2>1, TypedTra
  <2>3. PICK l \in Local : l = tra[j].local
    <3>1. tra[j].local \in Local
      BY <2>1, TypedTra
    <3> QED
      BY <3>1
  <2>4. (Empty(q)' <=> Empty(q)) /\ (\A b : Reach(q, b)' <=> Reach(q, b)) /\ dbb'[q] = dbb[q]
    BY <1>10, <2>2, GrowsSame
  <2>5. tra'[j].proc = q /\ tra'[j].local = l /\ tra'[j].pc = tra[j].pc /\ header' = header
    BY <1>1, <2>1, <2>2, <2>3
  <2>6. PICK top \in {Page(header.nt)} : top = Page(header'.nt)
    BY <2>5
  <2> QED
    BY <2>1, <2>2, <2>3, <2>4, <2>5, <2>6 DEF LoadOf, Page
<1> QED
  BY <1>2, <1>5, <1>6, <1>7, <1>8, <1>9, <1>11, <1>12 DEF OwnInv

\* Nobody runs a transaction when the database is opened.
LEMMA OpenKept ==
  ASSUME OwnInv, Open
  PROVE  OwnInv'
<1>0. TypeInv
  BY DEF OwnInv
<1>1. /\ \A i \in Numbers : ~Live(i)
      /\ tip' = [n \in 0..MaxTra |-> IF n \in header.oat..header.nt /\ tip[n] = "active" THEN "dead" ELSE tip[n]]
      /\ dbb' = [q \in Procs |-> OfHeader]
      /\ cache' = [q \in Procs |-> [n \in 0..MaxTra |-> "none"]]
      /\ UNCHANGED <<header, lock, tra, swept>>
  BY DEF Open
<1>2. TypeInv'
  <2>1. tip' \in Inventory
    BY <1>0, <1>1 DEF TypeInv, Inventory, States
  <2>2. dbb' \in [Procs -> Limits]
    BY <1>0, <1>1 DEF TypeInv, Limits, OfHeader
  <2>3. cache' \in [Procs -> [0..MaxTra -> Stored]]
    BY <1>1 DEF Stored
  <2> QED
    BY <1>0, <1>1, <2>1, <2>2, <2>3 DEF TypeInv
<1>3. \A i \in Numbers : ~Live(i)'
  BY <1>1 DEF Live, At
<1>4. \A n \in Numbers : n > header'.nt => tip'[n] = "active" /\ lock'[n] = 0
  <2> TAKE n \in Numbers
  <2> HAVE n > header'.nt
  <2>1. n \in 0..MaxTra /\ n \in Nat /\ header.nt \in Nat /\ n > header.nt
    BY <1>0, <1>1, HeaderType DEF Numbers
  <2>2. tip[n] = "active" /\ lock[n] = 0
    BY <2>1 DEF OwnInv, NumberInv
  <2>3. n \notin header.oat..header.nt
    BY <2>1
  <2> QED
    BY <1>1, <2>1, <2>2, <2>3
<1>5. OldestInv'
  BY <1>1 DEF OwnInv, OldestInv, OfHeader
<1>6. CacheInv'
  BY <1>1 DEF CacheInv, Empty, Has
<1> QED
  BY <1>2, <1>3, <1>4, <1>5, <1>6 DEF OwnInv, FitInv, NumberInv, LockInv, ActiveInv, LoadInv

(***************************************************************************)
(* The invariant                                                           *)
(***************************************************************************)

LEMMA InitOwn ==
  ASSUME Init
  PROVE  OwnInv
<1>1. TypeInv
  BY TransactionsAssumption DEF Init, TypeInv, Inventory, States, Limits, Stored
<1>2. \A i \in Numbers : ~Live(i)
  BY DEF Init, Live, At, NoTra
<1>3. \A n \in Numbers : tip[n] = "active" /\ lock[n] = 0
  BY DEF Init, Numbers
<1>4. OldestInv
  BY DEF Init, OldestInv
<1>5. CacheInv
  BY DEF Init, CacheInv, Empty, Has
<1> QED
  BY <1>1, <1>2, <1>3, <1>4, <1>5 DEF OwnInv, FitInv, NumberInv, LockInv, ActiveInv, LoadInv

LEMMA ExtendKept ==
  ASSUME OwnInv, NEW i \in Numbers, Extend(i)
  PROVE  OwnInv'
BY ExtendSkipsKept, ExtendReadsKept

LEMMA ScanKept ==
  ASSUME OwnInv, NEW i \in Numbers, Scan(i)
  PROVE  OwnInv'
<1>1. PICK n \in NextActive(tra[i]) : ScanTo(i, n)
  BY ScanIs
<1>2. tra[i] \in Transaction /\ tra[i].pc = "scan"
  BY <1>1, LiveIs DEF OwnInv, ScanTo, At
<1>3. /\ tra[i].top = i /\ tra[i].local.active > 0 /\ ~Empty(tra[i].proc) /\ i \in Nat /\ i <= header.nt
      /\ header.nt \in Nat /\ header.nt <= MaxTra /\ MaxTra \in Nat /\ tra[i].local.active \in Nat
  BY <1>2, ItsFacts, TypedTra, HeaderType DEF OwnInv, FitOf, LoadOf, Starting, Looking
<1>4. n \in Nat /\ (n = i \/ (tra[i].local.active <= n /\ n < i))
  BY <1>2, <1>3, NextActiveRange
<1>5. CASE n = i
  BY <1>1, <1>3, <1>5, ScanPublishKept
<1>6. CASE n # i
  <2>1. n \in Numbers /\ tra[i].local.active <= n /\ n < i
    BY <1>3, <1>4, <1>6 DEF Numbers
  <2> QED
    BY <1>1, <1>3, <1>6, <2>1, ScanSettleKept, ScanQueryKept
<1> QED
  BY <1>5, <1>6

LEMMA ReleaseKept ==
  ASSUME OwnInv, NEW i \in Numbers, Release(i)
  PROVE  OwnInv'
BY ReleaseSweepKept, ReleaseGoneKept

LEMMA StepKeepsOwn ==
  ASSUME OwnInv, NEW i \in Numbers, Step(i)
  PROVE  OwnInv'
<1>1. CASE Copy(i) \/ Extend(i) \/ Fill(i) \/ Trim(i)
  BY <1>1, CopyKept, ExtendKept, FillKept, TrimKept
<1>2. CASE Scan(i) \/ Clean(i) \/ Query(i) \/ Publish(i)
  BY <1>2, ScanKept, CleanKept, QueryKept, PublishKept
<1>3. CASE \E state \in Ends : End(i, state) \/ Retain(i, state)
  BY <1>3, EndKept, RetainKept
<1>4. CASE Release(i) \/ RetainState(i) \/ RetainEnd(i)
  BY <1>4, ReleaseKept, RetainStateKept, RetainEndKept
<1>5. CASE \E n \in Numbers : Wait(i, n)
  BY <1>5, WaitKept
<1>6. CASE Sweep(i) \/ Swept(i) \/ Advance(i)
  BY <1>6, SweepKept, SweptKept, AdvanceKept
<1> QED
  BY <1>1, <1>2, <1>3, <1>4, <1>5, <1>6 DEF Step

LEMMA NextOwn ==
  ASSUME OwnInv, [Next]_vars
  PROVE  OwnInv'
<1>1. CASE \E p \in Procs : \E kind \in Kinds : Start(p, kind)
  BY <1>1, StartKept
<1>2. CASE \E p \in Procs : Crash(p)
  BY <1>2, CrashKept
<1>3. CASE \E i \in Numbers : Step(i)
  BY <1>3, StepKeepsOwn
<1>4. CASE Open
  BY <1>4, OpenKept
<1>5. CASE UNCHANGED vars
  <2>1. UNCHANGED <<header, tip, lock, dbb, cache, tra, swept>>
    BY <1>5 DEF vars, pages
  <2> QED
    BY <2>1 DEF OwnInv, TypeInv, FitInv, NumberInv, LockInv, OldestInv, ActiveInv, CacheInv, LoadInv,
         FitOf, LockOf, ActiveOf, LoadOf, Live, At, Owns, SweepsOn, Unended, Empty, Reach, Has, Page
<1> QED
  BY <1>1, <1>2, <1>3, <1>4, <1>5 DEF Next

\* In every reachable state the numbers, locks, states and caches of the
\* transactions fit together.
THEOREM OwnInvariant == Spec => []OwnInv
<1>1. Init => OwnInv
  BY InitOwn
<1>2. OwnInv /\ [Next]_vars => OwnInv'
  BY NextOwn
<1> QED
  BY <1>1, <1>2, PTL DEF Spec

\* Nobody takes a transaction for dead, sets its state or uses its number before
\* it ends itself, whatever processes die and wait (TRA_set_state, TRA_wait,
\* TRA_cleanup).
THEOREM ActiveStays == Spec => []OnlyTheDeadAreDead
<1>1. OwnInv => OnlyTheDeadAreDead
  <2> SUFFICES ASSUME OwnInv, NEW i \in Numbers, Live(i), tra[i].pc \notin {"release", "retained"}, tra[i].kind # "sweep"
      PROVE tip[tra[i].number] = "active" /\ (At(i, "retain") => tip[tra[i].local.new] = "active")
    BY DEF OnlyTheDeadAreDead
  <2>1. ActiveOf(i) /\ FitOf(i)
    BY DEF OwnInv, ActiveInv, FitInv
  <2> QED
    BY <2>1 DEF ActiveOf, FitOf, Unended, SweepsOn, At
<1> QED
  BY <1>1, OwnInvariant, PTL

(***************************************************************************)
(* The inductive invariant of the inventory: what the caches, the oldest   *)
(* transactions and the views of snapshots say of it is true, as long as   *)
(* no cache misses a page between two it has                               *)
(***************************************************************************)

\* No cache misses a page between two it has: Gap is empty.
NoGap ==
  \A p \in Procs, a, n, b \in 0..MaxTra :
    Has(p, a) /\ Has(p, b) /\ Page(a) < Page(n) /\ Page(n) < Page(b) => Has(p, n)

\* A number whose transaction has ended, ...
Final(n) == tip[n] # "active"

\* ... and one of which nobody needs to know more than that it is not active.
Done(n) == tip[n] = "committed" \/ n \in swept

\* What a sweep has removed was dead.
SweptInv ==
  /\ tip[0] = "committed"
  /\ \A n \in swept : tip[n] = "dead"

\* A page is cached as a whole, with states that were true; what is below the
\* first page of a cache needs no page.
Whole(p) == \A n, m \in 0..MaxTra : Page(n) = Page(m) /\ Has(p, n) => Has(p, m)
Sound(p) == \A n \in 0..MaxTra : cache[p][n] \in {"committed", "dead"} => tip[n] = cache[p][n]
Below(p, n) == \A m \in 0..MaxTra : Has(p, m) => Page(n) < Page(m)
FrontDone(p) == ~Empty(p) => \A n \in Numbers : Below(p, n) => Done(n)

PagesOf(p) == Whole(p) /\ Sound(p) /\ FrontDone(p)
PagesInv == \A p \in Procs : PagesOf(p)

\* The oldest transactions and the oldest active ones.
AllDone(b) == \A n \in Numbers : n < b => Done(n)
AllFinal(b) == \A n \in Numbers : n < b => Final(n)

BoundsInv ==
  /\ AllDone(header.oit) /\ AllFinal(header.oat)
  /\ \A p \in Procs : AllDone(dbb[p].oit) /\ AllFinal(dbb[p].oat)
  /\ \A n \in Numbers : lock[n] <= n

\* What a transaction knows of the others.
KnowsOf(i) ==
  LET t == tra[i] IN
  /\ AllDone(t.oldest) /\ t.oldest <= i
  /\ \A n \in Numbers : t.transactions[n] = "committed" => Done(n)
  /\ \A n \in Numbers : t.transactions[n] # "active" => Final(n)
  /\ t.pc \in Looking => t.local.oat = i /\ t.oldest_active = i /\ AllFinal(t.local.active)
  /\ t.pc \in {"query", "publish"} => t.local.oat <= i /\ AllFinal(t.local.oat)
  /\ t.pc \notin Looking \union {"advance"} => AllFinal(t.oldest_active)

\* What it has read and what it sweeps.
ReadsOf(i) ==
  LET t == tra[i] IN
  /\ t.pc \in {"inventory", "copy", "fill", "cache"} =>
       \A n \in Numbers : Page(n) < t.local.next => Done(n) \/ Has(t.proc, n)
  /\ t.pc \in {"fill", "cache", "trim"} => t.local.trim <= header.oit
  /\ \A n \in t.local.marked : tip[n] = "dead"
  /\ t.pc = "sweeping" => \A n \in Numbers : n < t.local.saved => tip[n] = "committed" \/ n \in t.local.marked
  /\ t.pc = "advance" => AllDone(t.local.saved)

KnowsInv == \A i \in Numbers : Live(i) => KnowsOf(i) /\ ReadsOf(i)

TrueInv == SweptInv /\ PagesInv /\ BoundsInv /\ KnowsInv

\* The invariant and its two hypotheses.
Holds == OwnInv /\ TrueInv /\ NoGap

(***************************************************************************)
(* States are set once                                                     *)
(***************************************************************************)

\* No state that is final changes, no number is taken from swept.
Settles == (\A n \in 0..MaxTra : Final(n) => tip'[n] = tip[n]) /\ swept \subseteq swept'

LEMMA NumberIn ==
  ASSUME NEW n \in Numbers
  PROVE  n \in 0..MaxTra /\ n \in Nat /\ n > 0 /\ MaxTra \in Nat
BY TransactionsAssumption DEF Numbers

LEMMA DoneStays ==
  ASSUME Settles
  PROVE  /\ \A n \in Numbers : Final(n) => Final(n)'
         /\ \A n \in Numbers : Done(n) => Done(n)'
BY NumberIn DEF Settles, Final, Done

LEMMA BoundsStay ==
  ASSUME Settles
  PROVE  \A b : (AllDone(b) => AllDone(b)') /\ (AllFinal(b) => AllFinal(b)')
<1> TAKE b
<1>1. \A n \in Numbers : (Final(n) => Final(n)') /\ (Done(n) => Done(n)')
  BY DoneStays
<1>2. b' = b
  OBVIOUS
<1> QED
  BY <1>1, <1>2 DEF AllDone, AllFinal

\* What is done is final, and no number taken later is.
LEMMA DoneFinal ==
  ASSUME TrueInv
  PROVE  (\A n \in Numbers : Done(n) => Final(n)) /\ \A b : AllDone(b) => AllFinal(b)
BY DEF TrueInv, SweptInv, Done, Final, AllDone, AllFinal

LEMMA FinalGiven ==
  ASSUME OwnInv, NEW b \in Nat, AllFinal(b)
  PROVE  b <= header.nt + 1 \/ header.nt + 1 > MaxTra
<1>1. header.nt \in Nat /\ MaxTra \in Nat
  BY HeaderType DEF OwnInv
<1> SUFFICES ASSUME header.nt + 1 <= MaxTra, header.nt + 1 < b PROVE FALSE
  BY <1>1
<1>2. header.nt + 1 \in Numbers /\ header.nt + 1 > header.nt
  BY <1>1 DEF Numbers
<1>3. tip[header.nt + 1] = "active"
  BY <1>2 DEF OwnInv, NumberInv
<1> QED
  BY <1>2, <1>3 DEF AllFinal, Final

\* The page decides which number is the smaller one.
LEMMA PageLess ==
  ASSUME NEW n \in Nat, NEW m \in Nat, Page(n) < Page(m)
  PROVE  n < m
<1> SUFFICES ASSUME m <= n PROVE FALSE
  OBVIOUS
<1>1. Page(m) <= Page(n) /\ Page(m) \in Nat /\ Page(n) \in Nat
  BY PageOrder, PageIs
<1> QED
  BY <1>1

(***************************************************************************)
(* The cache of a process                                                  *)
(***************************************************************************)

\* Between the first and the last page a cache has every number.
LEMMA Between ==
  ASSUME Holds, NEW p \in Procs, NEW n \in 0..MaxTra, NEW a \in 0..MaxTra, NEW b \in 0..MaxTra,
         Has(p, a), Has(p, b), Page(a) <= Page(n), Page(n) <= Page(b)
  PROVE  Has(p, n)
<1>1. Page(a) \in Nat /\ Page(n) \in Nat /\ Page(b) \in Nat
  BY PageEnd
<1>2. Whole(p)
  BY DEF Holds, TrueInv, PagesInv, PagesOf
<1>3. CASE Page(a) = Page(n) \/ Page(n) = Page(b)
  BY <1>2, <1>3 DEF Whole
<1>4. CASE Page(a) < Page(n) /\ Page(n) < Page(b)
  BY <1>4 DEF Holds, NoGap
<1> QED
  BY <1>1, <1>3, <1>4

\* A number below a page of the cache is in the cache or done.
LEMMA InOrDone ==
  ASSUME Holds, NEW p \in Procs, NEW n \in Numbers, NEW b \in 0..MaxTra, Has(p, b), Page(n) <= Page(b)
  PROVE  Has(p, n) \/ Done(n)
<1>1. n \in 0..MaxTra /\ Page(n) \in Nat
  BY NumberIn, PageEnd
<1>2. ~Empty(p)
  BY DEF Empty
<1>3. CASE Below(p, n)
  BY <1>2, <1>3 DEF Holds, TrueInv, PagesInv, PagesOf, FrontDone
<1>4. CASE ~Below(p, n)
  <2>1. PICK a \in 0..MaxTra : Has(p, a) /\ ~(Page(n) < Page(a))
    BY <1>4 DEF Below
  <2>2. Page(a) <= Page(n)
    BY <1>1, <2>1, PageEnd
  <2> QED
    BY <1>1, <2>1, <2>2, Between
<1> QED
  BY <1>3, <1>4

\* A number that is not in the cache although the cache reaches it is done.
LEMMA ReachedIn ==
  ASSUME Holds, NEW p \in Procs, NEW n \in Numbers, Reach(p, n)
  PROVE  Has(p, n) \/ Done(n)
<1>1. PICK m \in 0..MaxTra : Has(p, m) /\ (Page(m) + 1) * TransPerTip > n
  BY DEF Reach
<1>2. /\ n \in 0..MaxTra /\ n \in Nat /\ Page(n) \in Nat /\ Page(m) \in Nat
      /\ Page(n) * TransPerTip <= n
  BY NumberIn, PageEnd, PageIs
<1>3. Page(n) <= Page(m)
  <2> SUFFICES ASSUME Page(m) + 1 <= Page(n) PROVE FALSE
    BY <1>2
  <2>1. (Page(m) + 1) * TransPerTip <= Page(n) * TransPerTip
    BY <1>2, ProductGrows, TransactionsAssumption
  <2>2. (Page(m) + 1) * TransPerTip \in Nat /\ Page(n) * TransPerTip \in Nat
    BY <1>2, TransactionsAssumption
  <2> QED
    BY <1>1, <1>2, <2>1, <2>2
<1> QED
  BY <1>1, <1>3, InOrDone

\* A number below the first page is done.
LEMMA FrontOf ==
  ASSUME Holds, NEW p \in Procs, ~Empty(p), NEW n \in Numbers, n < FrontPage(p) * TransPerTip
  PROVE  Done(n)
<1>1. n \in 0..MaxTra /\ n \in Nat
  BY NumberIn
<1>2. ~Has(p, n)
  BY <1>1, FrontBelow
<1>3. /\ FrontPage(p) \in Nat /\ Page(n) \in Nat /\ Page(n) * TransPerTip <= n
      /\ \A m \in 0..MaxTra : Has(p, m) => FrontPage(p) <= Page(m)
  <2>1. FrontPage(p) \in Cached(p) /\ \A u \in Cached(p) : FrontPage(p) <= u
    BY FrontIs
  <2>2. Cached(p) \subseteq 0..MaxTra /\ \A m \in 0..MaxTra : Has(p, m) => Page(m) \in Cached(p)
    BY CachedIs
  <2> QED
    BY <1>1, <2>1, <2>2, PageIs, TransactionsAssumption
<1>4. Page(n) < FrontPage(p)
  <2> SUFFICES ASSUME FrontPage(p) <= Page(n) PROVE FALSE
    BY <1>3
  <2>1. FrontPage(p) * TransPerTip <= Page(n) * TransPerTip
    BY <1>3, ProductGrows, TransactionsAssumption
  <2>2. FrontPage(p) * TransPerTip \in Nat /\ Page(n) * TransPerTip \in Nat
    BY <1>3, TransactionsAssumption
  <2> QED
    BY <1>1, <1>3, <2>1, <2>2
<1>5. Below(p, n)
  BY <1>3, <1>4, PageEnd DEF Below
<1> QED
  BY <1>5 DEF Holds, TrueInv, PagesInv, PagesOf, FrontDone

(***************************************************************************)
(* A step of a cache                                                       *)
(***************************************************************************)

\* The cache is as good as before, and what it has lost is done.
CacheStep(p) ==
  /\ PagesOf(p)'
  /\ \A n \in Numbers : Has(p, n) => Has(p, n)' \/ Done(n)'

LEMMA CacheSame ==
  ASSUME Holds, Settles, NEW p \in Procs, cache'[p] = cache[p]
  PROVE  CacheStep(p)
<1>1. Whole(p) /\ Sound(p) /\ FrontDone(p)
  BY DEF Holds, TrueInv, PagesInv, PagesOf
<1>2. \A n : Has(p, n)' <=> Has(p, n)
  BY DEF Has
<1>3. Whole(p)'
  BY <1>1, <1>2 DEF Whole
<1>4. Sound(p)'
  BY <1>1 DEF Sound, Settles, Final
<1>5. FrontDone(p)'
  <2>1. Empty(p)' <=> Empty(p)
    BY <1>2 DEF Empty
  <2>2. \A n \in Numbers : Below(p, n)' => Below(p, n)
    BY <1>2 DEF Below
  <2> QED
    BY <1>1, <2>1, <2>2, DoneStays DEF FrontDone
<1> QED
  BY <1>2, <1>3, <1>4, <1>5 DEF CacheStep, PagesOf

\* A cache gets states that are true and drops pages below d; a page of it stays,
\* or what is below its new first page is done.
LEMMA CacheNew ==
  ASSUME Holds, Settles, NEW p \in Procs, NEW d \in Nat, AllDone(d), tip' \in Inventory,
         \A m \in 0..MaxTra : \/ cache'[p][m] \in {cache[p][m], tip'[m]}
                              \/ (Page(m) + 1) * TransPerTip <= d /\ cache'[p][m] = "none",
         Whole(p)',
         \/ \E m \in 0..MaxTra : Has(p, m) /\ Has(p, m)'
         \/ \A n \in Numbers : Below(p, n)' => Done(n) \/ Has(p, n)
  PROVE  CacheStep(p)
<1>1. Whole(p) /\ Sound(p) /\ FrontDone(p)
  BY DEF Holds, TrueInv, PagesInv, PagesOf
<1>2. Sound(p)'
  BY <1>1 DEF Sound, Settles, Final
<1>3. ASSUME NEW n \in Numbers, Has(p, n) PROVE Has(p, n)' \/ Done(n)'
  <2>1. n \in 0..MaxTra /\ tip'[n] # "none" /\ n < (Page(n) + 1) * TransPerTip
    BY NumberIn, PageEnd DEF Inventory, States
  <2>2. CASE cache'[p][n] \in {cache[p][n], tip'[n]}
    BY <1>3, <2>1, <2>2 DEF Has
  <2>3. CASE (Page(n) + 1) * TransPerTip <= d
    <3>1. n < d
      BY <2>1, <2>3, PageEnd
    <3> QED
      BY <3>1, DoneStays DEF AllDone
  <2> QED
    BY <2>1, <2>2, <2>3
<1>4. FrontDone(p)'
  <2> SUFFICES ASSUME NEW n \in Numbers, Below(p, n)' PROVE Done(n)'
    BY DEF FrontDone
  <2>1. n \in 0..MaxTra /\ Page(n) \in Nat
    BY NumberIn, PageEnd
  <2>2. ~Has(p, n)'
    BY <2>1 DEF Below
  <2>3. CASE Has(p, n) \/ Done(n)
    BY <1>3, <2>2, <2>3, DoneStays
  <2>4. CASE \E m \in 0..MaxTra : Has(p, m) /\ Has(p, m)'
    <3>1. PICK m \in 0..MaxTra : Has(p, m) /\ Has(p, m)'
      BY <2>4
    <3>2. Page(n) < Page(m)
      BY <3>1 DEF Below
    <3>3. Page(n) <= Page(m)
      BY <2>1, <3>2, PageEnd
    <3> QED
      BY <2>3, <3>1, <3>3, InOrDone
  <2>5. CASE \A k \in Numbers : Below(p, k)' => Done(k) \/ Has(p, k)
    BY <2>3, <2>5
  <2> QED
    BY <2>4, <2>5
<1> QED
  BY <1>2, <1>3, <1>4 DEF CacheStep, PagesOf

\* updateCache with a page as it is now.
LEMMA UpdatedStep ==
  ASSUME Holds, Settles, NEW p \in Procs, NEW k \in 0..MaxTra, tip' \in Inventory,
         cache' = [cache EXCEPT ![p] = Updated(p, Page(k), tip')],
         Empty(p) => \A n \in Numbers : Page(n) < Page(k) => Done(n)
  PROVE  /\ \A q \in Procs : CacheStep(q)
         /\ \A m \in 0..MaxTra : Page(m) = Page(k) => Has(p, m)'
<1>1. cache'[p] = Updated(p, Page(k), tip') /\ \A q \in Procs : q # p => cache'[q] = cache[q]
  BY DEF Holds, OwnInv, TypeInv
<1>2. \A m \in 0..MaxTra : tip'[m] # "none"
  BY DEF Inventory, States
<1>3. \A m \in 0..MaxTra : cache'[p][m] =
        IF Page(m) = Page(k) THEN tip'[m] ELSE IF (Page(m) + 1) * TransPerTip <= dbb[p].oit THEN "none" ELSE cache[p][m]
  BY <1>1 DEF Updated
<1>4. \A m \in 0..MaxTra : Page(m) = Page(k) => Has(p, m)'
  BY <1>2, <1>3 DEF Has
<1>5. PICK d \in Nat : d = dbb[p].oit
  BY DbbType DEF Holds, OwnInv
<1>6. AllDone(d)
  BY <1>5 DEF Holds, TrueInv, BoundsInv
<1>7. Whole(p)'
  <2> SUFFICES ASSUME NEW n \in 0..MaxTra, NEW m \in 0..MaxTra, Page(n) = Page(m), Has(p, n)' PROVE Has(p, m)'
    BY DEF Whole
  <2>1. Has(p, n) => Has(p, m)
    BY DEF Holds, TrueInv, PagesInv, PagesOf, Whole
  <2> QED
    BY <1>2, <1>3, <2>1 DEF Has
<1>8. \/ \E m \in 0..MaxTra : Has(p, m) /\ Has(p, m)'
      \/ \A n \in Numbers : Below(p, n)' => Done(n) \/ Has(p, n)
  <2>1. CASE Empty(p)
    <3>1. ASSUME NEW n \in Numbers, Below(p, n)' PROVE Done(n)
      <4>1. Page(n) < Page(k)
        BY <1>4, <3>1 DEF Below
      <4> QED
        BY <2>1, <4>1
    <3> QED
      BY <3>1
  <2>2. CASE ~Empty(p)
    <3>1. PICK m \in 0..MaxTra : Has(p, m) /\ (Page(m) + 1) * TransPerTip > dbb[p].oit
      BY <2>2 DEF Holds, OwnInv, CacheInv, Reach
    <3>2. ~((Page(m) + 1) * TransPerTip <= dbb[p].oit)
      BY <1>5, <3>1, PageEnd
    <3>3. Has(p, m)'
      BY <1>2, <1>3, <3>1, <3>2 DEF Has
    <3> QED
      BY <3>1, <3>3
  <2> QED
    BY <2>1, <2>2
<1>9. \A m \in 0..MaxTra : \/ cache'[p][m] \in {cache[p][m], tip'[m]}
                           \/ (Page(m) + 1) * TransPerTip <= d /\ cache'[p][m] = "none"
  BY <1>3, <1>5
<1>10. CacheStep(p)
  BY <1>6, <1>7, <1>8, <1>9, CacheNew
<1> QED
  BY <1>1, <1>4, <1>10, CacheSame

\* Pages below trim are dropped.
LEMMA TrimStep ==
  ASSUME Holds, NEW p \in Procs, NEW d \in Nat, AllDone(d), Reach(p, d),
         cache' = [cache EXCEPT ![p] = [n \in 0..MaxTra |->
                    IF (Page(n) + 1) * TransPerTip < d THEN "none" ELSE cache[p][n]]],
         tip' = tip, swept' = swept
  PROVE  Settles /\ \A q \in Procs : CacheStep(q)
<1>0. Settles /\ tip' \in Inventory
  BY DEF Settles, Holds, OwnInv, TypeInv
<1>1. /\ \A m \in 0..MaxTra : cache'[p][m] = IF (Page(m) + 1) * TransPerTip < d THEN "none" ELSE cache[p][m]
      /\ \A q \in Procs : q # p => cache'[q] = cache[q]
  BY DEF Holds, OwnInv, TypeInv
<1>2. Whole(p)'
  <2> SUFFICES ASSUME NEW n \in 0..MaxTra, NEW m \in 0..MaxTra, Page(n) = Page(m), Has(p, n)' PROVE Has(p, m)'
    BY DEF Whole
  <2>1. Has(p, n) => Has(p, m)
    BY DEF Holds, TrueInv, PagesInv, PagesOf, Whole
  <2> QED
    BY <1>1, <2>1 DEF Has
<1>3. PICK m \in 0..MaxTra : Has(p, m) /\ (Page(m) + 1) * TransPerTip > d
  BY DEF Reach
<1>4. Has(p, m)'
  <2>1. ~((Page(m) + 1) * TransPerTip < d)
    BY <1>3, PageEnd
  <2> QED
    BY <1>1, <1>3, <2>1 DEF Has
<1>5. \A k \in 0..MaxTra : \/ cache'[p][k] \in {cache[p][k], tip'[k]}
                           \/ (Page(k) + 1) * TransPerTip <= d /\ cache'[p][k] = "none"
  <2> TAKE k \in 0..MaxTra
  <2>1. (Page(k) + 1) * TransPerTip < d => (Page(k) + 1) * TransPerTip <= d
    BY PageEnd
  <2> QED
    BY <1>1, <2>1
<1>6. CacheStep(p)
  BY <1>0, <1>2, <1>3, <1>4, <1>5, CacheNew
<1> QED
  BY <1>0, <1>1, <1>6, CacheSame

(***************************************************************************)
(* TRA_get_state and findStates                                            *)
(***************************************************************************)

\* Every number between the first and the last page of the cache is in it.
LEMMA NoneInGap ==
  ASSUME Holds, NEW p \in Procs, ~Empty(p), NEW n \in 0..MaxTra
  PROVE  n \notin Gap(p)
<1> SUFFICES ASSUME n \in Gap(p) PROVE FALSE
  OBVIOUS
<1>1. ~Has(p, n) /\ FrontPage(p) < Page(n) /\ Page(n) < BackPage(p)
  BY DEF Gap, Has
<1>2. PICK a \in 0..MaxTra : Has(p, a) /\ FrontPage(p) = Page(a)
  BY FrontIs, CachedIs
<1>3. PICK b \in 0..MaxTra : Has(p, b) /\ BackPage(p) = Page(b)
  BY BackIs, CachedIs
<1> QED
  BY <1>1, <1>2, <1>3 DEF Holds, NoGap

\* What TRA_get_state finds is true: active without a lock, done, or final.
LEMMA StateIs ==
  ASSUME Holds, NEW p \in Procs, ~Empty(p), NEW n \in Numbers
  PROVE  /\ GetState(p, n) = "active" /\ lock[n] = 0 => tip[n] = "active"
         /\ GetState(p, n) = "committed" => Done(n)
         /\ GetState(p, n) # "active" => Final(n)
<1>1. n \in 0..MaxTra
  BY NumberIn
<1>2. n \notin Gap(p)
  BY <1>1, NoneInGap
<1>3. (Done(n) => Final(n)) /\ (tip[n] = "committed" => Done(n)) /\ (tip[n] # "active" => Final(n))
  BY DoneFinal DEF Holds, Done, Final
<1>4. CASE n < FrontPage(p) * TransPerTip
  <2>1. cache[p][n] = "none"
    BY <1>1, <1>4, FrontBelow DEF Has
  <2>2. GetState(p, n) \in {"committed"} \/ (cache[p][n] = "none" /\ ~(n < FrontPage(p) * TransPerTip))
    <3>1. (cache[p][n] = "none" /\ n < header.oit) \/ ~(cache[p][n] = "none" /\ n < header.oit)
      OBVIOUS
    <3> QED
      BY <1>4, <2>1, <3>1 DEF GetState
  <2>3. Done(n)
    BY <1>4, FrontOf
  <2> QED
    BY <1>3, <1>4, <2>2, <2>3
<1>5. CASE ~(n < FrontPage(p) * TransPerTip) /\ cache[p][n] \in {"committed", "dead"}
  <2>1. GetState(p, n) = cache[p][n]
    BY <1>5 DEF GetState
  <2>2. tip[n] = cache[p][n]
    BY <1>1, <1>5 DEF Holds, TrueInv, PagesInv, PagesOf, Sound
  <2> QED
    BY <1>3, <1>5, <2>1, <2>2
<1>6. CASE ~(n < FrontPage(p) * TransPerTip) /\ cache[p][n] = "active"
  <2>1. GetState(p, n) = IF lock[n] # 0 THEN "active" ELSE tip[n]
    BY <1>6 DEF GetState
  <2> QED
    BY <1>3, <2>1
<1>7. CASE ~(n < FrontPage(p) * TransPerTip) /\ cache[p][n] = "none"
  <2>1. CASE n < header.oit
    <3>1. GetState(p, n) = "committed"
      BY <1>7, <2>1 DEF GetState
    <3>2. Done(n)
      BY <2>1 DEF Holds, TrueInv, BoundsInv, AllDone
    <3> QED
      BY <1>3, <3>1, <3>2
  <2>2. CASE ~(n < header.oit)
    <3>1. GetState(p, n) = tip[n]
      BY <1>2, <1>7, <2>2 DEF GetState
    <3> QED
      BY <1>3, <3>1
  <2> QED
    BY <2>1, <2>2
<1>8. cache[p][n] \in {"committed", "dead", "active", "none"}
  <2>1. cache[p] \in [0..MaxTra -> Stored]
    BY DEF Holds, OwnInv, TypeInv
  <2> QED
    BY <1>1, <2>1 DEF Stored, States
<1> QED
  BY <1>4, <1>5, <1>6, <1>7, <1>8

\* What findStates passes over is done, or in the cache with another state.
LEMMA FindPasses ==
  ASSUME Holds, NEW p \in Procs, NEW b \in Nat, b <= MaxTra, Reach(p, b), NEW a \in Nat, NEW W,
         NEW r \in Find(p, a, b, W), NEW n \in Numbers, a <= n, n < r
  PROVE  Done(n) \/ (Has(p, n) /\ cache[p][n] \notin W)
<1> DEFINE from == Most(a, FrontPage(p) * TransPerTip)
           found == {m \in from..(b - 1) : cache[p][m] \in W}
<1>1. ~Empty(p)
  BY DEF Reach, Empty
<1>2. n \in 0..MaxTra /\ n \in Nat /\ n > 0 /\ MaxTra \in Nat
  BY NumberIn
<1>3. FrontPage(p) \in Nat /\ FrontPage(p) * TransPerTip \in Nat
  BY <1>1, FrontTypes, TransactionsAssumption DEF Holds, OwnInv
<1>4. r \in Nat /\ r <= b
  BY <1>1, FindRange
<1>5. n < FrontPage(p) * TransPerTip => Done(n)
  BY <1>1, FrontOf
<1> SUFFICES ASSUME ~(n < FrontPage(p) * TransPerTip) PROVE Done(n) \/ (Has(p, n) /\ cache[p][n] \notin W)
  BY <1>5
<1>6. from \in Nat /\ from <= n /\ from < b
  BY <1>2, <1>3, <1>4 DEF Most
<1>7. Has(p, n) \/ Done(n)
  <2>1. PICK m \in 0..MaxTra : Has(p, m) /\ (Page(m) + 1) * TransPerTip > b
    BY DEF Reach
  <2>2. (Page(m) + 1) * TransPerTip > n
    BY <1>2, <1>4, <2>1, PageEnd
  <2>3. Reach(p, n)
    BY <2>1, <2>2 DEF Reach
  <2> QED
    BY <2>3, ReachedIn
<1>8. Has(p, from)
  <2>1. PICK m \in 0..MaxTra : Has(p, m) /\ (Page(m) + 1) * TransPerTip > b
    BY DEF Reach
  <2>2. PICK k \in 0..MaxTra : Has(p, k) /\ FrontPage(p) = Page(k)
    BY <1>1, FrontIs, CachedIs
  <2>3. from \in 0..MaxTra
    BY <1>2, <1>6
  <2>4. Page(k) <= Page(from)
    <3>1. FrontPage(p) * TransPerTip <= from
      BY <1>2, <1>3 DEF Most
    <3>2. from < (Page(from) + 1) * TransPerTip /\ Page(from) \in Nat
      BY <1>6, PageIs
    <3> SUFFICES ASSUME Page(from) + 1 <= Page(k) PROVE FALSE
      BY <2>2, <3>2, <1>3
    <3>3. (Page(from) + 1) * TransPerTip <= Page(k) * TransPerTip
      BY <1>3, <2>2, <3>2, ProductGrows, TransactionsAssumption
    <3>4. (Page(from) + 1) * TransPerTip \in Nat
      BY <2>3, PageEnd
    <3> QED
      BY <1>3, <1>6, <2>2, <3>1, <3>2, <3>3, <3>4
  <2>5. Page(from) <= Page(m)
    <3>1. Page(from) \in Nat /\ Page(from) * TransPerTip <= from /\ Page(m) \in Nat
      BY <1>6, PageIs, <2>1, PageEnd
    <3> SUFFICES ASSUME Page(m) + 1 <= Page(from) PROVE FALSE
      BY <3>1
    <3>2. (Page(m) + 1) * TransPerTip <= Page(from) * TransPerTip
      BY <3>1, ProductGrows, TransactionsAssumption
    <3>3. (Page(m) + 1) * TransPerTip \in Nat /\ Page(from) * TransPerTip \in Nat
      BY <3>1, PageEnd, TransactionsAssumption
    <3> QED
      BY <1>4, <1>6, <2>1, <3>1, <3>2, <3>3
  <2> QED
    BY <2>1, <2>2, <2>3, <2>4, <2>5, Between
<1>9. r \in Earliest(found, b)
  <2>1. \A k \in from..(b - 1) : k \notin Gap(p)
    <3> TAKE k \in from..(b - 1)
    <3>1. k \in 0..MaxTra
      BY <1>2, <1>6
    <3> QED
      BY <1>1, <3>1, NoneInGap
  <2>2. ~(from >= b) /\ ~(cache[p][from] = "none")
    BY <1>6, <1>8 DEF Has
  <2>3. r \in Earliest(found, b) \/ \E k \in from..(b - 1) : k \in Gap(p)
    <3>1. r \in IF from >= b \/ cache[p][from] = "none" THEN {b}
                ELSE Earliest(found, b) \union {m \in (from..(b - 1)) \intersect Gap(p) : \A k \in found : m < k}
      BY DEF Find
    <3> QED
      BY <2>2, <3>1
  <2> QED
    BY <2>1, <2>3
<1>10. n \notin found
  <2> SUFFICES ASSUME n \in found PROVE FALSE
    OBVIOUS
  <2>1. r <= n
    BY <1>9 DEF Earliest
  <2> QED
    BY <1>2, <1>4, <2>1
<1>11. n \in from..(b - 1)
  BY <1>2, <1>4, <1>6
<1> QED
  BY <1>7, <1>10, <1>11

\* The cache learns the pages behind its last one.
LEMMA LearntStep ==
  ASSUME Holds, NEW i \in Numbers, Live(i), NEW p \in Procs, ~Empty(p), NEW n \in 0..MaxTra, Readable(p, n),
         cache' = [cache EXCEPT ![p] = Learnt(p, n)], tip' = tip, swept' = swept
  PROVE  Settles /\ \A q \in Procs : CacheStep(q)
<1>0. Settles /\ tip' \in Inventory /\ TypeInv /\ tip' = tip /\ tip \in Inventory
  BY DEF Settles, Holds, OwnInv, TypeInv
<1>1. cache'[p] = Learnt(p, n) /\ \A q \in Procs : q # p => cache'[q] = cache[q]
  BY DEF Holds, OwnInv, TypeInv
<1>2. cache[p] \in [0..MaxTra -> Stored]
  BY DEF Holds, OwnInv, TypeInv
<1>3. n < FrontPage(p) * TransPerTip => cache[p][n] = "none"
  BY FrontBelow DEF Has
<1>4. CASE Learnt(p, n) = cache[p]
  BY <1>0, <1>1, <1>4, CacheSame
<1>5. CASE Learnt(p, n) = Updated(p, Page(n), tip)
  BY <1>0, <1>5, UpdatedStep
<1>6. CASE ~(n < FrontPage(p) * TransPerTip) /\ cache[p][n] = "none"
  <2>1. PICK N \in 0..MaxTra : N = header.nt /\ header.oit <= N /\ \A q \in Procs : dbb[q].oit <= N
    BY NextIs DEF Holds
  <2>2. PICK o \in Nat : o = header.oit /\ o <= N
    BY <1>0, <2>1, HeaderType
  <2>3. PICK f \in Nat : f = Most(BackPage(p) + 1, Page(o)) /\ f >= BackPage(p) + 1 /\ f >= Page(o)
                         /\ f \in {BackPage(p) + 1, Page(o)} /\ BackPage(p) \in Nat /\ Page(o) \in Nat
    <3>1. BackPage(p) \in Nat /\ Page(o) \in Nat
      BY <1>0, FrontTypes, PageIs
    <3> QED
      BY <3>1 DEF Most
  <2>4. f <= Page(N) /\ N \in Nat /\ Page(N) \in Nat
    <3>1. N \in Nat /\ Page(o) <= Page(N) /\ Page(N) \in Nat
      BY <2>2, PageOrder, PageEnd
    <3>2. BackPage(p) < Page(N)
      BY <1>6, <2>1 DEF Readable
    <3> QED
      BY <2>3, <3>1, <3>2
  <2>5. PICK d \in Nat : d = Most(o, dbb[p].oit)
    BY <1>0, LeastNat, DbbType
  <2>6. \A m \in 0..MaxTra : cache'[p][m] =
          IF Page(m) \in f..Page(N) THEN tip[m]
          ELSE IF (Page(m) + 1) * TransPerTip < Most(o, dbb[p].oit + 1) THEN "none"
          ELSE cache[p][m]
    <3>1. ~(n < FrontPage(p) * TransPerTip \/ cache[p][n] \in {"committed", "dead"}) /\ cache[p][n] # "active"
      BY <1>6
    <3>2. Learnt(p, n) = [m \in 0..MaxTra |->
            IF Page(m) \in f..Page(N) THEN tip[m]
            ELSE IF (Page(m) + 1) * TransPerTip < Most(o, dbb[p].oit + 1) THEN "none"
            ELSE cache[p][m]]
      BY <2>1, <2>2, <2>3, <3>1, Zenon DEF Learnt
    <3> QED
      BY <1>1, <3>2
  <2>7. AllDone(d)
    BY <2>2, <2>5 DEF Holds, TrueInv, BoundsInv, Most
  <2>8. \A m \in 0..MaxTra : tip[m] # "none"
    BY <1>0 DEF Inventory, States
  <2>9. \A m \in 0..MaxTra : \/ cache'[p][m] \in {cache[p][m], tip'[m]}
                             \/ (Page(m) + 1) * TransPerTip <= d /\ cache'[p][m] = "none"
    <3> TAKE m \in 0..MaxTra
    <3>1. (Page(m) + 1) * TransPerTip < Most(o, dbb[p].oit + 1) => (Page(m) + 1) * TransPerTip <= d
      <4>1. dbb[p].oit \in Nat /\ (Page(m) + 1) * TransPerTip \in Nat
        BY <1>0, DbbType, PageEnd
      <4> QED
        BY <2>2, <2>5, <4>1 DEF Most
    <3> QED
      BY <1>0, <2>6, <3>1
  <2>10. Whole(p)'
    <3> SUFFICES ASSUME NEW k \in 0..MaxTra, NEW m \in 0..MaxTra, Page(k) = Page(m), Has(p, k)' PROVE Has(p, m)'
      BY DEF Whole
    <3>1. Has(p, k) => Has(p, m)
      BY DEF Holds, TrueInv, PagesInv, PagesOf, Whole
    <3> QED
      BY <2>6, <2>8, <3>1 DEF Has
  <2>11. ASSUME NEW k \in Numbers, Below(p, k)' PROVE Done(k) \/ Has(p, k)
    <3>1. k \in 0..MaxTra /\ k \in Nat /\ Page(k) \in Nat
      BY NumberIn, PageEnd
    <3>2. PICK m \in 0..MaxTra : Page(m) = f
      BY <2>4, PageFirst
    <3>3. Has(p, m)'
      BY <2>3, <2>4, <2>6, <2>8, <3>2 DEF Has
    <3>4. Page(k) < f
      BY <2>11, <3>2, <3>3 DEF Below
    <3>5. CASE Page(k) <= BackPage(p)
      <4>1. PICK b \in 0..MaxTra : Has(p, b) /\ BackPage(p) = Page(b)
        BY BackIs, CachedIs
      <4> QED
        BY <3>5, <4>1, InOrDone
    <3>6. CASE ~(Page(k) <= BackPage(p))
      <4>1. Page(k) < Page(o)
        BY <2>3, <3>1, <3>4, <3>6
      <4>2. k < o
        BY <3>1, <4>1, PageLess
      <4> QED
        BY <2>2, <4>2 DEF Holds, TrueInv, BoundsInv, AllDone
    <3> QED
      BY <3>5, <3>6
  <2>12. CacheStep(p)
    BY <1>0, <2>7, <2>9, <2>10, <2>11, CacheNew
  <2> QED
    BY <1>0, <1>1, <2>12, CacheSame
<1>7. CASE n < FrontPage(p) * TransPerTip \/ cache[p][n] \in {"committed", "dead"}
  <2>1. cache[p][n] # "active"
    BY <1>3, <1>7
  <2>2. Learnt(p, n) = cache[p]
    BY <1>7, <2>1, Zenon DEF Learnt
  <2> QED
    BY <1>4, <2>2
<1>8. CASE ~(n < FrontPage(p) * TransPerTip) /\ cache[p][n] = "active"
  <2>1. Learnt(p, n) = IF lock[n] # 0 THEN cache[p] ELSE Updated(p, Page(n), tip)
    BY <1>8 DEF Learnt
  <2> QED
    BY <1>4, <1>5, <2>1
<1>9. cache[p][n] \in {"committed", "dead", "active", "none"}
  BY <1>2 DEF Stored, States
<1> QED
  BY <1>6, <1>7, <1>8, <1>9

\* TRA_set_state of a number whose transaction has not ended.
LEMMA SetStateStep ==
  ASSUME Holds, NEW p \in Procs, ~Empty(p), NEW n \in Numbers, NEW s \in States, tip[n] = "active",
         SetState(p, n, s), swept' = swept
  PROVE  /\ Settles /\ \A q \in Procs : CacheStep(q)
         /\ tip'[n] = s /\ \A m \in 0..MaxTra : m # n => tip'[m] = tip[m]
<1>1. n \in 0..MaxTra /\ TypeInv
  BY NumberIn DEF Holds, OwnInv
<1>2. /\ tip' = [tip EXCEPT ![n] = s] /\ tip' \in Inventory
      /\ cache' = [cache EXCEPT ![p] = Updated(p, Page(n), tip')]
  BY <1>1, SetStateType
<1>3. tip'[n] = s /\ \A m \in 0..MaxTra : m # n => tip'[m] = tip[m]
  BY <1>1, <1>2 DEF TypeInv, Inventory
<1>4. Settles
  BY <1>3 DEF Settles, Final
<1>5. \A q \in Procs : CacheStep(q)
  BY <1>1, <1>2, <1>4, UpdatedStep
<1> QED
  BY <1>3, <1>4, <1>5

\* The end of TRA_wait: whoever is active without a lock becomes dead, whatever
\* was final stays.
LEMMA SettleStep ==
  ASSUME Holds, NEW i \in Numbers, Live(i), NEW p \in Procs, p = tra[i].proc, ~Empty(p), NEW n \in Numbers,
         lock[n] = 0, Readable(p, n), Settle(i, n, GetState(p, n)), swept' = swept
  PROVE  /\ Settles /\ \A q \in Procs : CacheStep(q)
         /\ Settled(GetState(p, n)) = "committed" => Done(n)'
         /\ Final(n)'
<1>0. n \in 0..MaxTra
  BY NumberIn
<1>1. CASE GetState(p, n) = "active"
  <2>1. SetState(p, n, "dead")
    BY <1>1 DEF Settle
  <2>2. tip[n] = "active"
    BY <1>1, StateIs
  <2>3. "dead" \in States
    BY DEF States
  <2>4. Settles /\ (\A q \in Procs : CacheStep(q)) /\ tip'[n] = "dead"
    BY <2>1, <2>2, <2>3, SetStateStep
  <2>5. Settled(GetState(p, n)) = "dead"
    BY <1>1 DEF Settled
  <2> QED
    BY <2>4, <2>5 DEF Final
<1>2. CASE GetState(p, n) # "active"
  <2>1. cache' = [cache EXCEPT ![p] = Learnt(p, n)] /\ tip' = tip
    BY <1>2 DEF Settle
  <2>2. Settles /\ \A q \in Procs : CacheStep(q)
    BY <1>0, <2>1, LearntStep
  <2>3. Settled(GetState(p, n)) = GetState(p, n)
    BY <1>2 DEF Settled
  <2>4. (Done(n) => Done(n)') /\ (Final(n) => Final(n)')
    BY <2>2, DoneStays
  <2> QED
    BY <1>2, <2>2, <2>3, <2>4, StateIs
<1> QED
  BY <1>1, <1>2

(***************************************************************************)
(* What a step leaves to the transactions                                  *)
(***************************************************************************)

\* A transaction that does nothing knows what it knew.
LEMMA OtherKept ==
  ASSUME Holds, Settles, NEW j \in Numbers, Live(j), tra'[j] = tra[j], header'.oit >= header.oit,
         header'.oit \in Nat, NEW p \in Procs, p = tra[j].proc, \A n \in Numbers : Has(p, n) => Has(p, n)' \/ Done(n)'
  PROVE  KnowsOf(j)' /\ ReadsOf(j)'
<1>1. KnowsOf(j) /\ ReadsOf(j)
  BY DEF Holds, TrueInv, KnowsInv
<1>2. \A n \in Numbers : (Final(n) => Final(n)') /\ (Done(n) => Done(n)')
  BY DoneStays
<1>3. KnowsOf(j)'
  BY <1>1, <1>2 DEF KnowsOf, AllDone, AllFinal
<1>4. \A n \in Numbers : Done(n) \/ Has(p, n) => Done(n)' \/ Has(p, n)'
  BY <1>2
<1>5. tra[j].pc \in {"inventory", "copy", "fill", "cache"} =>
        \A n \in Numbers : Page(n) < tra[j].local.next => Done(n)' \/ Has(p, n)'
  BY <1>1, <1>4 DEF ReadsOf
<1>6. tra[j].pc \in {"fill", "cache", "trim"} => tra[j].local.trim <= header'.oit
  <2>1. tra[j].local.trim \in Nat /\ header.oit \in Nat
    BY TypedTra, HeaderType DEF Holds, OwnInv, TypeInv, Live, At, NoTra
  <2> QED
    BY <1>1, <2>1 DEF ReadsOf
<1>7. \A n \in tra[j].local.marked : tip'[n] = "dead"
  <2>1. tra[j].local.marked \subseteq Numbers
    BY TypedTra DEF Holds, OwnInv, TypeInv, Live, At, NoTra
  <2> QED
    BY <1>1, <2>1, NumberIn DEF ReadsOf, Settles, Final
<1>8. tra[j].pc = "sweeping" => \A n \in Numbers : n < tra[j].local.saved => tip'[n] = "committed" \/ n \in tra[j].local.marked
  BY <1>1, NumberIn DEF ReadsOf, Settles, Final
<1>9. tra[j].pc = "advance" => \A n \in Numbers : n < tra[j].local.saved => Done(n)'
  BY <1>1, <1>2 DEF ReadsOf, AllDone
<1>10. ReadsOf(j)'
  BY <1>5, <1>6, <1>7, <1>8, <1>9 DEF ReadsOf, AllDone, Page
<1> QED
  BY <1>3, <1>10

\* A sweep takes away versions of the dead only.
LEMMA SweptKept2 ==
  ASSUME Holds, Settles, \A n \in swept' : n \in swept \/ (n \in Numbers /\ tip[n] = "dead")
  PROVE  SweptInv'
<1>1. tip[0] = "committed" /\ (\A n \in swept : tip[n] = "dead" /\ n \in Numbers) /\ 0 \in 0..MaxTra
  BY TransactionsAssumption DEF Holds, TrueInv, SweptInv, OwnInv, TypeInv
<1> QED
  BY <1>1, NumberIn DEF SweptInv, Settles, Final

\* The bounds that stay are as true as they were.
LEMMA BoundsKept ==
  ASSUME Holds, Settles, header' = header, dbb' = dbb, \A n \in Numbers : lock'[n] \in {lock[n], 0}
  PROVE  BoundsInv'
<1>1. \A n \in Numbers : (Final(n) => Final(n)') /\ (Done(n) => Done(n)')
  BY DoneStays
<1>2. BoundsInv
  BY DEF Holds, TrueInv
<1>3. \A n \in Numbers : lock'[n] <= n
  BY <1>2, NumberIn DEF BoundsInv
<1> QED
  BY <1>1, <1>2, <1>3 DEF BoundsInv, AllDone, AllFinal

\* A step of one transaction.
LEMMA StepTrue ==
  ASSUME Holds, NEW i \in Numbers, Settles, \A n \in swept' : n \in swept \/ (n \in Numbers /\ tip[n] = "dead"),
         \A q \in Procs : CacheStep(q), header'.oit \in Nat, header'.oit >= header.oit, BoundsInv',
         \A j \in Numbers \ {i} : tra'[j] = tra[j], Live(i)' => KnowsOf(i)' /\ ReadsOf(i)'
  PROVE  TrueInv'
<1>1. SweptInv'
  BY SweptKept2
<1>2. PagesInv'
  BY DEF PagesInv, CacheStep
<1>3. ASSUME NEW j \in Numbers, Live(j)' PROVE KnowsOf(j)' /\ ReadsOf(j)'
  <2>1. CASE j = i
    BY <1>3, <2>1
  <2>2. CASE j # i
    <3>1. tra'[j] = tra[j] /\ Live(j)
      BY <1>3, <2>2 DEF Live, At
    <3>2. PICK p \in Procs : p = tra[j].proc
      BY <3>1, TypedTra DEF Holds, OwnInv, TypeInv, Live, At, NoTra
    <3> QED
      BY <3>1, <3>2, OtherKept DEF CacheStep
  <2> QED
    BY <2>1, <2>2
<1>4. KnowsInv'
  BY <1>3 DEF KnowsInv
<1> QED
  BY <1>1, <1>2, <1>4 DEF TrueInv

\* A transaction goes on; header page and limits of the processes stay.
LEMMA MoveTrue ==
  ASSUME Holds, NEW i \in Numbers, NEW pc, Goes(i, pc), Settles, swept' = swept,
         \A q \in Procs : CacheStep(q), header' = header, dbb' = dbb, \A n \in Numbers : lock'[n] \in {lock[n], 0},
         KnowsOf(i)', ReadsOf(i)'
  PROVE  TrueInv'
<1>1. header'.oit \in Nat /\ header'.oit >= header.oit
  BY HeaderType DEF Holds, OwnInv
<1>2. BoundsInv'
  BY BoundsKept
<1>3. \A j \in Numbers \ {i} : tra'[j] = tra[j]
  BY DEF Goes
<1> QED
  BY <1>1, <1>2, <1>3, StepTrue

\* Its view after a step.
ViewTrue(i) ==
  \A n \in Numbers : /\ tra'[i].transactions[n] = "committed" => Done(n)'
                     /\ tra'[i].transactions[n] # "active" => Final(n)'

LEMMA ViewSame ==
  ASSUME Holds, NEW i \in Numbers, Live(i), Settles, KeepsView(i)
  PROVE  ViewTrue(i)
<1>1. KnowsOf(i)
  BY DEF Holds, TrueInv, KnowsInv
<1> QED
  BY <1>1, DoneStays DEF ViewTrue, KeepsView, KnowsOf

\* It knows what it knew, and what has been added.
LEMMA KnowsGo ==
  ASSUME Holds, NEW i \in Numbers, Live(i), NEW pc, Goes(i, pc), Settles, ViewTrue(i),
         pc \in Looking =>
           /\ tra'[i].local.oat = i /\ tra'[i].oldest_active = i
           /\ \A n \in Numbers : n < tra'[i].local.active => Final(n)',
         pc \in {"query", "publish"} =>
           tra'[i].local.oat <= i /\ \A n \in Numbers : n < tra'[i].local.oat => Final(n)',
         pc \notin Looking \union {"advance"} => \A n \in Numbers : n < tra'[i].oldest_active => Final(n)'
  PROVE  KnowsOf(i)'
<1>1. KnowsOf(i)
  BY DEF Holds, TrueInv, KnowsInv
<1>2. \A n \in Numbers : n < tra'[i].oldest => Done(n)'
  BY <1>1, DoneStays DEF KnowsOf, AllDone, Goes
<1>3. tra'[i].oldest <= i /\ tra'[i].pc = pc
  BY <1>1 DEF KnowsOf, Goes
<1> HIDE DEF KnowsOf
<1> QED
  BY <1>2, <1>3 DEF KnowsOf, AllDone, AllFinal, ViewTrue

LEMMA KnowsSame ==
  ASSUME Holds, NEW i \in Numbers, Live(i), NEW pc, Goes(i, pc), Settles, ViewTrue(i), KeepsLimits(i),
         pc \in Looking => tra[i].pc \in Looking,
         pc \in {"query", "publish"} => tra[i].pc \in {"query", "publish"},
         pc \notin Looking \union {"advance"} => tra[i].pc \notin Looking \union {"advance"}
  PROVE  KnowsOf(i)'
<1>1. KnowsOf(i)
  BY DEF Holds, TrueInv, KnowsInv
<1>2. \A n \in Numbers : Final(n) => Final(n)'
  BY DoneStays
<1>3. pc \in Looking =>
           /\ tra'[i].local.oat = i /\ tra'[i].oldest_active = i
           /\ \A n \in Numbers : n < tra'[i].local.active => Final(n)'
  BY <1>1, <1>2 DEF KnowsOf, AllFinal, KeepsLimits
<1>4. pc \in {"query", "publish"} =>
           tra'[i].local.oat <= i /\ \A n \in Numbers : n < tra'[i].local.oat => Final(n)'
  BY <1>1, <1>2 DEF KnowsOf, AllFinal, KeepsLimits
<1>5. pc \notin Looking \union {"advance"} => \A n \in Numbers : n < tra'[i].oldest_active => Final(n)'
  BY <1>1, <1>2 DEF KnowsOf, AllFinal, KeepsLimits
<1> QED
  BY <1>3, <1>4, <1>5, KnowsGo

\* Outside the inventory it has read nothing that must stay.
LEMMA ReadsGo ==
  ASSUME Holds, NEW i \in Numbers, Live(i), NEW pc, Goes(i, pc), Settles,
         pc \notin {"inventory", "copy", "fill", "cache", "trim", "sweeping", "advance"},
         tra'[i].local.marked \in {{}, tra[i].local.marked}
  PROVE  ReadsOf(i)'
<1>1. ReadsOf(i) /\ tra'[i].pc = pc
  BY DEF Holds, TrueInv, KnowsInv, Goes
<1>2. tra[i].local.marked \subseteq Numbers
  BY TypedTra DEF Goes
<1>3. \A n \in tra'[i].local.marked : tip'[n] = "dead"
  BY <1>1, <1>2, NumberIn DEF ReadsOf, Settles, Final
<1> QED
  BY <1>1, <1>3 DEF ReadsOf

(***************************************************************************)
(* The steps of a transaction                                              *)
(***************************************************************************)

\* No state and no cache is changed.
LEMMA Quiet ==
  ASSUME Holds, tip' = tip, cache' = cache, swept' = swept
  PROVE  Settles /\ \A q \in Procs : CacheStep(q)
<1>1. Settles
  BY DEF Settles
<1> QED
  BY <1>1, CacheSame

\* What is known of a transaction before its step.
LEMMA ItsTruth ==
  ASSUME Holds, NEW i \in Numbers, tra[i] \in Transaction
  PROVE  /\ Live(i) /\ FitOf(i) /\ LockOf(i) /\ ActiveOf(i) /\ LoadOf(i) /\ KnowsOf(i) /\ ReadsOf(i)
         /\ tra[i].number \in Numbers /\ tra[i].number <= header.nt /\ i \in Nat /\ i > 0 /\ i <= header.nt /\ i <= MaxTra
         /\ header.nt \in Nat /\ header.nt \in 0..MaxTra /\ header.oit \in Nat /\ MaxTra \in Nat
         /\ \E p \in Procs : p = tra[i].proc
<1>1. Live(i) /\ \E p \in Procs : p = tra[i].proc
  BY TypedTra DEF Live, At
<1>2. KnowsOf(i) /\ ReadsOf(i)
  BY <1>1 DEF Holds, TrueInv, KnowsInv
<1>3. MaxTra \in Nat /\ i \in Nat /\ i <= MaxTra
  BY NumberIn DEF Numbers
<1> QED
  BY <1>1, <1>2, <1>3, ItsFacts DEF Holds

\* One page of TRA_get_inventory.
LEMMA ReadPage ==
  ASSUME Holds, NEW i \in Numbers, tra[i] \in Transaction, tra[i].pc \in {"inventory", "copy", "fill", "cache"},
         NEW p \in Procs, p = tra[i].proc,
         cache' = [cache EXCEPT ![p] = Updated(p, tra[i].local.next, tip)], tip' = tip, swept' = swept
  PROVE  /\ Settles /\ \A q \in Procs : CacheStep(q)
         /\ \A n \in Numbers : Page(n) < tra[i].local.next + 1 => Done(n)' \/ Has(p, n)'
<1>1. LoadOf(i) /\ ReadsOf(i) /\ header.nt \in 0..MaxTra
  BY ItsTruth
<1>2. PICK s \in Nat : s = tra[i].local.next
  BY TypedTra
<1>3. PICK N \in 0..MaxTra : N = header.nt
  BY <1>1
<1>4. s <= Page(N)
  <2>1. tra[i].local.last \in Nat /\ Page(N) \in Nat
    BY TypedTra, PageEnd
  <2> QED
    BY <1>1, <1>2, <1>3, <2>1 DEF LoadOf
<1>5. PICK k \in 0..MaxTra : Page(k) = s
  BY <1>4, PageFirst
<1>6. Settles /\ tip' \in Inventory
  BY DEF Settles, Holds, OwnInv, TypeInv
<1>7. \A n \in Numbers : Page(n) < s => Done(n) \/ Has(p, n)
  BY <1>1, <1>2 DEF ReadsOf
<1>8. Empty(p) => \A n \in Numbers : Page(n) < Page(k) => Done(n)
  BY <1>5, <1>7, NumberIn DEF Empty
<1>9. cache' = [cache EXCEPT ![p] = Updated(p, Page(k), tip')]
  BY <1>2, <1>5
<1>10. (\A q \in Procs : CacheStep(q)) /\ \A m \in 0..MaxTra : Page(m) = Page(k) => Has(p, m)'
  BY <1>6, <1>8, <1>9, UpdatedStep
<1>11. ASSUME NEW n \in Numbers, Page(n) < s + 1 PROVE Done(n)' \/ Has(p, n)'
  <2>1. n \in 0..MaxTra /\ Page(n) \in Nat
    BY NumberIn, PageEnd
  <2>2. CASE Page(n) = s
    BY <1>5, <1>10, <2>1, <2>2
  <2>3. CASE Page(n) < s
    BY <1>6, <1>7, <1>10, <2>3, DoneStays DEF CacheStep
  <2> QED
    BY <1>11, <2>1, <2>2, <2>3
<1> QED
  BY <1>2, <1>6, <1>10, <1>11

LEMMA CopyTrue ==
  ASSUME Holds, NEW i \in Numbers, Copy(i)
  PROVE  Settles /\ TrueInv'
<1> DEFINE pc == IF tra[i].local.next < tra[i].local.last THEN "copy" ELSE "scan"
<1>1. /\ tra[i].pc \in {"inventory", "copy"} /\ Goes(i, pc)
      /\ KeepsNumbers(i) /\ KeepsLimits(i) /\ KeepsSweep(i)
      /\ tra'[i].local.next = tra[i].local.next + 1
      /\ \A n \in 0..MaxTra : tra'[i].transactions[n] \in {tip[n], tra[i].transactions[n]}
      /\ cache' = [cache EXCEPT ![tra[i].proc] = Updated(tra[i].proc, tra[i].local.next, tip)]
      /\ UNCHANGED <<header, tip, lock, dbb, swept>>
  BY CopyEffect DEF Holds, OwnInv
<1>2. tra[i] \in Transaction /\ pc \in {"copy", "scan"}
  BY <1>1 DEF Goes
<1> HIDE DEF pc
<1>3. Live(i) /\ KnowsOf(i) /\ ReadsOf(i)
  BY <1>2, ItsTruth
<1>4. PICK p \in Procs : p = tra[i].proc /\ p = tra'[i].proc
  BY <1>1, <1>2, TypedTra DEF Goes
<1>5. /\ Settles /\ \A q \in Procs : CacheStep(q)
      /\ \A n \in Numbers : Page(n) < tra[i].local.next + 1 => Done(n)' \/ Has(p, n)'
  BY <1>1, <1>2, <1>4, ReadPage
<1>6. ViewTrue(i)
  <2> SUFFICES ASSUME NEW n \in Numbers
      PROVE  /\ tra'[i].transactions[n] = "committed" => Done(n)'
             /\ tra'[i].transactions[n] # "active" => Final(n)'
    BY DEF ViewTrue
  <2>1. tra'[i].transactions[n] \in {tip[n], tra[i].transactions[n]}
    BY <1>1, NumberIn
  <2>2. CASE tra'[i].transactions[n] = tip[n]
    BY <1>1, <2>2 DEF Done, Final
  <2>3. CASE tra'[i].transactions[n] = tra[i].transactions[n]
    BY <1>3, <1>5, <2>3, DoneStays DEF KnowsOf
  <2> QED
    BY <2>1, <2>2, <2>3
<1>7. KnowsOf(i)'
  BY <1>1, <1>2, <1>3, <1>5, <1>6, KnowsSame DEF Looking
<1>8. ReadsOf(i)'
  <2>1. \A n \in tra'[i].local.marked : tip'[n] = "dead"
    BY <1>1, <1>3 DEF ReadsOf, KeepsSweep
  <2>2. \A n \in Numbers : Page(n) < tra'[i].local.next => Done(n)' \/ Has(p, n)'
    BY <1>1, <1>5
  <2>3. tra'[i].pc \in {"copy", "scan"}
    BY <1>1, <1>2 DEF Goes
  <2> QED
    BY <1>4, <2>1, <2>2, <2>3 DEF ReadsOf, Page
<1> QED
  BY <1>1, <1>5, <1>7, <1>8, MoveTrue

LEMMA FillTrue ==
  ASSUME Holds, NEW i \in Numbers, Fill(i)
  PROVE  Settles /\ TrueInv'
<1> DEFINE pc == IF tra[i].local.next < tra[i].local.last THEN "cache" ELSE "trim"
<1>1. /\ tra[i].pc \in {"fill", "cache"} /\ Goes(i, pc)
      /\ KeepsNumbers(i) /\ KeepsLimits(i) /\ KeepsSweep(i) /\ KeepsView(i)
      /\ tra'[i].local.next = tra[i].local.next + 1 /\ tra'[i].local.trim = tra[i].local.trim
      /\ cache' = [cache EXCEPT ![tra[i].proc] = Updated(tra[i].proc, tra[i].local.next, tip)]
      /\ UNCHANGED <<header, tip, lock, dbb, swept>>
  BY FillEffect DEF Holds, OwnInv
<1>2. tra[i] \in Transaction /\ pc \in {"cache", "trim"}
  BY <1>1 DEF Goes
<1> HIDE DEF pc
<1>3. Live(i) /\ KnowsOf(i) /\ ReadsOf(i)
  BY <1>2, ItsTruth
<1>4. PICK p \in Procs : p = tra[i].proc /\ p = tra'[i].proc
  BY <1>1, <1>2, TypedTra DEF Goes
<1>5. /\ Settles /\ \A q \in Procs : CacheStep(q)
      /\ \A n \in Numbers : Page(n) < tra[i].local.next + 1 => Done(n)' \/ Has(p, n)'
  BY <1>1, <1>2, <1>4, ReadPage
<1>6. ViewTrue(i)
  BY <1>1, <1>3, <1>5, ViewSame
<1>7. KnowsOf(i)'
  BY <1>1, <1>2, <1>3, <1>5, <1>6, KnowsSame DEF Looking
<1>8. ReadsOf(i)'
  <2>1. \A n \in tra'[i].local.marked : tip'[n] = "dead"
    BY <1>1, <1>3 DEF ReadsOf, KeepsSweep
  <2>2. \A n \in Numbers : Page(n) < tra'[i].local.next => Done(n)' \/ Has(p, n)'
    BY <1>1, <1>5
  <2>3. tra'[i].pc \in {"cache", "trim"} /\ tra'[i].local.trim <= header'.oit
    BY <1>1, <1>2, <1>3 DEF Goes, ReadsOf
  <2> QED
    BY <1>4, <2>1, <2>2, <2>3 DEF ReadsOf, Page
<1> QED
  BY <1>1, <1>5, <1>7, <1>8, MoveTrue

LEMMA TrimTrue ==
  ASSUME Holds, NEW i \in Numbers, Trim(i)
  PROVE  Settles /\ TrueInv'
<1>1. /\ tra[i].pc = "trim" /\ Goes(i, "scan")
      /\ KeepsNumbers(i) /\ KeepsPages(i) /\ KeepsLimits(i) /\ KeepsSweep(i) /\ KeepsView(i)
      /\ cache' = [cache EXCEPT ![tra[i].proc] = [n \in 0..MaxTra |->
           IF (Page(n) + 1) * TransPerTip < tra[i].local.trim THEN "none" ELSE cache[tra[i].proc][n]]]
      /\ UNCHANGED <<header, tip, lock, dbb, swept>>
  BY TrimEffect DEF Holds, OwnInv
<1>2. tra[i] \in Transaction
  BY <1>1 DEF Goes
<1>3. Live(i) /\ KnowsOf(i) /\ ReadsOf(i) /\ LoadOf(i) /\ header.oit \in Nat
  BY <1>2, ItsTruth
<1>4. PICK p \in Procs : p = tra[i].proc
  BY <1>2, TypedTra
<1>5. PICK d \in Nat : d = tra[i].local.trim
  BY <1>2, TypedTra
<1>6. Reach(p, d) /\ d <= header.oit
  BY <1>1, <1>3, <1>4, <1>5 DEF LoadOf, ReadsOf
<1>7. AllDone(d)
  <2>1. \A n \in Numbers : n < header.oit => Done(n)
    BY DEF Holds, TrueInv, BoundsInv, AllDone
  <2> QED
    BY <1>3, <1>6, <2>1, NumberIn DEF AllDone
<1>8. Settles /\ \A q \in Procs : CacheStep(q)
  BY <1>1, <1>4, <1>5, <1>6, <1>7, TrimStep
<1>9. ViewTrue(i)
  BY <1>1, <1>3, <1>8, ViewSame
<1>10. KnowsOf(i)'
  BY <1>1, <1>3, <1>8, <1>9, KnowsSame DEF Looking
<1>11. ReadsOf(i)'
  BY <1>1, <1>3, <1>8, ReadsGo DEF KeepsSweep
<1> QED
  BY <1>1, <1>8, <1>10, <1>11, MoveTrue

LEMMA ExtendTrue ==
  ASSUME Holds, NEW i \in Numbers, Extend(i)
  PROVE  Settles /\ TrueInv'
<1>0. TypeInv /\ Settles /\ \A q \in Procs : CacheStep(q)
  BY Quiet DEF Extend, pages, Holds, OwnInv
<1>1. CASE ~Empty(tra[i].proc) /\ tra[i].top < (BackPage(tra[i].proc) + 1) * TransPerTip
  <2>1. /\ tra[i].pc = "extend" /\ Goes(i, "scan")
        /\ KeepsNumbers(i) /\ KeepsPages(i) /\ KeepsLimits(i) /\ KeepsSweep(i) /\ KeepsView(i)
        /\ UNCHANGED <<header, tip, lock, dbb, cache, swept>>
    BY <1>0, <1>1, ExtendSkips
  <2>2. tra[i] \in Transaction
    BY <2>1 DEF Goes
  <2>3. Live(i)
    BY <2>2, ItsTruth
  <2>4. ViewTrue(i)
    BY <1>0, <2>1, <2>3, ViewSame
  <2>5. KnowsOf(i)'
    BY <1>0, <2>1, <2>3, <2>4, KnowsSame DEF Looking
  <2>6. ReadsOf(i)'
    BY <1>0, <2>1, <2>3, ReadsGo DEF KeepsSweep
  <2> QED
    BY <1>0, <2>1, <2>5, <2>6, MoveTrue
<1>2. CASE Empty(tra[i].proc) \/ ~(tra[i].top < (BackPage(tra[i].proc) + 1) * TransPerTip)
  <2>1. /\ tra[i].pc = "extend" /\ Goes(i, "fill")
        /\ KeepsNumbers(i) /\ KeepsLimits(i) /\ KeepsSweep(i) /\ KeepsView(i)
        /\ tra'[i].local.next = Page(Most(ReadFrom(tra[i].proc), header.oit))
        /\ tra'[i].local.trim = header.oit
        /\ UNCHANGED <<header, tip, lock, dbb, cache, swept>>
    BY <1>0, <1>2, ExtendReads
  <2>2. tra[i] \in Transaction
    BY <2>1 DEF Goes
  <2>3. Live(i) /\ ReadsOf(i) /\ header.oit \in Nat
    BY <2>2, ItsTruth
  <2>4. ViewTrue(i)
    BY <1>0, <2>1, <2>3, ViewSame
  <2>5. KnowsOf(i)'
    BY <1>0, <2>1, <2>3, <2>4, KnowsSame DEF Looking
  <2>6. PICK p \in Procs : p = tra[i].proc /\ p = tra'[i].proc
    BY <2>1, <2>2, TypedTra DEF Goes
  <2>7. PICK o \in Nat, r \in Nat : o = header.oit /\ r = ReadFrom(p)
    BY <1>0, <2>3, FrontTypes
  <2>8. PICK f \in Nat : f = Most(r, o) /\ f \in {r, o}
    BY LeastNat DEF Most
  <2>9. ASSUME NEW n \in Numbers, Page(n) < Page(f) PROVE Done(n)' \/ Has(p, n)'
    <3>1. n \in 0..MaxTra /\ n \in Nat /\ n < f /\ Page(n) \in Nat /\ Page(n) * TransPerTip <= n
      BY <2>9, NumberIn, PageLess, PageEnd, PageIs
    <3>2. Done(n) \/ Has(p, n)
      <4>1. CASE f = o
        BY <2>7, <3>1, <4>1 DEF Holds, TrueInv, BoundsInv, AllDone
      <4>2. CASE f = r /\ Empty(p)
        BY <2>7, <3>1, <4>2 DEF ReadFrom
      <4>3. CASE f = r /\ ~Empty(p)
        <5>1. PICK b \in 0..MaxTra : Has(p, b) /\ BackPage(p) = Page(b)
          BY <4>3, BackIs, CachedIs
        <5>2. n < (Page(b) + 1) * TransPerTip
          BY <2>7, <3>1, <4>3, <5>1 DEF ReadFrom
        <5>3. Reach(p, n)
          BY <5>1, <5>2, PageEnd DEF Reach
        <5> QED
          BY <5>3, ReachedIn
      <4> QED
        BY <2>8, <4>1, <4>2, <4>3
    <3> QED
      BY <1>0, <3>2, DoneStays DEF CacheStep
  <2>10. ReadsOf(i)'
    <3>1. \A n \in tra'[i].local.marked : tip'[n] = "dead"
      BY <2>1, <2>3 DEF ReadsOf, KeepsSweep
    <3>2. \A n \in Numbers : Page(n) < tra'[i].local.next => Done(n)' \/ Has(p, n)'
      BY <2>1, <2>6, <2>7, <2>8, <2>9
    <3>3. tra'[i].pc = "fill" /\ tra'[i].local.trim <= header'.oit
      BY <2>1, <2>3 DEF Goes
    <3> QED
      BY <2>6, <3>1, <3>2, <3>3 DEF ReadsOf, Page
  <2> QED
    BY <1>0, <2>1, <2>5, <2>10, MoveTrue
<1> QED
  BY <1>1, <1>2

\* What the loop over the active transactions passes over is final.
LEMMA NextPasses ==
  ASSUME Holds, NEW i \in Numbers, tra[i] \in Transaction, tra[i].pc = "scan", NEW n \in NextActive(tra[i])
  PROVE  n \in Nat /\ n <= i /\ \A m \in Numbers : m < n => Final(m)
<1>1. FitOf(i) /\ LoadOf(i) /\ KnowsOf(i) /\ i \in Nat /\ i <= MaxTra
  BY ItsTruth
<1>2. PICK p \in Procs : p = tra[i].proc
  BY TypedTra
<1>3. PICK a \in Nat : a = tra[i].local.active
  BY TypedTra
<1>4. tra[i].top = i /\ ~Empty(p) /\ Reach(p, i) /\ AllFinal(a)
  BY <1>1, <1>2, <1>3 DEF FitOf, LoadOf, KnowsOf, Looking
<1>5. n \in Nat /\ n <= i
  BY <1>1, <1>2, <1>3, <1>4, NextActiveRange
<1>6. ASSUME NEW m \in Numbers, m < n PROVE Final(m)
  <2>1. m \in Nat /\ m \in 0..MaxTra
    BY NumberIn
  <2>2. CASE m < a
    BY <1>4, <2>2 DEF AllFinal
  <2>3. CASE a <= m /\ tra[i].kind = "snapshot"
    <3>1. n \in Earliest({k \in a..(i - 1) : tra[i].transactions[k] = "active"}, i)
      BY <1>3, <1>4, <2>3 DEF NextActive
    <3>2. m \in a..(i - 1)
      BY <1>1, <1>5, <1>6, <2>1, <2>3
    <3>3. tra[i].transactions[m] # "active"
      <4> SUFFICES ASSUME tra[i].transactions[m] = "active" PROVE FALSE
        OBVIOUS
      <4>1. n <= m
        BY <3>1, <3>2 DEF Earliest
      <4> QED
        BY <1>5, <1>6, <2>1, <4>1
    <3> QED
      BY <1>1, <3>3 DEF KnowsOf
  <2>4. CASE a <= m /\ tra[i].kind # "snapshot"
    <3>1. n \in Find(p, a, i, {"active"})
      BY <1>2, <1>3, <1>4, <2>4 DEF NextActive
    <3>2. Done(m) \/ (Has(p, m) /\ cache[p][m] \notin {"active"})
      BY <1>1, <1>4, <1>6, <2>4, <3>1, FindPasses
    <3>3. CASE Done(m)
      BY <3>3, DoneFinal DEF Holds
    <3>4. CASE Has(p, m) /\ cache[p][m] \notin {"active"}
      <4>1. cache[p] \in [0..MaxTra -> Stored]
        BY DEF Holds, OwnInv, TypeInv
      <4>2. cache[p][m] \in {"committed", "dead"}
        BY <2>1, <3>4, <4>1 DEF Has, Stored, States
      <4>3. tip[m] = cache[p][m]
        BY <2>1, <4>2 DEF Holds, TrueInv, PagesInv, PagesOf, Sound
      <4> QED
        BY <4>2, <4>3 DEF Final
    <3> QED
      BY <3>2, <3>3, <3>4
  <2> QED
    BY <1>3, <2>1, <2>2, <2>3, <2>4
<1> QED
  BY <1>5, <1>6

\* What is passed over from the oldest transaction on is done.
LEMMA InterestingPasses ==
  ASSUME Holds, NEW i \in Numbers, tra[i] \in Transaction, tra[i].pc = "publish", NEW n \in Interesting(tra[i])
  PROVE  n \in Nat /\ n <= i /\ \A m \in Numbers : m < n => Done(m)
<1>1. FitOf(i) /\ LoadOf(i) /\ KnowsOf(i) /\ i \in Nat /\ i <= MaxTra
  BY ItsTruth
<1>2. PICK p \in Procs : p = tra[i].proc
  BY TypedTra
<1>3. PICK a \in Nat : a = tra[i].oldest
  BY TypedTra
<1>4. tra[i].top = i /\ ~Empty(p) /\ Reach(p, i) /\ AllDone(a)
  BY <1>1, <1>2, <1>3 DEF FitOf, LoadOf, KnowsOf
<1>5. n \in Nat /\ n <= i
  BY <1>1, <1>2, <1>3, <1>4, InterestingRange
<1>6. ASSUME NEW m \in Numbers, m < n PROVE Done(m)
  <2>1. m \in Nat /\ m \in 0..MaxTra
    BY NumberIn
  <2>2. CASE m < a
    BY <1>4, <2>2 DEF AllDone
  <2>3. CASE a <= m /\ tra[i].kind = "snapshot"
    <3>1. n \in Earliest({k \in a..(i - 1) : tra[i].transactions[k] # "committed"}, i)
      BY <1>3, <1>4, <2>3 DEF Interesting
    <3>2. m \in a..(i - 1)
      BY <1>1, <1>5, <1>6, <2>1, <2>3
    <3>3. tra[i].transactions[m] = "committed"
      <4> SUFFICES ASSUME tra[i].transactions[m] # "committed" PROVE FALSE
        OBVIOUS
      <4>1. n <= m
        BY <3>1, <3>2 DEF Earliest
      <4> QED
        BY <1>5, <1>6, <2>1, <4>1
    <3> QED
      BY <1>1, <3>3 DEF KnowsOf
  <2>4. CASE a <= m /\ tra[i].kind # "snapshot"
    <3>1. n \in Find(p, a, i, {"active", "dead"})
      BY <1>2, <1>3, <1>4, <2>4 DEF Interesting
    <3>2. Done(m) \/ (Has(p, m) /\ cache[p][m] \notin {"active", "dead"})
      BY <1>1, <1>4, <1>6, <2>4, <3>1, FindPasses
    <3>3. Has(p, m) /\ cache[p][m] \notin {"active", "dead"} => cache[p][m] = "committed"
      <4>1. cache[p] \in [0..MaxTra -> Stored]
        BY DEF Holds, OwnInv, TypeInv
      <4> QED
        BY <2>1, <4>1 DEF Has, Stored, States
    <3>4. cache[p][m] = "committed" => tip[m] = "committed"
      BY <2>1 DEF Holds, TrueInv, PagesInv, PagesOf, Sound
    <3> QED
      BY <3>2, <3>3, <3>4 DEF Done
  <2> QED
    BY <1>3, <2>1, <2>2, <2>3, <2>4
<1> QED
  BY <1>5, <1>6

LEMMA ScanTrue ==
  ASSUME Holds, NEW i \in Numbers, Scan(i)
  PROVE  Settles /\ TrueInv'
<1>1. PICK n \in NextActive(tra[i]) : ScanTo(i, n)
  BY ScanIs
<1>2. tra[i] \in Transaction /\ tra[i].pc = "scan" /\ TypeInv
  BY <1>1, LiveIs DEF ScanTo, At, Holds, OwnInv
<1>3. /\ Live(i) /\ KnowsOf(i) /\ ReadsOf(i) /\ tra[i].top = i /\ i \in Nat /\ tra[i].local.active > 0
      /\ ~Empty(tra[i].proc) /\ i <= MaxTra
  BY <1>2, ItsTruth DEF FitOf, LoadOf, Starting, Looking
<1>4. n \in Nat /\ n <= i /\ \A m \in Numbers : m < n => Final(m)
  BY <1>2, NextPasses
<1>5. UNCHANGED <<header, tip, lock, dbb, cache, swept>>
  BY <1>1 DEF ScanTo
<1>6. Settles /\ \A q \in Procs : CacheStep(q)
  BY <1>5, Quiet
<1>7. \A m \in Numbers : Final(m) => Final(m)'
  BY <1>6, DoneStays
<1>8. /\ tra[i].local.oat = i /\ tra[i].oldest_active = i
      /\ \A m \in Numbers : m < tra[i].local.active => Final(m)
  BY <1>2, <1>3 DEF KnowsOf, Looking, AllFinal
<1>9. CASE n = i
  <2>1. /\ Goes(i, "publish")
        /\ KeepsNumbers(i) /\ KeepsPages(i) /\ KeepsLimits(i) /\ KeepsSweep(i) /\ KeepsView(i)
    BY <1>1, <1>2, <1>3, <1>4, <1>9, ScanPublish
  <2>2. ViewTrue(i)
    BY <1>3, <1>6, <2>1, ViewSame
  <2>3. \A m \in Numbers : m < i => Final(m)'
    BY <1>4, <1>7, <1>9
  <2>4. tra'[i].local.oat = i /\ tra'[i].oldest_active = i
    BY <1>8, <2>1 DEF KeepsLimits
  <2>5. KnowsOf(i)'
    BY <1>3, <1>6, <2>1, <2>2, <2>3, <2>4, KnowsGo DEF Looking
  <2>6. ReadsOf(i)'
    BY <1>3, <1>6, <2>1, ReadsGo DEF KeepsSweep
  <2> QED
    BY <1>5, <1>6, <2>1, <2>5, <2>6, MoveTrue
<1>10. CASE n # i
  <2>0. n \in Numbers
    <3>1. n = tra[i].top \/ (tra[i].local.active <= n /\ n < tra[i].top)
      BY <1>2, <1>3, NextActiveRange
    <3>2. tra[i].local.active \in Nat /\ MaxTra \in Nat
      BY <1>2, TypedTra, TransactionsAssumption
    <3> QED
      BY <1>3, <1>4, <1>10, <3>1, <3>2 DEF Numbers
  <2>1. CASE lock[n] = 0 /\ tra[i].local.cleanup
    <3>1. /\ Goes(i, "settle")
          /\ KeepsNumbers(i) /\ KeepsPages(i) /\ KeepsSweep(i) /\ KeepsView(i)
          /\ tra'[i].local.active = n /\ tra'[i].local.oat = tra[i].local.oat
          /\ tra'[i].oldest_active = tra[i].oldest_active
      BY <1>1, <1>2, <1>3, <1>4, <1>10, <2>1, ScanSettle
    <3>2. ViewTrue(i)
      BY <1>3, <1>6, <3>1, ViewSame
    <3>3. \A m \in Numbers : m < n => Final(m)'
      BY <1>4, <1>7
    <3>4. tra'[i].local.oat = i /\ tra'[i].oldest_active = i
      BY <1>8, <3>1
    <3>5. KnowsOf(i)'
      BY <1>3, <1>6, <3>1, <3>2, <3>3, <3>4, KnowsGo DEF Looking
    <3>6. ReadsOf(i)'
      BY <1>3, <1>6, <3>1, ReadsGo DEF KeepsSweep
    <3> QED
      BY <1>5, <1>6, <3>1, <3>5, <3>6, MoveTrue
  <2>2. CASE ~(lock[n] = 0 /\ tra[i].local.cleanup)
    <3> DEFINE data == IF n < tra[i].top /\ lock[n] # 0 THEN lock[n] ELSE n
               pc == IF Least(tra[i].oldest_active, data) = tra[i].local.ost THEN "publish" ELSE "query"
    <3>1. /\ Goes(i, pc)
          /\ KeepsNumbers(i) /\ KeepsPages(i) /\ KeepsSweep(i) /\ KeepsView(i)
          /\ tra'[i].local.oat = Least(tra[i].local.oat, n)
          /\ tra'[i].oldest_active = Least(tra[i].oldest_active, data)
      BY <1>1, <1>2, <1>3, <1>10, <2>0, <2>2, ScanQuery
    <3>2. pc \in {"publish", "query"}
      OBVIOUS
    <3>3. data \in Nat /\ data <= n
      <4>1. lock[n] \in Nat /\ lock[n] <= n
        BY <1>2, <2>0, LockNat DEF Holds, TrueInv, BoundsInv
      <4> QED
        BY <1>4, <4>1
    <3> HIDE DEF pc, data
    <3>4. ViewTrue(i)
      BY <1>3, <1>6, <3>1, ViewSame
    <3>5. tra'[i].local.oat \in Nat /\ tra'[i].local.oat <= n /\ tra'[i].oldest_active \in Nat /\ tra'[i].oldest_active <= n
      BY <1>3, <1>4, <1>8, <3>1, <3>3 DEF Least
    <3>6. \A m \in Numbers : m < n => Final(m)'
      BY <1>4, <1>7
    <3>7. /\ tra'[i].local.oat <= i
          /\ \A m \in Numbers : m < tra'[i].local.oat => Final(m)'
          /\ \A m \in Numbers : m < tra'[i].oldest_active => Final(m)'
      BY <1>3, <1>4, <3>5, <3>6, NumberIn
    <3>8. KnowsOf(i)'
      BY <1>3, <1>6, <3>1, <3>2, <3>4, <3>7, KnowsGo DEF Looking
    <3>9. ReadsOf(i)'
      BY <1>3, <1>6, <3>1, <3>2, ReadsGo DEF KeepsSweep
    <3> QED
      BY <1>5, <1>6, <3>1, <3>8, <3>9, MoveTrue
  <2> QED
    BY <2>1, <2>2
<1> QED
  BY <1>9, <1>10

LEMMA CleanTrue ==
  ASSUME Holds, NEW i \in Numbers, Clean(i)
  PROVE  Settles /\ TrueInv'
<1>1. tra[i] \in Transaction /\ tra[i].pc = "settle" /\ TypeInv
  BY LiveIs DEF Clean, At, Holds, OwnInv
<1>2. Live(i) /\ KnowsOf(i) /\ ReadsOf(i) /\ LockOf(i) /\ LoadOf(i)
  BY <1>1, ItsTruth
<1>3. PICK a \in Numbers : a = tra[i].local.active /\ lock[a] = 0
  BY <1>1, <1>2 DEF LockOf, At
<1>4. PICK p \in Procs : p = tra[i].proc
  BY <1>1, TypedTra
<1>5. /\ Goes(i, "scan") /\ KeepsNumbers(i) /\ KeepsPages(i) /\ KeepsSweep(i)
      /\ tra'[i].local.active = a + 1 /\ tra'[i].local.oat = tra[i].local.oat
      /\ tra'[i].oldest_active = tra[i].oldest_active
      /\ \A m \in 0..MaxTra : tra'[i].transactions[m] =
           IF m = a /\ tra[i].kind = "snapshot" THEN Settled(GetState(p, a)) ELSE tra[i].transactions[m]
      /\ Readable(p, a) /\ Settle(i, a, GetState(p, a))
      /\ UNCHANGED <<header, lock, dbb, swept>>
  <2>1. a \in 0..MaxTra
    BY NumberIn
  <2> QED
    BY <1>1, <1>3, <1>4, <2>1, CleanEffect
<1>6. ~Empty(p)
  BY <1>1, <1>2, <1>4 DEF LoadOf
<1>7. /\ Settles /\ \A q \in Procs : CacheStep(q)
      /\ Settled(GetState(p, a)) = "committed" => Done(a)'
      /\ Final(a)'
  BY <1>2, <1>3, <1>4, <1>5, <1>6, SettleStep
<1>8. ViewTrue(i)
  BY <1>2, <1>5, <1>7, DoneStays, NumberIn DEF ViewTrue, KnowsOf
<1>9. /\ tra'[i].local.oat = i /\ tra'[i].oldest_active = i
      /\ \A m \in Numbers : m < tra'[i].local.active => Final(m)'
  <2>1. /\ tra[i].local.oat = i /\ tra[i].oldest_active = i
        /\ \A m \in Numbers : m < a => Final(m)
    BY <1>1, <1>2, <1>3 DEF KnowsOf, Looking, AllFinal
  <2>2. \A m \in Numbers : m < a + 1 => m < a \/ m = a
    BY NumberIn
  <2>3. \A m \in Numbers : Final(m) => Final(m)'
    BY <1>7, DoneStays
  <2>4. \A m \in Numbers : m = a => Final(m)'
    BY <1>7
  <2>5. \A m \in Numbers : m < tra'[i].local.active => Final(m)'
    BY <1>5, <2>1, <2>2, <2>3, <2>4
  <2> QED
    BY <1>5, <2>1, <2>5
<1>10. KnowsOf(i)'
  BY <1>2, <1>5, <1>7, <1>8, <1>9, KnowsGo DEF Looking
<1>11. ReadsOf(i)'
  BY <1>2, <1>5, <1>7, ReadsGo DEF KeepsSweep
<1> QED
  BY <1>5, <1>7, <1>10, <1>11, MoveTrue

LEMMA QueryTrue ==
  ASSUME Holds, NEW i \in Numbers, Query(i)
  PROVE  Settles /\ TrueInv'
<1>1. tra[i] \in Transaction /\ tra[i].pc = "query" /\ TypeInv
  BY LiveIs DEF Query, At, Holds, OwnInv
<1>2. Live(i) /\ KnowsOf(i) /\ ReadsOf(i) /\ LockOf(i) /\ tra[i].number \in Numbers
  BY <1>1, ItsTruth
<1>3. lock[tra[i].number] # 0
  <2>1. tra[i].number # 0
    BY <1>2, NumberIn
  <2> QED
    BY <1>1, <1>2, <2>1 DEF LockOf, SweepsOn, Owns
<1>4. /\ Goes(i, "publish")
      /\ KeepsNumbers(i) /\ KeepsPages(i) /\ KeepsSweep(i) /\ KeepsView(i)
      /\ tra'[i].local.oat = tra[i].local.oat
      /\ tra'[i].oldest_active = Least(tra[i].oldest_active, OldestData)
      /\ UNCHANGED <<header, tip, lock, dbb, cache, swept>>
  BY <1>1, <1>2, <1>3, QueryEffect
<1>5. Settles /\ \A q \in Procs : CacheStep(q)
  BY <1>4, Quiet
<1>6. ViewTrue(i)
  BY <1>2, <1>4, <1>5, ViewSame
<1>7. \A m \in Numbers : Final(m) => Final(m)'
  BY <1>5, DoneStays
<1>8. /\ tra[i].local.oat <= i
      /\ \A m \in Numbers : m < tra[i].local.oat => Final(m)
      /\ \A m \in Numbers : m < tra[i].oldest_active => Final(m)
  BY <1>1, <1>2 DEF KnowsOf, AllFinal, Looking
<1>9. \A m \in Numbers : m < tra'[i].oldest_active => Final(m)'
  <2>1. tra[i].oldest_active \in Nat /\ OldestData \in Nat
    BY <1>1, <1>2, <1>3, TypedTra, DataMin
  <2>2. tra'[i].oldest_active \in Nat /\ tra'[i].oldest_active <= tra[i].oldest_active
    BY <1>4, <2>1 DEF Least
  <2> QED
    BY <1>7, <1>8, <2>1, <2>2, NumberIn
<1>10. tra'[i].local.oat <= i /\ \A m \in Numbers : m < tra'[i].local.oat => Final(m)'
  BY <1>4, <1>7, <1>8
<1>11. KnowsOf(i)'
  BY <1>2, <1>4, <1>5, <1>6, <1>9, <1>10, KnowsGo DEF Looking
<1>12. ReadsOf(i)'
  BY <1>2, <1>4, <1>5, ReadsGo DEF KeepsSweep
<1> QED
  BY <1>4, <1>5, <1>11, <1>12, MoveTrue

LEMMA PublishTrue ==
  ASSUME Holds, NEW i \in Numbers, Publish(i)
  PROVE  Settles /\ TrueInv'
<1>1. tra[i] \in Transaction /\ tra[i].pc = "publish" /\ TypeInv
  BY LiveIs DEF Publish, At, Holds, OwnInv
<1>2. Live(i) /\ KnowsOf(i) /\ ReadsOf(i) /\ FitOf(i) /\ i \in Nat /\ header.oit \in Nat
  BY <1>1, ItsTruth
<1> DEFINE pc == IF tra[i].kind = "sweep" THEN "precommit" ELSE "running"
<1>3. /\ Goes(i, pc) /\ KeepsView(i)
      /\ tra'[i].oldest_active = tra[i].oldest_active /\ tra'[i].local.marked = {}
      /\ lock' = [lock EXCEPT ![tra[i].number] = LockData(tra[i])]
      /\ \E oldest \in Interesting(tra[i]) : dbb' = [dbb EXCEPT ![tra[i].proc] = Raised(dbb[tra[i].proc], tra[i], oldest)]
      /\ UNCHANGED <<header, tip, cache, swept>>
  BY <1>1, PublishEffect
<1>4. pc \in {"precommit", "running"}
  OBVIOUS
<1> HIDE DEF pc
<1>5. Settles /\ \A q \in Procs : CacheStep(q)
  BY <1>3, Quiet
<1>6. \A m \in Numbers : (Final(m) => Final(m)') /\ (Done(m) => Done(m)')
  BY <1>5, DoneStays
<1>7. /\ tra[i].local.oat \in Nat /\ tra[i].local.oat <= i /\ tra[i].number = i
      /\ \A m \in Numbers : m < tra[i].local.oat => Final(m)
      /\ \A m \in Numbers : m < tra[i].oldest_active => Final(m)
  BY <1>1, <1>2, TypedTra DEF KnowsOf, AllFinal, Looking, FitOf, Starting
<1>8. PICK p \in Procs, r \in Interesting(tra[i]) :
        p = tra[i].proc /\ dbb' = [dbb EXCEPT ![p] = Raised(dbb[p], tra[i], r)]
  BY <1>1, <1>3, TypedTra
<1>9. r \in Nat /\ \A m \in Numbers : m < r => Done(m)
  BY <1>1, InterestingPasses
<1>10. BoundsInv'
  <2>1. BoundsInv
    BY DEF Holds, TrueInv
  <2>2. ASSUME NEW n \in Numbers PROVE lock'[n] <= n
    <3>1. LockData(tra[i]) <= i
      BY <1>2, <1>7 DEF LockData
    <3>2. lock'[n] = IF n = i THEN LockData(tra[i]) ELSE lock[n]
      BY <1>1, <1>3, <1>7 DEF TypeInv
    <3> QED
      BY <2>1, <3>1, <3>2 DEF BoundsInv
  <2>3. ASSUME NEW q \in Procs, NEW m \in Numbers
        PROVE  (m < dbb'[q].oit => Done(m)') /\ (m < dbb'[q].oat => Final(m)')
    <3>1. dbb[q] \in Limits /\ dbb[q].oit \in Nat /\ dbb[q].oat \in Nat /\ m \in Nat
      BY <1>1, DbbType, NumberIn
    <3>2. (m < dbb[q].oit => Done(m)') /\ (m < dbb[q].oat => Final(m)')
      BY <1>6, <2>1 DEF BoundsInv, AllDone, AllFinal
    <3>3. CASE q # p
      <4>1. dbb'[q] = dbb[q]
        BY <1>1, <1>8, <3>3 DEF TypeInv
      <4> QED
        BY <3>2, <4>1
    <3>4. CASE q = p
      <4>1. dbb'[q].oit = Most(dbb[q].oit, r - 1) /\ dbb'[q].oat = Most(dbb[q].oat, tra[i].local.oat)
        BY <1>1, <1>8, <3>4 DEF TypeInv, Raised
      <4>2. m < r - 1 => m < r
        BY <1>9, <3>1
      <4>3. (m < r - 1 => Done(m)') /\ (m < tra[i].local.oat => Final(m)')
        BY <1>6, <1>7, <1>9, <4>2
      <4> QED
        BY <3>2, <4>1, <4>3 DEF Most
    <3> QED
      BY <3>3, <3>4
  <2>4. \A m \in Numbers : (m < header'.oit => Done(m)') /\ (m < header'.oat => Final(m)')
    BY <1>3, <1>6, <2>1 DEF BoundsInv, AllDone, AllFinal
  <2> QED
    BY <2>2, <2>3, <2>4 DEF BoundsInv, AllDone, AllFinal
<1>11. ViewTrue(i)
  BY <1>2, <1>3, <1>5, ViewSame
<1>12. \A m \in Numbers : m < tra'[i].oldest_active => Final(m)'
  BY <1>3, <1>6, <1>7
<1>13. KnowsOf(i)'
  BY <1>2, <1>3, <1>4, <1>5, <1>11, <1>12, KnowsGo DEF Looking
<1>14. ReadsOf(i)'
  BY <1>2, <1>3, <1>4, <1>5, ReadsGo
<1>15. \A j \in Numbers \ {i} : tra'[j] = tra[j]
  BY <1>3 DEF Goes
<1>16. header'.oit \in Nat /\ header'.oit >= header.oit /\ swept' = swept
  BY <1>2, <1>3
<1> QED
  BY <1>5, <1>10, <1>13, <1>14, <1>15, <1>16, StepTrue

\* A transaction sets its own state.
LEMMA EndsTrue ==
  ASSUME Holds, NEW i \in Numbers, NEW pc \in {"release", "retained"}, Goes(i, pc),
         tra[i].pc \in {"running", "precommit", "retain"}, Unended(i),
         KeepsLimits(i), KeepsSweep(i), KeepsView(i),
         NEW s \in States, SetState(tra[i].proc, tra[i].number, s), UNCHANGED <<header, lock, dbb, swept>>
  PROVE  Settles /\ TrueInv'
<1>1. tra[i] \in Transaction
  BY DEF Goes
<1>2. Live(i) /\ LoadOf(i) /\ ActiveOf(i) /\ tra[i].number \in Numbers
  BY <1>1, ItsTruth
<1>3. PICK p \in Procs : p = tra[i].proc
  BY <1>1, TypedTra
<1>4. PICK n \in Numbers : n = tra[i].number
  BY <1>2
<1>5. ~Empty(p)
  BY <1>2, <1>3 DEF LoadOf
<1>6. tip[n] = "active" /\ SetState(p, n, s)
  BY <1>2, <1>3, <1>4 DEF ActiveOf
<1>7. Settles /\ \A q \in Procs : CacheStep(q)
  BY <1>5, <1>6, SetStateStep
<1>8. ViewTrue(i)
  BY <1>2, <1>7, ViewSame
<1>9. KnowsOf(i)'
  BY <1>2, <1>7, <1>8, KnowsSame DEF Looking
<1>10. ReadsOf(i)'
  BY <1>2, <1>7, ReadsGo DEF KeepsSweep
<1> QED
  BY <1>7, <1>9, <1>10, MoveTrue

LEMMA EndTrue ==
  ASSUME Holds, NEW i \in Numbers, NEW state \in Ends, End(i, state)
  PROVE  Settles /\ TrueInv'
<1>1. /\ tra[i].pc \in {"running", "precommit"} /\ Goes(i, "release")
      /\ KeepsLimits(i) /\ KeepsSweep(i) /\ KeepsView(i)
      /\ tra[i].pc = "running" => tra[i].kind # "sweep"
      /\ SetState(tra[i].proc, tra[i].number, state)
      /\ UNCHANGED <<header, lock, dbb, swept>>
  BY EndEffect DEF Holds, OwnInv
<1>2. Unended(i) /\ state \in States
  BY <1>1, EndsType DEF Unended, SweepsOn
<1> QED
  BY <1>1, <1>2, EndsTrue

LEMMA RetainStateTrue ==
  ASSUME Holds, NEW i \in Numbers, RetainState(i)
  PROVE  Settles /\ TrueInv'
<1>1. /\ tra[i].pc = "retain" /\ Goes(i, "retained")
      /\ KeepsLimits(i) /\ KeepsSweep(i) /\ KeepsView(i)
      /\ SetState(tra[i].proc, tra[i].number, tra[i].local.state)
      /\ UNCHANGED <<header, lock, dbb, swept>>
  BY RetainStateEffect DEF Holds, OwnInv
<1>2. Unended(i)
  BY <1>1 DEF Unended, SweepsOn
<1>3. PICK s \in States : s = tra[i].local.state
  BY <1>1, TypedTra DEF Goes
<1> QED
  BY <1>1, <1>2, <1>3, EndsTrue

LEMMA ReleaseTrue ==
  ASSUME Holds, NEW i \in Numbers, Release(i)
  PROVE  Settles /\ TrueInv'
<1>0. TypeInv
  BY DEF Holds, OwnInv
<1>1. CASE tra[i].kind = "sweep"
  <2>1. /\ tra[i].pc = "release" /\ Goes(i, "running")
        /\ KeepsLimits(i) /\ KeepsSweep(i) /\ KeepsView(i)
        /\ lock' = [lock EXCEPT ![tra[i].number] = 0]
        /\ UNCHANGED <<header, tip, dbb, cache, swept>>
    BY <1>0, <1>1, ReleaseSweep
  <2>2. Settles /\ \A q \in Procs : CacheStep(q)
    BY <2>1, Quiet
  <2>3. Live(i)
    BY <2>1, ItsTruth DEF Goes
  <2>4. ViewTrue(i)
    BY <2>1, <2>2, <2>3, ViewSame
  <2>5. KnowsOf(i)'
    BY <2>1, <2>2, <2>3, <2>4, KnowsSame DEF Looking
  <2>6. ReadsOf(i)'
    BY <2>1, <2>2, <2>3, ReadsGo DEF KeepsSweep
  <2>7. \A n \in Numbers : lock'[n] \in {lock[n], 0}
    BY <1>0, <2>1 DEF TypeInv
  <2> QED
    BY <2>1, <2>2, <2>5, <2>6, <2>7, MoveTrue
<1>2. CASE tra[i].kind # "sweep"
  <2>1. /\ tra' = [tra EXCEPT ![i] = NoTra]
        /\ lock' = [lock EXCEPT ![tra[i].number] = 0]
        /\ UNCHANGED <<header, tip, dbb, cache, swept>>
    BY <1>0, <1>2, ReleaseGone
  <2>2. Settles /\ \A q \in Procs : CacheStep(q)
    BY <2>1, Quiet
  <2>3. \A n \in Numbers : lock'[n] \in {lock[n], 0}
    BY <1>0, <2>1 DEF TypeInv
  <2>4. BoundsInv'
    BY <2>1, <2>2, <2>3, BoundsKept
  <2>5. ~Live(i)' /\ \A j \in Numbers \ {i} : tra'[j] = tra[j]
    BY <1>0, <2>1 DEF TypeInv, Live, At, NoTra
  <2>6. header'.oit \in Nat /\ header'.oit >= header.oit
    BY <1>0, <2>1, HeaderType
  <2> QED
    BY <2>1, <2>2, <2>4, <2>5, <2>6, StepTrue
<1> QED
  BY <1>1, <1>2

LEMMA RetainEndTrue ==
  ASSUME Holds, NEW i \in Numbers, RetainEnd(i)
  PROVE  Settles /\ TrueInv'
<1>0. TypeInv
  BY DEF Holds, OwnInv
<1>1. /\ tra[i].pc = "retained" /\ Goes(i, "running") /\ KeepsView(i)
      /\ tra'[i].oldest_active = tra[i].oldest_active /\ tra'[i].local.marked = {}
      /\ lock' = [lock EXCEPT ![tra[i].number] = 0]
      /\ UNCHANGED <<header, tip, dbb, cache, swept>>
  BY <1>0, RetainEndEffect
<1>2. Settles /\ \A q \in Procs : CacheStep(q)
  BY <1>1, Quiet
<1>3. Live(i) /\ KnowsOf(i)
  BY <1>1, ItsTruth DEF Goes
<1>4. ViewTrue(i)
  BY <1>1, <1>2, <1>3, ViewSame
<1>5. \A n \in Numbers : n < tra'[i].oldest_active => Final(n)'
  BY <1>1, <1>2, <1>3, DoneStays DEF KnowsOf, AllFinal, Looking
<1>6. KnowsOf(i)'
  BY <1>1, <1>2, <1>3, <1>4, <1>5, KnowsGo DEF Looking
<1>7. ReadsOf(i)'
  BY <1>1, <1>2, <1>3, ReadsGo
<1>8. \A n \in Numbers : lock'[n] \in {lock[n], 0}
  BY <1>0, <1>1 DEF TypeInv
<1> QED
  BY <1>1, <1>2, <1>6, <1>7, <1>8, MoveTrue

LEMMA WaitTrue ==
  ASSUME Holds, NEW i \in Numbers, NEW n \in Numbers, Wait(i, n)
  PROVE  Settles /\ TrueInv'
<1>1. /\ tra[i].pc = "running" /\ Goes(i, "running")
      /\ KeepsLimits(i) /\ KeepsSweep(i)
      /\ \A m \in 0..MaxTra : tra'[i].transactions[m] =
           IF m = n /\ GetState(tra[i].proc, n) # "committed" /\ n <= tra[i].top /\ tra[i].kind = "snapshot"
           THEN Settled(GetState(tra[i].proc, n)) ELSE tra[i].transactions[m]
      /\ lock[n] = 0 /\ Readable(tra[i].proc, n) /\ Settle(i, n, GetState(tra[i].proc, n))
      /\ UNCHANGED <<header, lock, dbb, swept>>
  BY WaitEffect DEF Holds, OwnInv
<1>2. tra[i] \in Transaction
  BY <1>1 DEF Goes
<1>3. Live(i) /\ KnowsOf(i) /\ LoadOf(i)
  BY <1>2, ItsTruth
<1>4. PICK p \in Procs : p = tra[i].proc
  BY <1>2, TypedTra
<1>5. ~Empty(p)
  BY <1>1, <1>3, <1>4 DEF LoadOf
<1>6. /\ Settles /\ \A q \in Procs : CacheStep(q)
      /\ Settled(GetState(p, n)) = "committed" => Done(n)'
      /\ Final(n)'
  BY <1>1, <1>3, <1>4, <1>5, SettleStep
<1>7. ViewTrue(i)
  BY <1>1, <1>3, <1>4, <1>6, DoneStays, NumberIn DEF ViewTrue, KnowsOf
<1>8. KnowsOf(i)'
  BY <1>1, <1>3, <1>6, <1>7, KnowsSame DEF Looking
<1>9. ReadsOf(i)'
  BY <1>1, <1>3, <1>6, ReadsGo DEF KeepsSweep
<1> QED
  BY <1>1, <1>6, <1>8, <1>9, MoveTrue

LEMMA SweepTrue ==
  ASSUME Holds, NEW i \in Numbers, Sweep(i)
  PROVE  Settles /\ TrueInv'
<1>1. /\ tra[i].pc = "running" /\ Goes(i, "sweeping")
      /\ KeepsLimits(i) /\ KeepsView(i)
      /\ tra'[i].local.saved = tra[i].oldest_active
      /\ tra'[i].local.marked = {n \in Numbers : tip[n] = "dead"}
      /\ UNCHANGED <<header, tip, lock, dbb, cache, swept>>
  BY SweepEffect DEF Holds, OwnInv
<1>2. Settles /\ \A q \in Procs : CacheStep(q)
  BY <1>1, Quiet
<1>3. Live(i) /\ KnowsOf(i)
  BY <1>1, ItsTruth DEF Goes
<1>4. ViewTrue(i)
  BY <1>1, <1>2, <1>3, ViewSame
<1>5. KnowsOf(i)'
  BY <1>1, <1>2, <1>3, <1>4, KnowsSame DEF Looking
<1>6. ReadsOf(i)'
  <2>1. \A n \in tra'[i].local.marked : tip'[n] = "dead"
    BY <1>1
  <2>2. ASSUME NEW n \in Numbers, n < tra'[i].local.saved PROVE tip'[n] = "committed" \/ n \in tra'[i].local.marked
    <3>1. tip[n] # "active"
      BY <1>1, <1>3, <2>2 DEF KnowsOf, AllFinal, Final, Looking
    <3>2. tip[n] \in States
      BY NumberIn DEF Holds, OwnInv, TypeInv, Inventory
    <3> QED
      BY <1>1, <3>1, <3>2 DEF States
  <2>3. tra'[i].pc = "sweeping"
    BY <1>1 DEF Goes
  <2> QED
    BY <2>1, <2>2, <2>3 DEF ReadsOf
<1> QED
  BY <1>1, <1>2, <1>5, <1>6, MoveTrue

LEMMA SweptTrue ==
  ASSUME Holds, NEW i \in Numbers, Swept(i)
  PROVE  Settles /\ TrueInv'
<1>1. /\ tra[i].pc = "sweeping" /\ Goes(i, "advance")
      /\ KeepsSweep(i) /\ KeepsView(i)
      /\ swept' = swept \union tra[i].local.marked
      /\ UNCHANGED <<header, tip, lock, dbb, cache>>
  BY SweptEffect DEF Holds, OwnInv
<1>2. tra[i] \in Transaction
  BY <1>1 DEF Goes
<1>3. Settles
  BY <1>1 DEF Settles
<1>4. \A q \in Procs : CacheStep(q)
  BY <1>1, <1>3, CacheSame
<1>5. Live(i) /\ KnowsOf(i) /\ ReadsOf(i) /\ header.oit \in Nat
  BY <1>2, ItsTruth
<1>6. ViewTrue(i)
  BY <1>1, <1>3, <1>5, ViewSame
<1>7. KnowsOf(i)'
  BY <1>1, <1>3, <1>5, <1>6, KnowsGo DEF Looking
<1>8. ReadsOf(i)'
  <2>1. \A n \in tra'[i].local.marked : tip'[n] = "dead"
    BY <1>1, <1>5 DEF ReadsOf, KeepsSweep
  <2>2. ASSUME NEW n \in Numbers, n < tra'[i].local.saved PROVE Done(n)'
    <3>1. tip[n] = "committed" \/ n \in tra[i].local.marked
      BY <1>1, <1>5, <2>2 DEF ReadsOf, KeepsSweep
    <3> QED
      BY <1>1, <3>1 DEF Done
  <2>3. tra'[i].pc = "advance"
    BY <1>1 DEF Goes
  <2> QED
    BY <2>1, <2>2, <2>3 DEF ReadsOf, AllDone
<1>9. \A n \in swept' : n \in swept \/ (n \in Numbers /\ tip[n] = "dead")
  <2>1. tra[i].local.marked \subseteq Numbers
    BY <1>2, TypedTra
  <2> QED
    BY <1>1, <1>5, <2>1 DEF ReadsOf
<1>10. BoundsInv'
  BY <1>1, <1>3, BoundsKept
<1>11. header'.oit \in Nat /\ header'.oit >= header.oit /\ \A j \in Numbers \ {i} : tra'[j] = tra[j]
  BY <1>1, <1>5 DEF Goes
<1> QED
  BY <1>3, <1>4, <1>7, <1>8, <1>9, <1>10, <1>11, StepTrue

\* What the header page gets from a process is true.
LEMMA BumpedTrue ==
  ASSUME Holds, NEW p \in Procs
  PROVE  /\ Bumped(p).oit \in Nat /\ Bumped(p).oit >= header.oit /\ Bumped(p).oat \in Nat
         /\ AllDone(Bumped(p).oit) /\ AllFinal(Bumped(p).oat)
<1>1. /\ Bumped(p).oit = Most(header.oit, dbb[p].oit) /\ Bumped(p).oat = Most(header.oat, dbb[p].oat)
  BY BumpedNext DEF Holds, OwnInv
<1>2. header.oit \in Nat /\ header.oat \in Nat /\ dbb[p].oit \in Nat /\ dbb[p].oat \in Nat
  BY HeaderType, DbbType DEF Holds, OwnInv
<1>3. AllDone(header.oit) /\ AllFinal(header.oat) /\ AllDone(dbb[p].oit) /\ AllFinal(dbb[p].oat)
  BY DEF Holds, TrueInv, BoundsInv
<1> QED
  BY <1>1, <1>2, <1>3 DEF Most

\* The header page with the values of a process is true.
LEMMA BumpedBounds ==
  ASSUME Holds, Settles, NEW p \in Procs, header' = Bumped(p), dbb' = dbb, \A n \in Numbers : lock'[n] <= n
  PROVE  BoundsInv' /\ header'.oit \in Nat /\ header'.oit >= header.oit
<1>1. \A m \in Numbers : (Final(m) => Final(m)') /\ (Done(m) => Done(m)')
  BY DoneStays
<1>2. \A m \in Numbers : (m < Bumped(p).oit => Done(m)) /\ (m < Bumped(p).oat => Final(m))
  BY BumpedTrue DEF AllDone, AllFinal
<1>3. header'.oit = Bumped(p).oit /\ header'.oat = Bumped(p).oat
  OBVIOUS
<1>4. \A q \in Procs, m \in Numbers : (m < dbb[q].oit => Done(m)) /\ (m < dbb[q].oat => Final(m))
  BY DEF Holds, TrueInv, BoundsInv, AllDone, AllFinal
<1>5. \A m \in Numbers : (m < header'.oit => Done(m)') /\ (m < header'.oat => Final(m)')
  BY <1>1, <1>2, <1>3
<1>6. BoundsInv'
  BY <1>1, <1>4, <1>5 DEF BoundsInv, AllDone, AllFinal
<1> QED
  BY <1>3, <1>6, BumpedTrue

LEMMA RetainTrue ==
  ASSUME Holds, NEW i \in Numbers, NEW state \in Ends, Retain(i, state)
  PROVE  Settles /\ TrueInv'
<1>0. TypeInv
  BY DEF Holds, OwnInv
<1>1. /\ tra[i].pc = "running" /\ Goes(i, "retain")
      /\ KeepsLimits(i) /\ KeepsSweep(i) /\ KeepsView(i)
      /\ header.nt + 1 <= MaxTra /\ header' = Bumped(tra[i].proc)
      /\ lock' = [lock EXCEPT ![header.nt + 1] = lock[tra[i].number]]
      /\ UNCHANGED <<tip, dbb, cache, swept>>
  BY <1>0, RetainEffect
<1>2. tra[i] \in Transaction
  BY <1>1 DEF Goes
<1>3. Live(i) /\ tra[i].number \in Numbers /\ tra[i].number <= header.nt /\ header.nt \in Nat
  BY <1>2, ItsTruth
<1>4. PICK p \in Procs : p = tra[i].proc
  BY <1>2, TypedTra
<1>5. Settles /\ \A q \in Procs : CacheStep(q)
  BY <1>1, Quiet
<1>6. \A n \in Numbers : lock'[n] <= n
  <2>1. \A n \in Numbers : lock[n] \in Nat /\ lock[n] <= n /\ n \in Nat
    BY <1>0, LockNat DEF Holds, TrueInv, BoundsInv
  <2>2. lock[tra[i].number] <= header.nt + 1
    BY <1>3, <2>1
  <2> QED
    BY <1>0, <1>1, <2>1, <2>2 DEF TypeInv
<1>7. BoundsInv' /\ header'.oit \in Nat /\ header'.oit >= header.oit
  BY <1>1, <1>4, <1>5, <1>6, BumpedBounds
<1>8. ViewTrue(i)
  BY <1>1, <1>3, <1>5, ViewSame
<1>9. KnowsOf(i)'
  BY <1>1, <1>3, <1>5, <1>8, KnowsSame DEF Looking
<1>10. ReadsOf(i)'
  BY <1>1, <1>3, <1>5, ReadsGo DEF KeepsSweep
<1>11. \A j \in Numbers \ {i} : tra'[j] = tra[j]
  BY <1>1 DEF Goes
<1> QED
  BY <1>1, <1>5, <1>7, <1>9, <1>10, <1>11, StepTrue

LEMMA AdvanceTrue ==
  ASSUME Holds, NEW i \in Numbers, Advance(i)
  PROVE  Settles /\ TrueInv'
<1>0. TypeInv
  BY DEF Holds, OwnInv
<1>1. /\ tra[i] \in Transaction /\ tra[i].pc = "advance"
      /\ tra' = [tra EXCEPT ![i] = NoTra]
      /\ header' = IF header.oit < tra[i].local.saved - 1
                   THEN [header EXCEPT !.oit = Least(tra[i].top, tra[i].local.saved - 1)] ELSE header
      /\ UNCHANGED <<tip, lock, dbb, cache, swept>>
  BY <1>0, AdvanceEffect
<1>2. Settles /\ \A q \in Procs : CacheStep(q)
  BY <1>1, Quiet
<1>3. ~Live(i)' /\ \A j \in Numbers \ {i} : tra'[j] = tra[j]
  BY <1>0, <1>1 DEF TypeInv, Live, At, NoTra
<1>4. /\ ReadsOf(i) /\ FitOf(i) /\ i \in Nat /\ header.oit \in Nat
      /\ tra[i].local.saved \in Nat /\ tra[i].local.saved <= i /\ tra[i].top = i
  BY <1>1, ItsTruth, TypedTra DEF FitOf
<1>5. \A m \in Numbers : m \in Nat /\ (m < tra[i].local.saved => Done(m)) /\ (m < header.oit => Done(m))
  BY <1>1, <1>4, NumberIn DEF ReadsOf, AllDone, Holds, TrueInv, BoundsInv
<1>6. /\ header'.oit \in Nat /\ header'.oit >= header.oit /\ header'.oat = header.oat
      /\ header'.oit = header.oit \/ header'.oit <= tra[i].local.saved - 1
  BY <1>0, <1>1, <1>4 DEF TypeInv, Least
<1>7. BoundsInv'
  <2>1. \A m \in Numbers : (Final(m) => Final(m)') /\ (Done(m) => Done(m)')
    BY <1>2, DoneStays
  <2>2. BoundsInv
    BY DEF Holds, TrueInv
  <2>3. \A m \in Numbers : m < header'.oit => Done(m)'
    BY <1>4, <1>5, <1>6, <2>1
  <2>4. \A m \in Numbers : m < header'.oat => Final(m)'
    BY <1>6, <2>1, <2>2 DEF BoundsInv, AllFinal
  <2> QED
    BY <1>1, <2>1, <2>2, <2>3, <2>4 DEF BoundsInv, AllDone, AllFinal
<1> QED
  BY <1>1, <1>2, <1>3, <1>6, <1>7, StepTrue

LEMMA StartTrue ==
  ASSUME Holds, NEW p \in Procs, NEW kind \in Kinds, Start(p, kind)
  PROVE  Settles /\ TrueInv'
<1>0. TypeInv /\ OwnInv
  BY DEF Holds, OwnInv
<1>1. PICK n \in Numbers :
        /\ n = header.nt + 1 /\ header' = Bumped(p)
        /\ lock' = [lock EXCEPT ![n] = IF kind = "snapshot" THEN Most(Bumped(p).oat, Bumped(p).oit) ELSE n]
        /\ tra' \in [Numbers -> Transaction \union {NoTra}] /\ tra'[n] \in Transaction
        /\ \A j \in Numbers \ {n} : tra'[j] = tra[j]
        /\ tra'[n].pc = IF kind = "snapshot" THEN "inventory" ELSE "extend"
        /\ tra'[n].proc = p
        /\ tra'[n].oldest = Bumped(p).oit /\ tra'[n].oldest_active = n
        /\ \A m \in 0..MaxTra : tra'[n].transactions[m] = "active"
        /\ tra'[n].local.next = Page(Bumped(p).oit)
        /\ tra'[n].local.active = Most(Bumped(p).oat, Bumped(p).oit) /\ tra'[n].local.oat = n
        /\ tra'[n].local.marked = {}
        /\ UNCHANGED <<tip, dbb, cache, swept>>
  BY <1>0, StartEffect
<1>2. Settles /\ \A q \in Procs : CacheStep(q)
  BY <1>1, Quiet
<1>3. \A m \in Numbers : (Final(m) => Final(m)') /\ (Done(m) => Done(m)')
  BY <1>2, DoneStays
<1>4. PICK o \in Nat, a \in Nat : o = Bumped(p).oit /\ a = Bumped(p).oat /\ AllDone(o) /\ AllFinal(a)
  BY BumpedTrue
<1>5. n \in Nat /\ n <= MaxTra /\ MaxTra \in Nat
  BY NumberIn DEF Numbers
<1>6. o <= n /\ a <= n /\ AllFinal(o)
  <2>1. AllFinal(o)
    BY <1>4, DoneFinal DEF Holds
  <2> QED
    BY <1>0, <1>1, <1>4, <1>5, <2>1, FinalGiven
<1>7. PICK b \in Nat : b = Most(a, o) /\ b <= n /\ AllFinal(b)
  BY <1>4, <1>6 DEF Most
<1>8. \A m \in Numbers : lock'[m] <= m
  <2>1. \A m \in Numbers : lock[m] <= m
    BY DEF Holds, TrueInv, BoundsInv
  <2> QED
    BY <1>0, <1>1, <1>4, <1>5, <1>7, <2>1 DEF TypeInv
<1>9. BoundsInv' /\ header'.oit \in Nat /\ header'.oit >= header.oit
  BY <1>1, <1>2, <1>8, BumpedBounds
<1>10. KnowsOf(n)'
  <2>1. tra'[n].pc \in {"inventory", "extend"} /\ tra'[n].oldest = o /\ o <= n /\ tra'[n].local.active = b
    BY <1>1, <1>4, <1>6, <1>7
  <2>2. \A m \in Numbers : (m < o => Done(m)') /\ (m < b => Final(m)')
    BY <1>3, <1>4, <1>7 DEF AllDone, AllFinal
  <2>3. \A m \in Numbers : tra'[n].transactions[m] = "active"
    BY <1>1, NumberIn
  <2> QED
    BY <1>1, <2>1, <2>2, <2>3 DEF KnowsOf, AllDone, AllFinal, Looking
<1>11. ReadsOf(n)'
  <2>1. tra'[n].pc \in {"inventory", "extend"} /\ tra'[n].local.next = Page(o)
    BY <1>1, <1>4
  <2>2. ASSUME NEW m \in Numbers, Page(m) < Page(o) PROVE Done(m)'
    <3>1. m < o
      BY <2>2, NumberIn, PageLess
    <3> QED
      BY <1>3, <1>4, <3>1 DEF AllDone
  <2> QED
    BY <1>1, <2>1, <2>2 DEF ReadsOf, Page
<1> QED
  BY <1>1, <1>2, <1>9, <1>10, <1>11, StepTrue

\* A cache without pages is as good as any.
LEMMA NoPages ==
  ASSUME NEW p \in Procs, \A n \in 0..MaxTra : cache'[p][n] = "none"
  PROVE  PagesOf(p)'
<1>1. \A n \in 0..MaxTra : ~Has(p, n)'
  BY DEF Has
<1> QED
  BY <1>1 DEF PagesOf, Whole, Sound, FrontDone, Empty

LEMMA CrashTrue ==
  ASSUME Holds, NEW p \in Procs, Crash(p)
  PROVE  Settles /\ TrueInv'
<1>0. TypeInv
  BY DEF Holds, OwnInv
<1> DEFINE gone == {i \in Numbers : Live(i) /\ tra[i].proc = p}
<1>1. /\ lock' = [n \in Numbers |-> IF \E i \in gone : n \in {tra[i].number, tra[i].local.new} THEN 0 ELSE lock[n]]
      /\ tra' = [i \in Numbers |-> IF i \in gone THEN NoTra ELSE tra[i]]
      /\ dbb' = [dbb EXCEPT ![p] = OfHeader]
      /\ cache' = [cache EXCEPT ![p] = [n \in 0..MaxTra |-> "none"]]
      /\ UNCHANGED <<header, tip, swept>>
  BY DEF Crash, pages
<1>2. ASSUME NEW j \in Numbers, Live(j)'
      PROVE  tra'[j] = tra[j] /\ Live(j) /\ tra[j].proc # p /\ tra[j] \in Transaction
  <2>1. j \notin gone
    BY <1>1, <1>2 DEF Live, At, NoTra
  <2>2. tra'[j] = tra[j] /\ Live(j)
    BY <1>1, <1>2, <2>1 DEF Live, At
  <2> QED
    BY <1>0, <2>1, <2>2, LiveIs DEF Live, At
<1>3. \A n \in Numbers : lock'[n] \in {lock[n], 0}
  BY <1>1
<1> HIDE DEF gone
<1>4. Settles
  BY <1>1 DEF Settles
<1>5. \A m \in Numbers : (Final(m) => Final(m)') /\ (Done(m) => Done(m)')
  BY <1>4, DoneStays
<1>6. /\ \A q \in Procs : q # p => dbb'[q] = dbb[q] /\ cache'[q] = cache[q]
      /\ dbb'[p].oit = header.oit /\ dbb'[p].oat = header.oat
      /\ \A n \in 0..MaxTra : cache'[p][n] = "none"
  BY <1>0, <1>1 DEF TypeInv, OfHeader
<1>7. \A q \in Procs : q # p => CacheStep(q)
  BY <1>4, <1>6, CacheSame
<1>8. PagesInv'
  BY <1>6, <1>7, NoPages DEF PagesInv, CacheStep
<1>9. BoundsInv'
  <2>1. BoundsInv
    BY DEF Holds, TrueInv
  <2>2. \A n \in Numbers : lock'[n] <= n
    BY <1>3, <2>1, NumberIn DEF BoundsInv
  <2>3. \A m \in Numbers : (m < header.oit => Done(m)') /\ (m < header.oat => Final(m)')
    BY <1>5, <2>1 DEF BoundsInv, AllDone, AllFinal
  <2>4. ASSUME NEW q \in Procs, NEW m \in Numbers
        PROVE  (m < dbb'[q].oit => Done(m)') /\ (m < dbb'[q].oat => Final(m)')
    <3>1. CASE q = p
      BY <1>6, <2>3, <3>1
    <3>2. CASE q # p
      BY <1>5, <1>6, <2>1, <3>2 DEF BoundsInv, AllDone, AllFinal
    <3> QED
      BY <3>1, <3>2
  <2> QED
    BY <1>1, <2>2, <2>3, <2>4 DEF BoundsInv, AllDone, AllFinal
<1>10. SweptInv'
  BY <1>1, <1>4, SweptKept2
<1>11. KnowsInv'
  <2> SUFFICES ASSUME NEW j \in Numbers, Live(j)' PROVE KnowsOf(j)' /\ ReadsOf(j)'
    BY DEF KnowsInv
  <2>1. tra'[j] = tra[j] /\ Live(j) /\ tra[j].proc # p /\ tra[j] \in Transaction
    BY <1>2
  <2>2. PICK q \in Procs : q = tra[j].proc /\ q # p
    BY <2>1, TypedTra
  <2>3. \A n \in Numbers : Has(q, n) => Has(q, n)' \/ Done(n)'
    BY <1>7, <2>2 DEF CacheStep
  <2>4. header'.oit \in Nat /\ header'.oit >= header.oit
    BY <1>0, <1>1, HeaderType
  <2> QED
    BY <1>4, <2>1, <2>2, <2>3, <2>4, OtherKept
<1> QED
  BY <1>4, <1>8, <1>9, <1>10, <1>11 DEF TrueInv

LEMMA OpenTrue ==
  ASSUME Holds, Open
  PROVE  Settles /\ TrueInv'
<1>0. TypeInv
  BY DEF Holds, OwnInv
<1>1. /\ \A i \in Numbers : ~Live(i)
      /\ tip' = [n \in 0..MaxTra |-> IF n \in header.oat..header.nt /\ tip[n] = "active" THEN "dead" ELSE tip[n]]
      /\ dbb' = [q \in Procs |-> OfHeader]
      /\ cache' = [q \in Procs |-> [n \in 0..MaxTra |-> "none"]]
      /\ UNCHANGED <<header, lock, tra, swept>>
  BY DEF Open
<1>2. Settles
  BY <1>1 DEF Settles, Final
<1>3. \A m \in Numbers : (Final(m) => Final(m)') /\ (Done(m) => Done(m)')
  BY <1>2, DoneStays
<1>4. PagesInv'
  BY <1>1, NoPages DEF PagesInv
<1>5. BoundsInv'
  <2>1. BoundsInv
    BY DEF Holds, TrueInv
  <2>2. \A m \in Numbers : (m < header.oit => Done(m)') /\ (m < header.oat => Final(m)')
    BY <1>3, <2>1 DEF BoundsInv, AllDone, AllFinal
  <2>3. \A q \in Procs : dbb'[q].oit = header.oit /\ dbb'[q].oat = header.oat
    BY <1>1 DEF OfHeader
  <2> QED
    BY <1>1, <2>1, <2>2, <2>3 DEF BoundsInv, AllDone, AllFinal
<1>6. SweptInv'
  BY <1>1, <1>2, SweptKept2
<1>7. KnowsInv'
  <2>1. \A i \in Numbers : ~Live(i)'
    BY <1>1 DEF Live, At
  <2> QED
    BY <2>1 DEF KnowsInv
<1> QED
  BY <1>2, <1>4, <1>5, <1>6, <1>7 DEF TrueInv

(***************************************************************************)
(* The invariant                                                           *)
(***************************************************************************)

LEMMA InitTrue ==
  ASSUME Init
  PROVE  TrueInv
<1>1. MaxTra \in Nat
  BY TransactionsAssumption
<1>2. SweptInv
  BY <1>1 DEF Init, SweptInv
<1>3. PagesInv
  <2>1. \A p \in Procs, n \in 0..MaxTra : ~Has(p, n) /\ cache[p][n] = "none"
    BY DEF Init, Has
  <2> QED
    BY <2>1 DEF PagesInv, PagesOf, Whole, Sound, FrontDone, Empty
<1>4. BoundsInv
  <2>1. \A n \in Numbers : ~(n < 1) /\ ~(n < 0) /\ n \in Nat
    BY NumberIn
  <2> QED
    BY <2>1 DEF Init, BoundsInv, AllDone, AllFinal
<1>5. KnowsInv
  BY DEF Init, KnowsInv, Live, At, NoTra
<1> QED
  BY <1>2, <1>3, <1>4, <1>5 DEF TrueInv

LEMMA StepKeepsTrue ==
  ASSUME Holds, NEW i \in Numbers, Step(i)
  PROVE  Settles /\ TrueInv'
<1>1. CASE Copy(i) \/ Extend(i) \/ Fill(i) \/ Trim(i)
  BY <1>1, CopyTrue, ExtendTrue, FillTrue, TrimTrue
<1>2. CASE Scan(i) \/ Clean(i) \/ Query(i) \/ Publish(i)
  BY <1>2, ScanTrue, CleanTrue, QueryTrue, PublishTrue
<1>3. CASE \E state \in Ends : End(i, state) \/ Retain(i, state)
  BY <1>3, EndTrue, RetainTrue
<1>4. CASE Release(i) \/ RetainState(i) \/ RetainEnd(i)
  BY <1>4, ReleaseTrue, RetainStateTrue, RetainEndTrue
<1>5. CASE \E n \in Numbers : Wait(i, n)
  BY <1>5, WaitTrue
<1>6. CASE Sweep(i) \/ Swept(i) \/ Advance(i)
  BY <1>6, SweepTrue, SweptTrue, AdvanceTrue
<1> QED
  BY <1>1, <1>2, <1>3, <1>4, <1>5, <1>6 DEF Step

LEMMA NextTrue ==
  ASSUME Holds, [Next]_vars
  PROVE  Settles /\ TrueInv'
<1>1. CASE \E p \in Procs : \E kind \in Kinds : Start(p, kind)
  BY <1>1, StartTrue
<1>2. CASE \E p \in Procs : Crash(p)
  BY <1>2, CrashTrue
<1>3. CASE \E i \in Numbers : Step(i)
  BY <1>3, StepKeepsTrue
<1>4. CASE Open
  BY <1>4, OpenTrue
<1>5. CASE UNCHANGED vars
  <2>1. UNCHANGED <<header, tip, lock, dbb, cache, tra, swept>>
    BY <1>5 DEF vars, pages
  <2>2. Settles
    BY <2>1 DEF Settles
  <2>3. TrueInv
    BY DEF Holds
  <2> QED
    BY <2>1, <2>2, <2>3 DEF TrueInv, SweptInv, PagesInv, PagesOf, Whole, Sound, FrontDone, Below, BoundsInv, AllDone, AllFinal,
         KnowsInv, KnowsOf, ReadsOf, Live, At, Done, Final, Empty, Has, Page
<1> QED
  BY <1>1, <1>2, <1>3, <1>4, <1>5 DEF Next

\* As long as no cache misses a page between two it has, what caches, bounds and
\* transactions hold to be done, final or dead is so.
THEOREM TrueInvariant == Spec /\ []NoGap => []TrueInv
<1>1. Init => TrueInv
  BY InitTrue
<1>2. OwnInv /\ NoGap /\ TrueInv /\ [Next]_vars => TrueInv'
  BY NextTrue DEF Holds
<1> QED
  BY <1>1, <1>2, OwnInvariant, PTL DEF Spec

\* A state that is committed or dead is never changed: not by TRA_set_state, not
\* by whoever takes a transaction for dead (TRA_wait), not when the database is
\* opened (TRA_cleanup).
THEOREM FinalStays == Spec /\ []NoGap => FinalIsFinal
<1>1. OwnInv /\ NoGap /\ TrueInv /\ [Next]_vars => [\A n \in Numbers : tip[n] # "active" => tip'[n] = tip[n]]_vars
  <2> SUFFICES ASSUME Holds, [Next]_vars, NEW n \in Numbers, tip[n] # "active" PROVE tip'[n] = tip[n]
    BY DEF Holds
  <2>1. Settles
    BY NextTrue
  <2> QED
    BY <2>1, NumberIn DEF Settles, Final
<1> QED
  BY <1>1, OwnInvariant, TrueInvariant, PTL DEF Spec, FinalIsFinal

\* What the cache of a process (TipCache) holds to be committed or dead is so on
\* the page.
THEOREM CacheIsTrue == Spec /\ []NoGap => []CacheSound
<1>1. TrueInv => CacheSound
  BY NumberIn DEF TrueInv, PagesInv, PagesOf, Sound, CacheSound
<1> QED
  BY <1>1, TrueInvariant, PTL

\* No version of a transaction that ended badly is taken for a committed one:
\* below every oldest transaction anybody goes by (header page, process, snapshot,
\* first page of a cache) all are committed, or swept away.
THEOREM AssumedAreDone == Spec /\ []NoGap => []AssumedCommitted
<1>1. OwnInv /\ NoGap /\ TrueInv => AssumedCommitted
  <2> SUFFICES ASSUME Holds, NEW b \in OldestBounds, NEW n \in 1..(b - 1) PROVE Done(n)
    BY DEF Holds, AssumedCommitted, Done
  <2>0. MaxTra \in Nat /\ TypeInv
    BY TransactionsAssumption DEF Holds, OwnInv
  <2>1. ASSUME NEW o \in Nat, AllDone(o), o <= MaxTra + 1, o = b PROVE Done(n)
    <3>1. n \in Numbers /\ n < o
      BY <2>0, <2>1 DEF Numbers
    <3> QED
      BY <2>1, <3>1 DEF AllDone
  <2>2. CASE b = header.oit
    <3>1. header.oit \in Nat /\ header.oit <= MaxTra + 1
      BY <2>0, HeaderType DEF Holds, OwnInv, OldestInv
    <3>2. AllDone(header.oit)
      BY DEF Holds, TrueInv, BoundsInv
    <3> QED
      BY <2>1, <2>2, <3>1, <3>2
  <2>3. CASE \E p \in Procs : b = dbb[p].oit
    <3>1. PICK p \in Procs : b = dbb[p].oit
      BY <2>3
    <3>2. dbb[p].oit \in Nat /\ dbb[p].oit <= MaxTra + 1
      BY <2>0, DbbType, HeaderType DEF Holds, OwnInv, OldestInv
    <3>3. AllDone(dbb[p].oit)
      BY DEF Holds, TrueInv, BoundsInv
    <3> QED
      BY <2>1, <3>1, <3>2, <3>3
  <2>4. CASE \E i \in Numbers : Live(i) /\ b = tra[i].oldest
    <3>1. PICK i \in Numbers : Live(i) /\ b = tra[i].oldest
      BY <2>4
    <3>2. tra[i] \in Transaction
      BY <2>0, <3>1 DEF TypeInv, Live, At, NoTra
    <3>3. tra[i].oldest \in Nat /\ tra[i].oldest <= MaxTra + 1 /\ AllDone(tra[i].oldest)
      BY <3>2, ItsTruth, TypedTra DEF KnowsOf
    <3> QED
      BY <2>1, <3>1, <3>3
  <2>5. CASE \E p \in Procs : Cached(p) # {} /\ b = FrontPage(p) * TransPerTip
    <3>1. PICK p \in Procs : Cached(p) # {} /\ b = FrontPage(p) * TransPerTip
      BY <2>5
    <3>2. ~Empty(p)
      BY <3>1, CachedIs
    <3>3. b \in Nat /\ b <= MaxTra
      <4>1. PICK a \in 0..MaxTra : FrontPage(p) = Page(a)
        BY <3>2, FrontIs, CachedIs
      <4>2. FrontPage(p) \in Nat /\ FrontPage(p) * TransPerTip \in 0..MaxTra
        BY <4>1, PageEnd, PageFirst
      <4> QED
        BY <2>0, <3>1, <4>2
    <3>4. n \in Numbers /\ n < b
      BY <2>0, <3>3 DEF Numbers
    <3> QED
      BY <3>1, <3>2, <3>4, FrontOf
  <2> QED
    BY <2>2, <2>3, <2>4, <2>5 DEF OldestBounds
<1> QED
  BY <1>1, OwnInvariant, TrueInvariant, PTL

\* No oldest active number, of the header page or of a process, is above the
\* number of a transaction that runs.
THEOREM OldestIsActive == Spec /\ []NoGap => []OldestActiveIsOldest
<1>1. OwnInv /\ NoGap /\ TrueInv => OldestActiveIsOldest
  <2> SUFFICES ASSUME Holds, NEW i \in Numbers, Live(i), tip[tra[i].number] = "active"
      PROVE  header.oat <= tra[i].number /\ \A p \in Procs : dbb[p].oat <= tra[i].number
    BY DEF Holds, OldestActiveIsOldest
  <2>1. PICK n \in Numbers : n = tra[i].number
    BY DEF Holds, OwnInv, NumberInv
  <2>2. n \in Nat /\ ~Final(n)
    BY <2>1, NumberIn DEF Final
  <2>3. header.oat \in Nat /\ AllFinal(header.oat) /\ \A p \in Procs : dbb[p].oat \in Nat /\ AllFinal(dbb[p].oat)
    BY HeaderType, DbbType DEF Holds, OwnInv, TrueInv, BoundsInv
  <2>4. \A b \in Nat : AllFinal(b) => b <= n
    BY <2>2 DEF AllFinal
  <2> QED
    BY <2>1, <2>3, <2>4
<1> QED
  BY <1>1, OwnInvariant, TrueInvariant, PTL

\* With at most two pages there is no page between two others.
LEMMA TwoPages ==
  ASSUME MaxTra < 2 * TransPerTip
  PROVE  NoGap
<1> SUFFICES ASSUME NEW a \in 0..MaxTra, NEW n \in 0..MaxTra, NEW b \in 0..MaxTra, Page(a) < Page(n), Page(n) < Page(b)
    PROVE  FALSE
  BY DEF NoGap
<1>1. b \in Nat /\ Page(a) \in Nat /\ Page(n) \in Nat /\ Page(b) \in Nat /\ Page(b) * TransPerTip <= b
  BY PageEnd, PageIs
<1>2. 2 <= Page(b)
  BY <1>1
<1>3. 2 * TransPerTip <= Page(b) * TransPerTip
  BY <1>1, <1>2, ProductGrows, TransactionsAssumption
<1> QED
  BY <1>1, <1>3, TransactionsAssumption

\* A database whose inventory fits on two pages has all this without a condition.
THEOREM TwoPagesSuffice ==
  ASSUME MaxTra < 2 * TransPerTip
  PROVE  Spec => [](CacheSound /\ AssumedCommitted /\ OldestActiveIsOldest) /\ FinalIsFinal
<1>1. NoGap
  BY TwoPages
<1> QED
  BY <1>1, CacheIsTrue, AssumedAreDone, OldestIsActive, FinalStays, PTL

(***************************************************************************)
(* The inductive invariant of snapshots: what they show of the pages they  *)
(* have read, and in which order it was committed                          *)
(***************************************************************************)

\* A snapshot that is being taken and does not clean up.
Plain(i) == Taken(i) /\ i % Cleanup # 0

\* The page of a number has been read, if it has to be; the snapshot shows it.
Read(i, n) == tra[i].pc \in {"inventory", "copy"} => Page(n) < tra[i].local.next
Shows(i, n) == n < tra[i].oldest \/ tra[i].transactions[n] = "committed"

\* What a snapshot shows of the pages it has read, the last of which it holds.
CutOf(i) ==
  LET t == tra[i] IN
  /\ ~t.local.cleanup /\ t.pc # "settle" /\ t.subs = {}
  /\ t.pc = "inventory" => t.local.next = Page(t.oldest)
  /\ t.pc = "copy" => \A n \in Numbers : n <= i /\ Page(n) = t.local.next - 1 => t.transactions[n] = tip[n]
  /\ \A k, l \in 1..Len(commits) :
       /\ k < l /\ commits[k] <= i /\ commits[l] <= i
       /\ Page(commits[l]) <= Page(commits[k]) + 1
       /\ Read(i, commits[k]) /\ Shows(i, commits[l])
       => Shows(i, commits[k])

\* What has committed is committed.
CommitsInv == commits \in Seq(Numbers) /\ \A k \in 1..Len(commits) : tip[commits[k]] = "committed"

CutInv == CommitsInv /\ \A i \in Numbers : Plain(i) => CutOf(i)

(***************************************************************************)
(* What commits while a snapshot is being taken                            *)
(***************************************************************************)

\* The states a step changes are on pages nobody holds, and what is added to
\* the commits was active.
CommitStep ==
  /\ \A n \in Numbers : tip'[n] = tip[n] \/ ~Latched(Page(n))
  /\ \/ commits' = commits
     \/ commits' = <<>>
     \/ \E n \in Numbers : tip[n] = "active" /\ tip'[n] = "committed" /\ commits' = Append(commits, n)

\* TRA_set_state of an active number.
LEMMA SetStateCommits ==
  ASSUME TypeInv, NEW p, NEW n \in Numbers, NEW state, SetState(p, n, state), tip[n] = "active" \/ state = "dead"
  PROVE  CommitStep
<1>1. /\ ~Latched(Page(n)) /\ tip' = [tip EXCEPT ![n] = state]
      /\ commits' = commits \/ (state = "committed" /\ commits' = Append(commits, n))
  BY DEF SetState
<1>2. tip'[n] = state /\ \A m \in Numbers : m # n => tip'[m] = tip[m]
  BY <1>1, NumberIn DEF TypeInv, Inventory
<1>3. \A m \in Numbers : tip'[m] = tip[m] \/ ~Latched(Page(m))
  BY <1>1, <1>2
<1>4. CASE commits' = commits
  BY <1>3, <1>4 DEF CommitStep
<1>5. CASE state = "committed" /\ commits' = Append(commits, n)
  BY <1>2, <1>3, <1>5 DEF CommitStep
<1> QED
  BY <1>1, <1>4, <1>5

\* The end of TRA_wait only writes that a transaction is dead.
LEMMA SettleCommits ==
  ASSUME TypeInv, NEW i \in Numbers, NEW n \in Numbers, NEW state, Settle(i, n, state)
  PROVE  CommitStep
<1>1. CASE state = "active"
  <2>1. SetState(tra[i].proc, n, "dead")
    BY <1>1 DEF Settle
  <2> QED
    BY <2>1, SetStateCommits
<1>2. CASE state # "active"
  BY <1>2 DEF Settle, CommitStep
<1> QED
  BY <1>1, <1>2

LEMMA StepCommits ==
  ASSUME OwnInv, NEW i \in Numbers, Step(i)
  PROVE  CommitStep
<1>0. TypeInv
  BY DEF OwnInv
<1>1. CASE \/ Copy(i) \/ Extend(i) \/ Fill(i) \/ Trim(i) \/ Scan(i) \/ Query(i)
           \/ (\E state \in Ends : Retain(i, state)) \/ Release(i) \/ RetainEnd(i)
           \/ Sweep(i) \/ Swept(i) \/ Advance(i)
  <2>1. tip' = tip /\ commits' = commits
    BY <1>1 DEF Copy, Extend, Fill, Trim, Scan, Query, Retain, Release, RetainEnd, Sweep, Swept, Advance, pages
  <2> QED
    BY <2>1 DEF CommitStep
<1>2. CASE Publish(i)
  <2>1. tip' = tip /\ (commits' = commits \/ commits' = <<>>)
    BY <1>2 DEF Publish, pages
  <2> QED
    BY <2>1 DEF CommitStep
<1>3. CASE Clean(i)
  <2>1. tra[i] \in Transaction /\ At(i, "settle")
    BY <1>0, <1>3, LiveIs DEF Clean, At
  <2>2. tra[i].local.active \in Numbers
    BY <2>1, ItsFacts DEF LockOf
  <2>3. Settle(i, tra[i].local.active, GetState(tra[i].proc, tra[i].local.active))
    BY <1>3 DEF Clean
  <2> QED
    BY <1>0, <2>2, <2>3, SettleCommits
<1>4. CASE \E state \in Ends : End(i, state)
  <2>1. PICK state \in Ends : End(i, state)
    BY <1>4
  <2>2. /\ tra[i] \in Transaction /\ SetState(tra[i].proc, tra[i].number, state)
        /\ tra[i].pc \in {"running", "precommit"} /\ (tra[i].pc = "running" => tra[i].kind # "sweep")
    BY <1>0, <2>1, EndEffect DEF Goes
  <2>3. Unended(i)
    BY <2>2 DEF Unended, SweepsOn
  <2>4. tra[i].number \in Numbers /\ tip[tra[i].number] = "active"
    BY <2>2, <2>3, ItsFacts DEF ActiveOf
  <2> QED
    BY <1>0, <2>2, <2>4, SetStateCommits
<1>5. CASE RetainState(i)
  <2>1. /\ tra[i] \in Transaction /\ SetState(tra[i].proc, tra[i].number, tra[i].local.state)
        /\ tra[i].pc = "retain"
    BY <1>0, <1>5, RetainStateEffect DEF Goes
  <2>2. Unended(i)
    BY <2>1 DEF Unended, SweepsOn
  <2>3. tra[i].number \in Numbers /\ tip[tra[i].number] = "active"
    BY <2>1, <2>2, ItsFacts DEF ActiveOf
  <2> QED
    BY <1>0, <2>1, <2>3, SetStateCommits
<1>6. CASE \E n \in Numbers : Wait(i, n)
  <2>1. PICK n \in Numbers : Settle(i, n, GetState(tra[i].proc, n))
    BY <1>6 DEF Wait
  <2> QED
    BY <1>0, <2>1, SettleCommits
<1> QED
  BY <1>1, <1>2, <1>3, <1>4, <1>5, <1>6 DEF Step

LEMMA NextCommits ==
  ASSUME OwnInv, [Next]_vars
  PROVE  CommitStep
<1>1. CASE \/ \E p \in Procs : (\E kind \in Kinds : Start(p, kind)) \/ Crash(p)
           \/ UNCHANGED vars
  <2>1. tip' = tip /\ commits' = commits
    BY <1>1 DEF Start, Crash, vars, pages
  <2> QED
    BY <2>1 DEF CommitStep
<1>2. CASE \E i \in Numbers : Step(i)
  BY <1>2, StepCommits
<1>3. CASE Open
  <2>1. commits' = commits /\ \A i \in Numbers : ~Live(i)
    BY <1>3 DEF Open
  <2>2. \A s : ~Latched(s)
    BY <2>1 DEF Live, At, Latched, OwnInv, TypeInv
  <2> QED
    BY <2>1, <2>2 DEF CommitStep
<1> QED
  BY <1>1, <1>2, <1>3 DEF Next

(***************************************************************************)
(* Snapshots and the order of the commits                                  *)
(***************************************************************************)

LEMMA CommitsKept ==
  ASSUME CommitsInv, Settles, CommitStep
  PROVE  CommitsInv'
<1>1. \A n \in Numbers : tip[n] = "committed" => tip'[n] = "committed"
  BY NumberIn DEF Settles, Final
<1>2. CASE commits' = commits
  BY <1>1, <1>2 DEF CommitsInv
<1>3. CASE commits' = <<>>
  BY <1>3 DEF CommitsInv
<1>4. ASSUME NEW n \in Numbers, tip'[n] = "committed", commits' = Append(commits, n)
      PROVE  CommitsInv'
  <2>1. /\ commits' \in Seq(Numbers) /\ Len(commits') = Len(commits) + 1 /\ commits'[Len(commits) + 1] = n
        /\ \A k \in 1..Len(commits) : commits'[k] = commits[k]
    BY <1>4 DEF CommitsInv
  <2>2. ASSUME NEW k \in 1..Len(commits') PROVE tip'[commits'[k]] = "committed"
    <3>1. CASE k \in 1..Len(commits)
      BY <1>1, <2>1, <3>1 DEF CommitsInv
    <3>2. CASE k = Len(commits) + 1
      BY <1>4, <2>1, <3>2
    <3> QED
      BY <2>1, <2>2, <3>1, <3>2 DEF CommitsInv
  <2> QED
    BY <2>1, <2>2 DEF CommitsInv
<1> QED
  BY <1>2, <1>3, <1>4 DEF CommitStep

\* No snapshot shows what is active.
LEMMA ActiveUnseen ==
  ASSUME Holds, NEW j \in Numbers, Live(j), NEW n \in Numbers, tip[n] = "active"
  PROVE  ~Shows(j, n)
<1>1. KnowsOf(j)
  BY DEF Holds, TrueInv, KnowsInv
<1>2. ~Done(n)
  BY DoneFinal DEF Holds, Final
<1> QED
  BY <1>1, <1>2 DEF KnowsOf, AllDone, Shows

\* What a snapshot shows and what it has read stay.
KeepsCut(j) ==
  /\ tra'[j].transactions = tra[j].transactions /\ tra'[j].oldest = tra[j].oldest
  /\ tra'[j].subs = tra[j].subs /\ tra'[j].local.cleanup = tra[j].local.cleanup
  /\ \/ tra'[j].pc = tra[j].pc /\ tra'[j].local.next = tra[j].local.next
     \/ tra[j].pc \in {"scan", "query"} /\ tra'[j].pc \in {"query", "publish"}

\* Others commit while it is being taken.
LEMMA CutKept ==
  ASSUME Holds, CommitsInv, CommitsInv', CommitStep, NEW j \in Numbers, Live(j), Plain(j), CutOf(j), KeepsCut(j)
  PROVE  CutOf(j)'
<1>1. /\ tra'[j].pc = "inventory" => tra'[j].local.next = Page(tra'[j].oldest)
      /\ ~tra'[j].local.cleanup /\ tra'[j].pc # "settle" /\ tra'[j].subs = {}
  BY DEF CutOf, KeepsCut
<1>2. ASSUME tra'[j].pc = "copy", NEW n \in Numbers, n <= j, Page(n) = tra'[j].local.next - 1
      PROVE  tra'[j].transactions[n] = tip'[n]
  <2>1. tra[j].pc = "copy" /\ tra'[j].local.next = tra[j].local.next /\ tra[j] \in Transaction
    BY <1>2, LiveIs DEF KeepsCut, Holds, OwnInv
  <2>2. tra[j].local.next \in Nat /\ Page(n) \in Nat
    BY <2>1, TypedTra, NumberIn, PageIs
  <2>3. Latched(Page(n))
    BY <1>2, <2>1, <2>2 DEF Latched
  <2>4. tip'[n] = tip[n]
    BY <2>3 DEF CommitStep
  <2> QED
    BY <1>2, <2>1, <2>4 DEF CutOf, KeepsCut
<1>3. \A n \in Numbers : (Shows(j, n)' <=> Shows(j, n)) /\ (Read(j, n)' => Read(j, n))
  BY DEF KeepsCut, Shows, Read, Page
<1>4. ASSUME NEW k \in 1..Len(commits'), NEW l \in 1..Len(commits'), k < l, NEW a \in Numbers, NEW b \in Numbers,
             a = commits'[k], b = commits'[l], a <= j, b <= j, Page(b) <= Page(a) + 1, Read(j, a)', Shows(j, b)'
      PROVE  Shows(j, a)'
  <2>0. Read(j, a) /\ Shows(j, b)
    BY <1>3, <1>4
  <2>1. CASE k \in 1..Len(commits) /\ l \in 1..Len(commits) /\ a = commits[k] /\ b = commits[l]
    <3>1. Shows(j, a)
      BY <1>4, <2>0, <2>1 DEF CutOf
    <3> QED
      BY <1>3, <3>1
  <2>2. CASE commits' = commits
    BY <1>4, <2>1, <2>2
  <2>3. CASE commits' = <<>>
    BY <1>4, <2>3
  <2>4. ASSUME NEW n \in Numbers, tip[n] = "active", commits' = Append(commits, n) PROVE Shows(j, a)'
    <3>1. /\ Len(commits') = Len(commits) + 1 /\ commits'[Len(commits) + 1] = n /\ Len(commits) \in Nat
          /\ \A m \in 1..Len(commits) : commits'[m] = commits[m]
      BY <2>4 DEF CommitsInv
    <3>2. l \in Nat /\ k \in Nat /\ k >= 1 /\ l <= Len(commits) + 1
      BY <1>4, <3>1
    <3>3. l # Len(commits) + 1
      <4> SUFFICES ASSUME l = Len(commits) + 1 PROVE FALSE
        OBVIOUS
      <4>1. b = n
        BY <1>4, <3>1
      <4> QED
        BY <2>0, <2>4, <4>1, ActiveUnseen
    <3>4. k \in 1..Len(commits) /\ l \in 1..Len(commits)
      BY <1>4, <3>1, <3>2, <3>3
    <3> QED
      BY <1>4, <2>1, <3>1, <3>4
  <2> QED
    BY <2>2, <2>3, <2>4 DEF CommitStep
<1>5. \A k \in 1..Len(commits') : commits'[k] \in Numbers
  BY DEF CommitsInv
<1>6. ASSUME NEW k \in 1..Len(commits'), NEW l \in 1..Len(commits'), k < l, commits'[k] <= j, commits'[l] <= j,
             Page(commits'[l]) <= Page(commits'[k]) + 1,
             tra'[j].pc \in {"inventory", "copy"} => Page(commits'[k]) < tra'[j].local.next,
             commits'[l] < tra'[j].oldest \/ tra'[j].transactions[commits'[l]] = "committed"
      PROVE  commits'[k] < tra'[j].oldest \/ tra'[j].transactions[commits'[k]] = "committed"
  <2>1. PICK a \in Numbers : a = commits'[k]
    BY <1>5
  <2>2. PICK b \in Numbers : b = commits'[l]
    BY <1>5
  <2>3. Read(j, a)' /\ Shows(j, b)'
    BY <1>6, <2>1, <2>2 DEF Read, Shows, Page
  <2>4. Shows(j, a)'
    BY <1>4, <1>6, <2>1, <2>2, <2>3
  <2> QED
    BY <2>1, <2>4 DEF Shows
<1> QED
  BY <1>1, <1>2, <1>6 DEF CutOf, Read, Shows, Page

\* A page more: the one before it is still latched.
LEMMA CopyCut ==
  ASSUME Holds, CommitsInv, NEW i \in Numbers, Copy(i), Plain(i), CutOf(i)
  PROVE  CutOf(i)'
<1> DEFINE c == tra[i].local.next
<1>0. TypeInv /\ OwnInv
  BY DEF Holds, OwnInv
<1>1. /\ tra[i] \in Transaction /\ tra[i].pc \in {"inventory", "copy"}
      /\ tra'[i].pc \in {"copy", "scan"} /\ (tra'[i].pc = "scan" => ~(c < tra[i].local.last))
      /\ tra'[i].local.next = c + 1 /\ c \in Nat /\ tra'[i].oldest = tra[i].oldest /\ tra[i].oldest \in Nat
  BY <1>0, CopyEffect, TypedTra DEF Goes
<1>2. /\ tra[i].top = i /\ i \in Nat /\ c <= tra[i].local.last /\ tra[i].local.last = Page(i)
  BY <1>0, <1>1, ItsFacts DEF FitOf, LoadOf
<1>3. /\ tra'[i].subs = tra[i].subs /\ tra'[i].local.cleanup = tra[i].local.cleanup
      /\ tra'[i].transactions = [n \in 0..MaxTra |->
           IF Page(n) = c /\ n <= tra[i].top THEN tip[n] ELSE tra[i].transactions[n]]
      /\ tip' = tip /\ commits' = commits
  BY <1>0, <1>1, TypedTra DEF Copy, pages, TypeInv, Transaction, Local
<1> HIDE DEF c
<1>4. \A n \in Numbers : n <= i =>
        /\ n \in Nat /\ Page(n) \in Nat
        /\ Page(n) = c => tra'[i].transactions[n] = tip[n]
        /\ Page(n) # c => tra'[i].transactions[n] = tra[i].transactions[n]
  BY <1>2, <1>3, NumberIn, PageIs
<1>5. ASSUME NEW k \in 1..Len(commits), NEW l \in 1..Len(commits), k < l, NEW a \in Numbers, NEW b \in Numbers,
             a = commits[k], b = commits[l], a <= i, b <= i, Page(b) <= Page(a) + 1,
             tra'[i].pc = "copy" => Page(a) < c + 1,
             b < tra[i].oldest \/ tra'[i].transactions[b] = "committed"
      PROVE  a < tra[i].oldest \/ tra'[i].transactions[a] = "committed"
  <2>2. /\ tip[a] = "committed" /\ Page(a) \in Nat /\ Page(b) \in Nat /\ a \in Nat /\ b \in Nat
    BY <1>4, <1>5 DEF CommitsInv
  <2>3. Page(a) <= c
    <3>1. CASE tra'[i].pc = "copy"
      <4>1. Page(a) < c + 1
        BY <1>5, <3>1
      <4> QED
        BY <1>1, <2>2, <4>1
    <3>2. CASE tra'[i].pc = "scan"
      <4>1. Page(a) <= Page(i) /\ Page(i) \in Nat
        BY <1>2, <1>5, <2>2, PageOrder, PageIs
      <4> QED
        BY <1>1, <1>2, <2>2, <3>2, <4>1
    <3> QED
      BY <1>1, <3>1, <3>2
  <2>4. CASE Page(a) = c
    BY <1>4, <1>5, <2>2, <2>4
  <2>5. CASE Page(a) # c /\ Shows(i, b)
    <3>1. Read(i, a)
      BY <1>1, <1>5, <2>2, <2>3, <2>5 DEF Read, c
    <3>2. Shows(i, a)
      BY <1>5, <2>5, <3>1 DEF CutOf
    <3> QED
      BY <1>4, <1>5, <2>5, <3>2 DEF Shows
  <2>6. CASE Page(a) # c /\ ~Shows(i, b)
    <3>1. Page(b) = c
      BY <1>4, <1>5, <2>6 DEF Shows
    <3>2. Page(a) = c - 1
      BY <1>1, <1>5, <2>2, <2>3, <2>6, <3>1
    <3>3. CASE tra[i].pc = "inventory"
      <4>1. c = Page(tra[i].oldest)
        BY <3>3 DEF CutOf, c
      <4>2. a < tra[i].oldest
        BY <1>1, <1>5, <2>2, <3>2, <4>1, PageLess
      <4> QED
        BY <4>2
    <3>4. CASE tra[i].pc = "copy"
      <4>1. tra[i].transactions[a] = tip[a]
        BY <1>5, <2>2, <3>2, <3>4 DEF CutOf, c
      <4> QED
        BY <1>4, <1>5, <2>2, <2>6, <4>1
    <3> QED
      BY <1>1, <3>3, <3>4
  <2> QED
    BY <2>4, <2>5, <2>6
<1>6. ASSUME tra'[i].pc = "copy", NEW n \in Numbers, n <= i, Page(n) = tra'[i].local.next - 1
      PROVE  tra'[i].transactions[n] = tip'[n]
  BY <1>1, <1>3, <1>4, <1>6
<1>7. ~tra'[i].local.cleanup /\ tra'[i].subs = {} /\ tra'[i].pc \notin {"inventory", "settle"}
  BY <1>1, <1>3 DEF CutOf
<1>8. ASSUME NEW k \in 1..Len(commits), NEW l \in 1..Len(commits), k < l, commits[k] <= i, commits[l] <= i,
             Page(commits[l]) <= Page(commits[k]) + 1,
             tra'[i].pc \in {"inventory", "copy"} => Page(commits[k]) < tra'[i].local.next,
             commits[l] < tra'[i].oldest \/ tra'[i].transactions[commits[l]] = "committed"
      PROVE  commits[k] < tra'[i].oldest \/ tra'[i].transactions[commits[k]] = "committed"
  <2>1. commits[k] \in Numbers /\ commits[l] \in Numbers
    BY DEF CommitsInv
  <2> QED
    BY <1>1, <1>5, <1>8, <2>1
<1> QED
  BY <1>3, <1>6, <1>7, <1>8 DEF CutOf, Read, Shows, Page

\* A transaction that makes no step.
LEMMA OtherCut ==
  ASSUME Holds, CutInv, CommitsInv', CommitStep, NEW j \in Numbers, tra'[j] = tra[j], Plain(j)'
  PROVE  CutOf(j)'
<1>1. Plain(j) /\ Live(j)
  BY DEF Plain, Taken, Live, At
<1>2. CutOf(j) /\ CommitsInv
  BY <1>1 DEF CutInv
<1>3. KeepsCut(j)
  BY DEF KeepsCut
<1> QED
  BY <1>1, <1>2, <1>3, CutKept

\* One that begins.
LEMMA StartCut ==
  ASSUME Holds, CutInv, CommitsInv', CommitStep, NEW p \in Procs, NEW kind \in Kinds, Start(p, kind)
  PROVE  \A j \in Numbers : Plain(j)' => CutOf(j)'
<1>1. PICK i \in Numbers :
        /\ i = header.nt + 1 /\ \A j \in Numbers \ {i} : tra'[j] = tra[j]
        /\ tra'[i].pc = IF kind = "snapshot" THEN "inventory" ELSE "extend"
        /\ tra'[i].oldest = Bumped(p).oit
        /\ \A m \in 0..MaxTra : tra'[i].transactions[m] = "active"
        /\ tra'[i].local.next = Page(Bumped(p).oit)
  BY StartEffect DEF Holds
<1>2. commits' = commits /\ tra'[i].subs = {} /\ tra'[i].local.cleanup = (i % Cleanup = 0)
  <2>1. Bumped(p).nt = i /\ tra \in [Numbers -> Transaction \union {NoTra}]
    BY <1>1 DEF Bumped, Holds, OwnInv, TypeInv
  <2> QED
    BY <2>1 DEF Start, Unused
<1>3. Bumped(p).oit \in Nat
  BY HeaderType, DbbType DEF Bumped, Most, Holds, OwnInv
<1> SUFFICES ASSUME NEW j \in Numbers, Plain(j)' PROVE CutOf(j)'
  OBVIOUS
<1>4. CASE j # i
  BY <1>1, <1>4, OtherCut
<1>5. CASE j = i
  <2>1. i % Cleanup # 0 /\ tra'[i].pc = "inventory"
    BY <1>1, <1>5 DEF Plain, Taken
  <2>2. ASSUME NEW a \in Numbers, Page(a) < Page(Bumped(p).oit) PROVE a < tra'[i].oldest
    BY <1>1, <1>3, <2>2, NumberIn, PageLess
  <2>3. \A k \in 1..Len(commits') : commits'[k] \in Numbers
    BY DEF CommitsInv
  <2> QED
    BY <1>1, <1>2, <1>5, <2>1, <2>2, <2>3 DEF CutOf, Read, Shows, Page
<1> QED
  BY <1>4, <1>5

\* One that makes a step.
LEMMA ItsCut ==
  ASSUME Holds, CutInv, CommitsInv', CommitStep, NEW i \in Numbers, Step(i), Plain(i)'
  PROVE  CutOf(i)'
<1>0. TypeInv /\ OwnInv /\ CommitsInv
  BY DEF Holds, OwnInv, CutInv
<1>1. tra'[i].kind = "snapshot" /\ i % Cleanup # 0
      /\ tra'[i].pc \in {"inventory", "copy", "scan", "settle", "query", "publish"}
  BY DEF Plain, Taken
<1>2. Plain(i) /\ Live(i) => CutOf(i)
  BY DEF CutInv
<1>3. CASE Copy(i)
  <2>1. tra[i] \in Transaction /\ tra[i].pc \in {"inventory", "copy"}
    BY <1>0, <1>3, CopyEffect DEF Goes
  <2>2. Live(i) /\ tra[i].kind = "snapshot"
    BY <1>0, <2>1, ItsFacts DEF FitOf
  <2>3. Plain(i)
    BY <1>1, <2>1, <2>2 DEF Plain, Taken
  <2> QED
    BY <1>0, <1>2, <1>3, <2>2, <2>3, CopyCut
<1>4. CASE Scan(i) \/ Query(i)
  <2>1. tra[i] \in Transaction /\ tra[i].pc \in {"scan", "query"}
    BY <1>0, <1>4, LiveIs DEF Scan, Query, At
  <2>2. /\ tra'[i].transactions = tra[i].transactions /\ tra'[i].oldest = tra[i].oldest /\ tra'[i].kind = tra[i].kind
        /\ tra'[i].subs = tra[i].subs /\ tra'[i].local.cleanup = tra[i].local.cleanup
        /\ tra'[i].pc = "settle" => tra[i].local.cleanup
        /\ tra'[i].pc \in {"settle", "query", "publish"}
    <3>1. tra[i].local \in Local
      BY <2>1, TypedTra
    <3>2. CASE Query(i)
      BY <1>0, <2>1, <3>1, <3>2 DEF Query, TypeInv, Transaction
    <3>3. CASE Scan(i)
      BY <1>0, <2>1, <3>1, <3>3 DEF Scan, TypeInv, Transaction, Local
    <3> QED
      BY <1>4, <3>2, <3>3
  <2>3. Live(i) /\ Plain(i)
    BY <1>0, <1>1, <2>1, <2>2, ItsFacts DEF Plain, Taken
  <2>4. CutOf(i)
    BY <1>2, <2>3
  <2>5. KeepsCut(i)
    BY <2>1, <2>2, <2>4 DEF KeepsCut, CutOf
  <2> QED
    BY <1>0, <2>3, <2>4, <2>5, CutKept
<1>5. CASE Clean(i)
  <2>1. tra[i] \in Transaction /\ tra[i].pc = "settle"
    BY <1>0, <1>5, LiveIs DEF Clean, At
  <2>2. tra[i].local.active \in Numbers /\ Live(i)
    BY <1>0, <2>1, ItsFacts DEF LockOf, At
  <2>3. tra'[i].kind = tra[i].kind
    BY <1>0, <1>5, <2>2, NumberIn, CleanEffect DEF Goes
  <2>4. Plain(i)
    BY <1>1, <2>1, <2>2, <2>3 DEF Plain, Taken
  <2> QED
    BY <1>2, <2>1, <2>2, <2>4 DEF CutOf
<1>6. CASE Extend(i) \/ Fill(i) \/ Trim(i)
  <2>1. tra[i] \in Transaction /\ tra[i].pc \in {"extend", "fill", "cache", "trim"}
    BY <1>0, <1>6, LiveIs DEF Extend, Fill, Trim, At
  <2>2. tra[i].kind # "snapshot"
    BY <1>0, <2>1, ItsFacts DEF FitOf
  <2>3. tra'[i].kind = tra[i].kind
    BY <1>0, <1>6, ExtendSkips, ExtendReads, FillEffect, TrimEffect DEF Goes
  <2> QED
    BY <1>1, <2>2, <2>3
<1>7. CASE Publish(i)
  <2>1. tra'[i].pc \in {"running", "precommit"}
    BY <1>0, <1>7, PublishEffect DEF Goes
  <2> QED
    BY <1>1, <2>1
<1>8. CASE \/ (\E state \in Ends : End(i, state) \/ Retain(i, state)) \/ Release(i) \/ RetainState(i) \/ RetainEnd(i)
           \/ (\E n \in Numbers : Wait(i, n)) \/ Sweep(i) \/ Swept(i) \/ Advance(i)
  <2>1. tra \in [Numbers -> Transaction \union {NoTra}]
    BY <1>0 DEF TypeInv
  <2>2. tra'[i].pc \in {"release", "retain", "retained", "running", "sweeping", "advance", "none"}
    <3>1. CASE \E state \in Ends : End(i, state) \/ Retain(i, state)
      BY <1>0, <3>1, EndEffect, RetainEffect DEF Goes
    <3>2. CASE Release(i)
      BY <1>0, <2>1, <3>2, ReleaseSweep, ReleaseGone DEF Goes, NoTra
    <3>3. CASE RetainState(i) \/ RetainEnd(i)
      BY <1>0, <3>3, RetainStateEffect, RetainEndEffect DEF Goes
    <3>4. CASE \E n \in Numbers : Wait(i, n)
      BY <1>0, <3>4, WaitEffect DEF Goes
    <3>5. CASE Sweep(i) \/ Swept(i)
      BY <1>0, <3>5, SweepEffect, SweptEffect DEF Goes
    <3>6. CASE Advance(i)
      BY <1>0, <2>1, <3>6, AdvanceEffect DEF NoTra
    <3> QED
      BY <1>8, <3>1, <3>2, <3>3, <3>4, <3>5, <3>6
  <2> QED
    BY <1>1, <2>2
<1> QED
  BY <1>3, <1>4, <1>5, <1>6, <1>7, <1>8 DEF Step

LEMMA NextCut ==
  ASSUME Holds, CutInv, [Next]_vars
  PROVE  CutInv'
<1>1. CommitStep /\ CommitsInv /\ Settles
  BY NextCommits, NextTrue DEF Holds, CutInv
<1>2. CommitsInv'
  BY <1>1, CommitsKept
<1>3. ASSUME NEW j \in Numbers, Plain(j)'
      PROVE  CutOf(j)'
  <2>1. CASE \E p \in Procs : \E kind \in Kinds : Start(p, kind)
    BY <1>1, <1>2, <1>3, <2>1, StartCut
  <2>2. CASE \E p \in Procs : Crash(p)
    <3>1. tra'[j] = tra[j] \/ tra'[j] = NoTra
      BY <2>2 DEF Crash
    <3>2. tra'[j] # NoTra
      BY <1>3 DEF Plain, Taken, Live, At, NoTra
    <3> QED
      BY <1>1, <1>2, <1>3, <3>1, <3>2, OtherCut
  <2>3. ASSUME NEW i \in Numbers, Step(i) PROVE CutOf(j)'
    <3>1. CASE j = i
      BY <1>1, <1>2, <1>3, <2>3, <3>1, ItsCut
    <3>2. CASE j # i
      <4>1. tra'[j] = tra[j]
        BY <2>3, <3>2 DEF Step, Copy, Extend, Fill, Trim, Scan, Clean, Query, Publish, End, Retain, Release, RetainState,
             RetainEnd, Wait, Sweep, Swept, Advance, Holds, OwnInv, TypeInv
      <4> QED
        BY <1>1, <1>2, <1>3, <4>1, OtherCut
    <3> QED
      BY <3>1, <3>2
  <2>4. CASE Open \/ UNCHANGED vars
    <3>1. tra' = tra
      BY <2>4 DEF Open, vars
    <3> QED
      BY <1>1, <1>2, <1>3, <3>1, OtherCut
  <2> QED
    BY <2>1, <2>2, <2>3, <2>4 DEF Next
<1> QED
  BY <1>2, <1>3 DEF CutInv

\* What a snapshot that is started sees is what it shows.
LEMMA CutShows ==
  ASSUME OwnInv, CutInv
  PROVE  NeighboursAreCut
<1> SUFFICES ASSUME NEW i \in Numbers, Taken(i), Started(i), i % Cleanup # 0,
                    NEW k \in 1..Len(commits), NEW l \in 1..Len(commits), k < l, commits[k] <= i, commits[l] <= i,
                    Page(commits[l]) <= Page(commits[k]) + 1, Sees(i, commits[l])
    PROVE  Sees(i, commits[k])
  BY DEF NeighboursAreCut
<1>1. CutOf(i) /\ Live(i) /\ tra[i] \in Transaction
  BY LiveIs DEF Plain, Taken, CutInv, Live, At, OwnInv
<1>2. tra[i].pc \in {"scan", "settle", "query", "publish"}
  BY DEF Taken, Started
<1>3. tra[i].number = i /\ tra[i].top = i /\ Unended(i)
  BY <1>1, <1>2, ItsFacts DEF FitOf, Unended, SweepsOn, Starting, Looking
<1>4. tip[i] = "active"
  BY <1>1, <1>3, ItsFacts DEF ActiveOf
<1>5. Shows(i, commits[l])
  BY <1>1, <1>3, <1>4 DEF Sees, Shows, CutOf, CutInv, CommitsInv
<1>6. Shows(i, commits[k])
  BY <1>1, <1>2, <1>5 DEF CutOf, Read
<1> QED
  BY <1>3, <1>6 DEF Sees, Shows

\* No snapshot sees the later of two commits without the earlier one when they are
\* on one page or on neighbouring ones: TRA_get_inventory holds a page until it
\* has the next.
THEOREM SnapshotsCut == Spec /\ []NoGap => []NeighboursAreCut
<1>1. Init => CutInv
  BY DEF Init, CutInv, CommitsInv, Plain, Taken, Live, At, NoTra
<1>2. OwnInv /\ TrueInv /\ NoGap /\ CutInv /\ [Next]_vars => CutInv'
  BY NextCut DEF Holds
<1>3. OwnInv /\ CutInv => NeighboursAreCut
  BY CutShows
<1> QED
  BY <1>1, <1>2, <1>3, OwnInvariant, TrueInvariant, PTL DEF Spec

\* On at most two pages, what a snapshot sees is what had committed at one moment.
THEOREM TwoPagesCut ==
  ASSUME MaxTra < 2 * TransPerTip
  PROVE  Spec => []SnapshotIsACut
<1>1. NoGap
  BY TwoPages
<1>2. \A n \in Numbers : Page(n) \in {0, 1}
  <2> TAKE n \in Numbers
  <2>1. n \in Nat /\ n <= MaxTra /\ MaxTra \in Nat /\ TransPerTip \in Nat
    BY NumberIn, TransactionsAssumption DEF Numbers
  <2>2. Page(n) \in Nat /\ Page(n) * TransPerTip <= n
    BY <2>1, PageIs
  <2> SUFFICES ASSUME 2 <= Page(n) PROVE FALSE
    BY <2>2
  <2>3. 2 * TransPerTip <= Page(n) * TransPerTip
    BY <2>1, <2>2, ProductGrows
  <2> QED
    BY <2>1, <2>2, <2>3
<1>3. Init => CutInv
  BY DEF Init, CutInv, CommitsInv, Plain, Taken, Live, At, NoTra
<1>4. OwnInv /\ TrueInv /\ NoGap /\ CutInv /\ [Next]_vars => CutInv'
  BY NextCut DEF Holds
<1>5. OwnInv /\ CutInv => SnapshotIsACut
  <2>1. ASSUME CutInv, NEW k \in 1..Len(commits), NEW l \in 1..Len(commits)
        PROVE  Page(commits[l]) <= Page(commits[k]) + 1
    <3>1. Page(commits[k]) \in {0, 1} /\ Page(commits[l]) \in {0, 1}
      BY <1>2, <2>1 DEF CutInv, CommitsInv
    <3> QED
      BY <3>1
  <2> QED
    BY <2>1, CutShows DEF SnapshotIsACut, NeighboursAreCut
<1> QED
  BY <1>1, <1>3, <1>4, <1>5, OwnInvariant, TrueInvariant, PTL DEF Spec

(***************************************************************************)
(* The inductive invariant of the limits of garbage collection             *)
(***************************************************************************)

\* A snapshot whose transaction has not ended.
Reader(i) == Live(i) /\ tra[i].kind = "snapshot" /\ tra[i].pc # "release"

\* It sees whatever has committed below g, as far as it has read.
Safe(i, g) == \A n \in Numbers : n < g /\ tip[n] = "committed" /\ Read(i, n) => Sees(i, n)

\* What its locks tell the others is safe for it, ...
HeldOf(i) ==
  /\ AllFinal(lock[tra[i].number]) /\ Safe(i, lock[tra[i].number])
  /\ tra[i].local.new # 0 => AllFinal(lock[tra[i].local.new]) /\ Safe(i, lock[tra[i].local.new])

\* ... what the loop over active numbers has come to, ...
LimitOf(i) ==
  /\ tra[i].pc \in {"inventory", "copy", "scan", "settle"} => Safe(i, tra[i].local.active)
  /\ tra[i].pc \in {"query", "publish"} => Safe(i, tra[i].local.oat)

\* ... and what it does not see is not there, or not yet.
DeadOf(i) == \A n \in Numbers : tra[i].transactions[n] = "dead" => tip[n] = "dead"

\* It goes on seeing its own changes.
RetainOf(i) ==
  LET t == tra[i] IN
  /\ t.local.new # 0 =>
       /\ t.number < t.local.new /\ t.local.state # "active"
       /\ t.local.state = "committed" => t.number \in t.subs
  /\ t.pc = "retained" => tip[t.number] = t.local.state

NeedOf(i) == HeldOf(i) /\ LimitOf(i) /\ DeadOf(i) /\ RetainOf(i)

\* A limit everybody may go by.
Kept(g) ==
  /\ g <= MaxTra /\ AllFinal(g)
  /\ \A i \in Numbers : Reader(i) /\ i \notin overtaken => Safe(i, g)

\* The number a snapshot has, or will have.
Newest(i) == Most(tra[i].number, tra[i].local.new)

\* Whatever g overtakes is younger than j.
Under(j, g) == \A i \in Numbers : Reader(i) /\ i \notin overtaken /\ Newest(i) <= j => Safe(i, g)

\* The limit a transaction goes by, has made known, has found.
FoundOf(j) ==
  LET t == tra[j] IN
  /\ t.pc \in Starting => t.local.ost <= header.ost
  /\ t.pc \notin Starting \union {"advance"} => t.oldest_active <= dbb[t.proc].ost
  /\ t.pc = "publish" => Under(j, t.oldest_active)

NeedInv ==
  /\ \A i \in Numbers : Reader(i) => NeedOf(i)
  /\ Kept(header.ost) /\ \A p \in Procs : Kept(dbb[p].ost)
  /\ \A j \in Numbers : Live(j) => FoundOf(j)

(***************************************************************************)
(* A limit that is safe stays safe                                         *)
(***************************************************************************)

\* Whatever is safe for i stays so.
Stable(i) == \A g \in Nat : AllFinal(g) /\ Safe(i, g) => Safe(i, g)'

\* No number is below the first one.
LEMMA SafeZero ==
  ASSUME NEW i
  PROVE  AllFinal(0) /\ Safe(i, 0) /\ AllFinal(0)' /\ Safe(i, 0)'
<1>1. \A n \in Numbers : ~(n < 0)
  BY NumberIn
<1> QED
  BY <1>1 DEF AllFinal, Safe

LEMMA SafeLess ==
  ASSUME NEW i \in Numbers, NEW g \in Nat, NEW h \in Nat, g <= h
  PROVE  (Safe(i, h) => Safe(i, g)) /\ (AllFinal(h) => AllFinal(g))
<1>1. \A n \in Numbers : n < g => n < h
  BY NumberIn
<1> QED
  BY <1>1 DEF Safe, AllFinal

\* It still sees what it saw, and has not read on.
LEMMA StableIf ==
  ASSUME Settles, NEW i \in Numbers,
         \A n \in Numbers : tip[n] = "committed" /\ tip'[n] = "committed" /\ Sees(i, n) => Sees(i, n)',
         \A n \in Numbers : Read(i, n)' => Read(i, n)
  PROVE  Stable(i)
<1> SUFFICES ASSUME NEW g \in Nat, AllFinal(g), Safe(i, g), NEW n \in Numbers, n < g, tip'[n] = "committed", Read(i, n)'
    PROVE  Sees(i, n)'
  BY DEF Stable, Safe
<1>1. Final(n)
  BY DEF AllFinal
<1>2. tip[n] = "committed"
  BY <1>1, NumberIn DEF Settles
<1>3. Sees(i, n)
  BY <1>2 DEF Safe
<1> QED
  BY <1>2, <1>3

LEMMA StableSame ==
  ASSUME Settles, NEW i \in Numbers, tra'[i] = tra[i]
  PROVE  Stable(i)
<1>1. \A n \in Numbers : (Sees(i, n) => Sees(i, n)') /\ (Read(i, n)' => Read(i, n))
  BY DEF Sees, Read, Page
<1> QED
  BY <1>1, StableIf

\* A snapshot that has read the inventory and goes on with it.
SameView(i) ==
  /\ tra[i].pc \notin {"inventory", "copy"}
  /\ tra'[i].transactions = tra[i].transactions /\ tra'[i].oldest = tra[i].oldest /\ tra'[i].top = tra[i].top
  /\ tra'[i].number = tra[i].number /\ tra[i].subs \subseteq tra'[i].subs

LEMMA StableView ==
  ASSUME Settles, NEW i \in Numbers, SameView(i)
  PROVE  Stable(i)
<1>1. \A n \in Numbers : (Sees(i, n) => Sees(i, n)') /\ (Read(i, n)' => Read(i, n))
  BY DEF Sees, Read, Page, SameView
<1> QED
  BY <1>1, StableIf
(***************************************************************************)
(* What a step changes of a transaction                                    *)
(***************************************************************************)

\* The other transactions stay, ...
LEMMA StepOthers ==
  ASSUME TypeInv, NEW i \in Numbers, Step(i)
  PROVE  \A j \in Numbers \ {i} : tra'[j] = tra[j]
BY DEF Step, Copy, Extend, Fill, Trim, Scan, Clean, Query, Publish, End, Retain, Release, RetainState,
       RetainEnd, Wait, Sweep, Swept, Advance, TypeInv

\* ... and of itself what the actions do not name.
LEMMA StepKeeps ==
  ASSUME TypeInv, NEW i \in Numbers, Step(i), Live(i)'
  PROVE  /\ tra[i] \in Transaction /\ tra'[i].kind = tra[i].kind /\ tra'[i].top = tra[i].top
         /\ tra'[i].oldest = tra[i].oldest /\ tra'[i].proc = tra[i].proc
         /\ tra[i].subs \subseteq tra'[i].subs
         /\ tra'[i].pc \in Starting => tra'[i].local.ost = tra[i].local.ost /\ tra[i].pc \in Starting
         /\ tra[i].pc = "release" => tra[i].kind = "sweep"
<1>1. CASE Copy(i) \/ Extend(i) \/ Fill(i) \/ Trim(i)
  <2>1. tra[i] \in Transaction /\ tra[i].pc \in {"inventory", "copy", "extend", "fill", "cache", "trim"}
    BY <1>1, LiveIs DEF Copy, Extend, Fill, Trim, At
  <2>2. tra[i].local \in Local /\ tra \in [Numbers -> Transaction \union {NoTra}]
    BY <2>1, TypedTra DEF TypeInv
  <2>3. CASE Copy(i)
    BY <2>1, <2>2, <2>3 DEF Copy, Transaction, Local, Starting, Looking
  <2>4. CASE Extend(i)
    <3> DEFINE from == IF Cached(tra[i].proc) = {} THEN 0 ELSE (BackPage(tra[i].proc) + 1) * TransPerTip
               next == Page(Most(from, header.oit))
               last == Page(header.nt)
               read == [tra EXCEPT ![i].pc = "fill", ![i].local.trim = header.oit,
                          ![i].local.next = next, ![i].local.last = last]
    <3>1. tra' = [tra EXCEPT ![i].pc = "scan"] \/ tra' = read
      BY <2>4 DEF Extend
    <3>2. tra[i].pc = "extend"
      BY <2>4 DEF Extend, At
    <3> HIDE DEF next, last
    <3> QED
      BY <2>1, <2>2, <3>1, <3>2 DEF Transaction, Local, Starting, Looking
  <2>5. CASE Fill(i)
    BY <2>1, <2>2, <2>5 DEF Fill, Transaction, Local, Starting, Looking
  <2>6. CASE Trim(i)
    BY <2>1, <2>2, <2>6 DEF Trim, Transaction, Local, Starting, Looking
  <2> QED
    BY <1>1, <2>3, <2>4, <2>5, <2>6
<1>2. CASE Scan(i) \/ Query(i)
  <2>1. tra[i] \in Transaction /\ tra[i].pc \in Starting \ {"release"}
    BY <1>2, LiveIs DEF Scan, Query, At, Starting, Looking
  <2>2. CASE Query(i)
    BY <2>1, <2>2, TypedTra DEF Query, TypeInv, Transaction, Local, Starting, Looking
  <2>3. CASE Scan(i)
    BY <2>1, <2>3, TypedTra DEF Scan, TypeInv, Transaction, Local, Starting, Looking
  <2> QED
    BY <1>2, <2>2, <2>3
<1>3. CASE Clean(i)
  <2>1. tra[i] \in Transaction /\ tra[i].pc = "settle"
    BY <1>3, LiveIs DEF Clean, At
  <2>2. tra[i].local \in Local /\ tra \in [Numbers -> Transaction \union {NoTra}]
    BY <2>1, TypedTra DEF TypeInv
  <2>3. PICK view, clean : tra' = [tra EXCEPT ![i].transactions = view, ![i].local.cleanup = clean,
                                              ![i].local.active = @ + 1, ![i].pc = "scan"]
    <3> DEFINE n == tra[i].local.active
               state == GetState(tra[i].proc, n)
               view == [tra[i].transactions EXCEPT ![n] = IF tra[i].kind = "snapshot" THEN Settled(state) ELSE @]
    <3>1. tra' = [tra EXCEPT ![i].transactions = view, ![i].local.cleanup = (state # "committed"),
                             ![i].local.active = @ + 1, ![i].pc = "scan"]
      BY <1>3, <2>1, <2>2, TypedTra DEF Clean
    <3> QED
      BY <3>1
  <2> QED
    BY <2>1, <2>2, <2>3 DEF Transaction, Local, Starting, Looking
<1>4. CASE Publish(i)
  <2>1. tra[i] \in Transaction /\ tra[i].pc \in Starting \ {"release"}
    BY <1>4, LiveIs DEF Publish, At, Starting, Looking
  <2> QED
    BY <1>4, <2>1, TypedTra DEF Publish, TypeInv, Transaction, Starting, Looking
<1>5. CASE \E state \in Ends : End(i, state) \/ Retain(i, state)
  <2>1. PICK state \in Ends : End(i, state) \/ Retain(i, state)
    BY <1>5
  <2>2. tra[i] \in Transaction /\ tra[i].pc \in {"running", "precommit"}
    BY <2>1, LiveIs DEF End, Retain, At
  <2>3. tra[i].local \in Local /\ tra \in [Numbers -> Transaction \union {NoTra}]
    BY <2>2, TypedTra DEF TypeInv
  <2>4. CASE End(i, state)
    BY <2>2, <2>3, <2>4 DEF End, Transaction, Local, Starting, Looking
  <2>5. CASE Retain(i, state)
    BY <2>2, <2>3, <2>5 DEF Retain, Transaction, Local, Starting, Looking
  <2> QED
    BY <2>1, <2>4, <2>5
<1>6. CASE Release(i)
  <2>1. tra[i] \in Transaction
    BY <1>6, LiveIs DEF Release, At
  <2>2. tra[i].kind = "sweep"
    BY <1>6, <2>1 DEF Release, Live, At, NoTra, TypeInv
  <2> QED
    BY <1>6, <2>1, <2>2, TypedTra DEF Release, TypeInv, Transaction, Starting, Looking
<1>7. CASE RetainState(i) \/ RetainEnd(i) \/ Sweep(i) \/ Swept(i)
  <2>1. tra[i] \in Transaction /\ tra[i].pc \in {"retain", "retained", "running", "sweeping"}
    BY <1>7, LiveIs DEF RetainState, RetainEnd, Sweep, Swept, At
  <2>2. tra[i].local \in Local /\ tra \in [Numbers -> Transaction \union {NoTra}]
    BY <2>1, TypedTra DEF TypeInv
  <2>3. CASE RetainState(i)
    BY <2>1, <2>2, <2>3 DEF RetainState, Transaction, Local, Starting, Looking
  <2>4. CASE RetainEnd(i)
    BY <2>1, <2>2, <2>4 DEF RetainEnd, Transaction, Local, Starting, Looking
  <2>5. CASE Sweep(i)
    BY <2>1, <2>2, <2>5 DEF Sweep, Transaction, Local, Starting, Looking
  <2>6. CASE Swept(i)
    BY <2>1, <2>2, <2>6 DEF Swept, Transaction, Local, Starting, Looking
  <2> QED
    BY <1>7, <2>3, <2>4, <2>5, <2>6
<1>8. CASE \E n \in Numbers : Wait(i, n)
  <2>1. PICK n \in Numbers : Wait(i, n)
    BY <1>8
  <2>2. tra[i] \in Transaction /\ tra[i].pc = "running"
    BY <2>1, LiveIs DEF Wait, At
  <2> QED
    BY <2>1, <2>2, TypedTra DEF Wait, TypeInv, Transaction, Local, Starting, Looking
<1>9. CASE Advance(i)
  BY <1>9 DEF Advance, Live, At, NoTra, TypeInv
<1> QED
  BY <1>1, <1>2, <1>3, <1>4, <1>5, <1>6, <1>7, <1>8, <1>9 DEF Step

\* What TRA_wait tells of a number whose lock nobody holds.
LEMMA SettleView ==
  ASSUME Holds, NEW i \in Numbers, Live(i), NEW p \in Procs, p = tra[i].proc, ~Empty(p), NEW n \in Numbers,
         lock[n] = 0, Settle(i, n, GetState(p, n)), Settles
  PROVE  /\ Settled(GetState(p, n)) = "dead" => tip'[n] = "dead"
         /\ tip'[n] = "committed" => GetState(p, n) = "committed"
<1>0. n \in 0..MaxTra /\ TypeInv /\ Sound(p)
  BY NumberIn DEF Holds, OwnInv, TrueInv, PagesInv, PagesOf
<1>1. GetState(p, n) = "dead" => tip[n] = "dead"
  <2> SUFFICES ASSUME GetState(p, n) = "dead", tip[n] # "dead" PROVE FALSE
    OBVIOUS
  <2>1. n \notin Gap(p)
    BY <1>0, NoneInGap
  <2>2. cache[p][n] # "dead" /\ cache[p][n] \in Stored
    BY <1>0 DEF Sound, TypeInv
  <2> QED
    BY <2>1, <2>2 DEF GetState, Stored, States
<1>2. GetState(p, n) \in States
  BY <1>0, GetStateType
<1>3. CASE GetState(p, n) = "active"
  <2>1. SetState(p, n, "dead")
    BY <1>3 DEF Settle
  <2>2. tip'[n] = "dead"
    <3>1. tip' = [tip EXCEPT ![n] = "dead"]
      BY <2>1 DEF SetState
    <3> QED
      BY <1>0, <3>1 DEF TypeInv, Inventory
  <2> QED
    BY <2>2
<1>4. CASE GetState(p, n) # "active"
  <2>1. tip' = tip
    BY <1>4 DEF Settle
  <2> QED
    BY <1>1, <1>2, <1>4, <2>1 DEF Settled, States
<1> QED
  BY <1>3, <1>4
(***************************************************************************)
(* What a snapshot sees while it makes a step                              *)
(***************************************************************************)

\* A snapshot before its step.
LEMMA ReaderIs ==
  ASSUME Holds, NEW i \in Numbers, Reader(i)
  PROVE  /\ tra[i] \in Transaction /\ FitOf(i) /\ LockOf(i) /\ ActiveOf(i) /\ LoadOf(i) /\ KnowsOf(i)
         /\ tra[i].number \in Numbers /\ i \in Nat /\ i <= MaxTra /\ i <= header.nt /\ tra[i].top = i
         /\ tra[i].local.new \in Nat /\ (tra[i].local.new # 0 => tra[i].local.new \in Numbers)
         /\ tra[i].number <= header.nt /\ tra[i].local.new <= header.nt
         /\ tra[i].pc # "retained" => Unended(i) /\ tip[tra[i].number] = "active"
         /\ tra[i].local.new # 0 => tip[tra[i].local.new] = "active"
<1>1. tra[i] \in Transaction
  BY LiveIs DEF Reader, Live, At, Holds, OwnInv
<1>2. /\ FitOf(i) /\ LockOf(i) /\ ActiveOf(i) /\ LoadOf(i) /\ KnowsOf(i)
      /\ tra[i].number \in Numbers /\ i \in Nat /\ i <= MaxTra /\ i <= header.nt
  BY <1>1, ItsTruth
<1>3. /\ tra[i].local.new \in Nat /\ (tra[i].local.new # 0 => tra[i].local.new \in Numbers)
      /\ tra[i].number <= header.nt /\ tra[i].local.new <= header.nt
  BY <1>1, ItsFacts DEF Holds
<1>4. tra[i].pc # "retained" => Unended(i)
  BY DEF Reader, Unended, SweepsOn
<1> QED
  BY <1>1, <1>2, <1>3, <1>4 DEF FitOf, ActiveOf

\* One page of the copy: what is final on it is seen.
LEMMA CopyStable ==
  ASSUME Holds, Settles, NEW i \in Numbers, Copy(i), Reader(i)
  PROVE  Stable(i)
<1> DEFINE c == tra[i].local.next
<1>0. TypeInv
  BY DEF Holds, OwnInv
<1>1. /\ tra[i] \in Transaction /\ tra[i].pc \in {"inventory", "copy"}
      /\ tra'[i].pc \in {"copy", "scan"} /\ (tra'[i].pc = "scan" => ~(c < tra[i].local.last))
      /\ tra'[i].local.next = c + 1 /\ c \in Nat /\ tra'[i].oldest = tra[i].oldest /\ tra'[i].top = tra[i].top
      /\ tra'[i].number = tra[i].number
  BY <1>0, CopyEffect, TypedTra DEF Goes, KeepsNumbers
<1>2. /\ tra[i].top = i /\ i \in Nat /\ c <= tra[i].local.last /\ tra[i].local.last = Page(i)
      /\ tra[i].number = i /\ ~Final(i)
  BY <1>1, ReaderIs DEF FitOf, LoadOf, Starting, Looking, Final
<1>3. /\ tra'[i].subs = tra[i].subs
      /\ tra'[i].transactions = [n \in 0..MaxTra |->
           IF Page(n) = c /\ n <= tra[i].top THEN tip[n] ELSE tra[i].transactions[n]]
      /\ tip' = tip
  BY <1>0, <1>1, TypedTra DEF Copy, pages, TypeInv, Transaction, Local
<1> HIDE DEF c
<1> SUFFICES ASSUME NEW g \in Nat, AllFinal(g), Safe(i, g), NEW n \in Numbers, n < g, tip'[n] = "committed", Read(i, n)'
    PROVE  Sees(i, n)'
  BY DEF Stable, Safe
<1>4. n \in Nat /\ n \in 0..MaxTra /\ Page(n) \in Nat
  BY NumberIn, PageIs
<1>5. g <= i /\ n < i
  BY <1>2, <1>4 DEF AllFinal
<1>6. CASE Page(n) = c
  BY <1>1, <1>2, <1>3, <1>4, <1>5, <1>6 DEF Sees
<1>7. CASE Page(n) # c
  <2>1. Page(n) <= c
    <3>1. CASE tra'[i].pc = "copy"
      <4>1. Page(n) < c + 1
        BY <1>1, <3>1 DEF Read, Page
      <4> QED
        BY <1>1, <1>4, <4>1
    <3>2. CASE tra'[i].pc = "scan"
      <4>1. Page(n) <= Page(i) /\ Page(i) \in Nat
        BY <1>2, <1>4, <1>5, PageOrder, PageIs
      <4> QED
        BY <1>1, <1>2, <1>4, <3>2, <4>1
    <3> QED
      BY <1>1, <3>1, <3>2
  <2>2. Page(n) < c
    BY <1>1, <1>4, <1>7, <2>1
  <2>3. Read(i, n)
    BY <2>2 DEF Read, c
  <2>4. Sees(i, n)
    BY <1>3, <2>3 DEF Safe
  <2>5. tra'[i].transactions[n] = tra[i].transactions[n]
    BY <1>3, <1>4, <1>7
  <2> QED
    BY <1>1, <1>3, <2>4, <2>5 DEF Sees
<1> QED
  BY <1>6, <1>7

\* The loop over active numbers has waited for one.
LEMMA CleanStable ==
  ASSUME Holds, Settles, NEW i \in Numbers, Clean(i), Reader(i), Reader(i)', Step(i)
  PROVE  Stable(i) /\ \A n \in Numbers :
           (tra'[i].transactions[n] = "dead" /\ n = tra[i].local.active => tip'[n] = "dead")
           /\ (tip'[n] = "committed" /\ n = tra[i].local.active => tra'[i].transactions[n] = "committed")
<1>0. TypeInv
  BY DEF Holds, OwnInv
<1>1. /\ tra[i] \in Transaction /\ tra[i].pc = "settle" /\ LockOf(i) /\ LoadOf(i) /\ Live(i)
      /\ tra[i].top = i /\ i \in Nat
  BY <1>0, LiveIs, ReaderIs DEF Clean, At, Reader
<1>2. PICK a \in Numbers : a = tra[i].local.active /\ lock[a] = 0
  BY <1>1 DEF LockOf, At
<1>3. PICK p \in Procs : p = tra[i].proc
  BY <1>1, TypedTra
<1>4. /\ Goes(i, "scan") /\ KeepsNumbers(i)
      /\ \A m \in 0..MaxTra : tra'[i].transactions[m] =
           IF m = a THEN Settled(GetState(p, a)) ELSE tra[i].transactions[m]
      /\ Settle(i, a, GetState(p, a))
  <2>1. a \in 0..MaxTra
    BY NumberIn
  <2> QED
    BY <1>0, <1>2, <1>3, <2>1, CleanEffect DEF Reader
<1>5. ~Empty(p)
  BY <1>1, <1>3 DEF LoadOf
<1>6. /\ Settled(GetState(p, a)) = "dead" => tip'[a] = "dead"
      /\ tip'[a] = "committed" => GetState(p, a) = "committed"
  BY <1>1, <1>2, <1>3, <1>4, <1>5, SettleView
<1>7. tra[i].subs \subseteq tra'[i].subs
  BY <1>0, StepKeeps DEF Reader
<1>8. ASSUME NEW n \in Numbers, tip'[n] = "committed", Sees(i, n) PROVE Sees(i, n)'
  <2>1. CASE n = a
    <3>1. tra'[i].transactions[n] = "committed"
      BY <1>4, <1>6, <1>8, <2>1, NumberIn DEF Settled
    <3> QED
      BY <1>4, <1>7, <1>8, <3>1 DEF Sees, Goes, KeepsNumbers
  <2>2. CASE n # a
    BY <1>4, <1>7, <1>8, <2>2, NumberIn DEF Sees, Goes, KeepsNumbers
  <2> QED
    BY <2>1, <2>2
<1>9. Stable(i)
  BY <1>1, <1>8, StableIf DEF Read
<1> QED
  BY <1>2, <1>4, <1>6, <1>9, NumberIn DEF Settled

\* It has waited for a transaction: what it adjusts has not committed.
LEMMA WaitStable ==
  ASSUME Holds, Settles, NEW i \in Numbers, NEW n \in Numbers, Wait(i, n), Reader(i), Reader(i)', Step(i)
  PROVE  Stable(i) /\ (tra'[i].transactions[n] = "dead" => tip'[n] = "dead" \/ tra[i].transactions[n] = "dead")
<1>0. TypeInv
  BY DEF Holds, OwnInv
<1>1. /\ tra[i].pc = "running" /\ Goes(i, "running") /\ KeepsNumbers(i)
      /\ \A m \in 0..MaxTra : tra'[i].transactions[m] =
           IF m = n /\ GetState(tra[i].proc, n) # "committed" /\ n <= tra[i].top
           THEN Settled(GetState(tra[i].proc, n)) ELSE tra[i].transactions[m]
      /\ lock[n] = 0 /\ Settle(i, n, GetState(tra[i].proc, n))
  BY <1>0, WaitEffect DEF Reader
<1>2. tra[i] \in Transaction /\ Live(i) /\ LoadOf(i) /\ n \in 0..MaxTra
  BY ReaderIs, NumberIn DEF Reader
<1>3. PICK p \in Procs : p = tra[i].proc
  BY <1>2, TypedTra
<1>4. ~Empty(p)
  BY <1>1, <1>2, <1>3 DEF LoadOf
<1>5. /\ Settled(GetState(p, n)) = "dead" => tip'[n] = "dead"
      /\ tip'[n] = "committed" => GetState(p, n) = "committed"
  BY <1>1, <1>2, <1>3, <1>4, SettleView
<1>7. tra[i].subs \subseteq tra'[i].subs
  BY <1>0, StepKeeps DEF Reader
<1>8. ASSUME NEW m \in Numbers, tip'[m] = "committed", Sees(i, m) PROVE Sees(i, m)'
  <2>1. m # n \/ GetState(p, n) = "committed"
    BY <1>5, <1>8
  <2> QED
    BY <1>1, <1>3, <1>7, <1>8, <2>1, NumberIn DEF Sees, Goes, KeepsNumbers
<1>9. Stable(i)
  BY <1>1, <1>8, StableIf DEF Read
<1> QED
  BY <1>1, <1>2, <1>3, <1>5, <1>9

\* It goes on with its new number, having noted that the old one was its own.
LEMMA RetainEndStable ==
  ASSUME Holds, Settles, NEW i \in Numbers, RetainEnd(i), Reader(i), RetainOf(i), Reader(i)', Step(i)
  PROVE  Stable(i)
<1>0. TypeInv
  BY DEF Holds, OwnInv
<1>1. /\ tra[i].pc = "retained" /\ Goes(i, "running") /\ KeepsView(i)
  BY <1>0, RetainEndEffect
<1>2. FitOf(i)
  BY ReaderIs
<1>3. tra[i].local.new # 0
  BY <1>1, <1>2 DEF FitOf
<1>4. tip[tra[i].number] = "committed" => tra[i].number \in tra[i].subs
  BY <1>1, <1>3 DEF RetainOf
<1>5. tra[i].subs \subseteq tra'[i].subs
  BY <1>0, StepKeeps DEF Reader
<1>6. ASSUME NEW n \in Numbers, tip[n] = "committed", Sees(i, n) PROVE Sees(i, n)'
  BY <1>1, <1>4, <1>5, <1>6 DEF Sees, Goes, KeepsView
<1> QED
  BY <1>1, <1>6, StableIf DEF Read

\* Every step of a snapshot.
LEMMA StepStable ==
  ASSUME Holds, Settles, NEW i \in Numbers, Step(i), Reader(i), RetainOf(i), Reader(i)'
  PROVE  Stable(i)
<1>0. TypeInv /\ OwnInv
  BY DEF Holds, OwnInv
<1>1. /\ tra[i] \in Transaction /\ tra[i].kind = "snapshot" /\ FitOf(i) /\ Live(i)
      /\ tra'[i].pc # "release" /\ tra'[i].top = tra[i].top /\ tra'[i].oldest = tra[i].oldest
      /\ tra[i].subs \subseteq tra'[i].subs
  BY <1>0, ReaderIs, StepKeeps DEF Reader
<1>2. CASE Scan(i)
  <2>1. PICK n \in NextActive(tra[i]) : ScanTo(i, n)
    BY <1>2, ScanIs
  <2>2. tra[i].pc = "scan"
    BY <1>2 DEF Scan, At
  <2>3. tra'[i].transactions = tra[i].transactions /\ tra'[i].number = tra[i].number
    BY <1>0, <1>1, <1>2, <2>2, TypedTra DEF Scan, TypeInv, Transaction
  <2> QED
    BY <1>1, <2>2, <2>3, StableView DEF SameView
<1>3. CASE Query(i) \/ Publish(i) \/ (\E state \in Ends : Retain(i, state)) \/ RetainState(i)
  <2>1. tra[i].pc \in {"query", "publish", "running", "retain"}
    BY <1>3 DEF Query, Publish, Retain, RetainState, At
  <2>2. KeepsView(i) /\ tra'[i].number = tra[i].number
    <3>1. CASE Query(i)
      <4>1. tra[i].pc = "query" /\ LockOf(i) /\ tra[i].number \in Numbers
        BY <3>1, ReaderIs DEF Query, At
      <4>2. lock[tra[i].number] # 0
        BY <4>1, NumberIn DEF LockOf, SweepsOn, Owns
      <4> QED
        BY <1>0, <3>1, <4>1, <4>2, QueryEffect DEF KeepsNumbers
    <3>2. CASE Publish(i)
      BY <1>0, <3>2, PublishEffect
    <3>3. CASE \E state \in Ends : Retain(i, state)
      BY <1>0, <3>3, RetainEffect
    <3>4. CASE RetainState(i)
      BY <1>0, <3>4, RetainStateEffect DEF KeepsNumbers
    <3> QED
      BY <1>3, <3>1, <3>2, <3>3, <3>4
  <2> QED
    BY <1>1, <2>1, <2>2, StableView DEF SameView, KeepsView
<1>4. CASE Copy(i)
  BY <1>4, CopyStable
<1>5. CASE Clean(i)
  BY <1>5, CleanStable
<1>6. CASE \E n \in Numbers : Wait(i, n)
  BY <1>6, WaitStable
<1>7. CASE RetainEnd(i)
  BY <1>7, RetainEndStable
<1>8. CASE Extend(i) \/ Fill(i) \/ Trim(i)
  <2>1. tra[i].pc \in {"extend", "fill", "cache", "trim"}
    BY <1>8 DEF Extend, Fill, Trim, At
  <2> QED
    BY <1>1, <2>1 DEF FitOf
<1>9. CASE \E state \in Ends : End(i, state)
  BY <1>0, <1>1, <1>9, EndEffect DEF Goes
<1>10. CASE Release(i) \/ Sweep(i) \/ Swept(i) \/ Advance(i)
  BY <1>1, <1>10 DEF Release, Sweep, Swept, Advance, FitOf, At, Reader
<1> QED
  BY <1>2, <1>3, <1>4, <1>5, <1>6, <1>7, <1>8, <1>9, <1>10 DEF Step
(***************************************************************************)
(* What a snapshot needs                                                   *)
(***************************************************************************)

\* Its locks keep their data, or lose it.
LEMMA HeldSame ==
  ASSUME Holds, Settles, NEW i \in Numbers, Reader(i), HeldOf(i), Stable(i),
         tra'[i].number = tra[i].number, tra'[i].local.new = tra[i].local.new,
         lock'[tra[i].number] \in {lock[tra[i].number], 0},
         tra[i].local.new # 0 => lock'[tra[i].local.new] \in {lock[tra[i].local.new], 0}
  PROVE  HeldOf(i)'
<1>1. tra[i].number \in Numbers /\ (tra[i].local.new # 0 => tra[i].local.new \in Numbers)
  BY ReaderIs
<1>2. ASSUME NEW m \in Numbers, AllFinal(lock[m]), Safe(i, lock[m]), lock'[m] \in {lock[m], 0}
      PROVE  \A n \in Numbers : n < lock'[m] => Final(n)' /\ (tip'[n] = "committed" /\ Read(i, n)' => Sees(i, n)')
  <2>1. PICK g \in Nat : g = lock[m]
    BY LockNat DEF Holds, OwnInv
  <2>2. AllFinal(g)' /\ Safe(i, g)'
    BY <1>2, <2>1, BoundsStay DEF Stable
  <2>3. PICK h \in Nat : h = lock'[m] /\ (h = g \/ h = 0)
    BY <1>2, <2>1
  <2>4. AllFinal(h)' /\ Safe(i, h)'
    BY <2>2, <2>3, SafeZero
  <2> QED
    BY <2>3, <2>4 DEF AllFinal, Safe
<1> QED
  BY <1>1, <1>2 DEF HeldOf, AllFinal, Safe, Final

\* The loop has come to where it was.
LEMMA LimitSame ==
  ASSUME Holds, Settles, NEW i \in Numbers, Reader(i), LimitOf(i), Stable(i),
         tra'[i].pc \in {"inventory", "copy", "scan", "settle"} =>
           tra[i].pc \in {"inventory", "copy", "scan", "settle"} /\ tra'[i].local.active = tra[i].local.active,
         tra'[i].pc \in {"query", "publish"} =>
           tra[i].pc \in {"query", "publish"} /\ tra'[i].local.oat = tra[i].local.oat
  PROVE  LimitOf(i)'
<1>1. tra[i] \in Transaction /\ KnowsOf(i)
  BY ReaderIs
<1>2. CASE tra'[i].pc \in {"inventory", "copy", "scan", "settle"}
  <2>1. PICK g \in Nat : g = tra[i].local.active
    BY <1>1, TypedTra
  <2>2. AllFinal(g) /\ Safe(i, g)
    BY <1>1, <1>2, <2>1 DEF LimitOf, KnowsOf, Looking
  <2>3. Safe(i, g)'
    BY <2>2 DEF Stable
  <2> QED
    BY <1>2, <2>1, <2>3 DEF LimitOf, Safe
<1>3. CASE tra'[i].pc \in {"query", "publish"}
  <2>1. PICK g \in Nat : g = tra[i].local.oat
    BY <1>1, TypedTra
  <2>2. AllFinal(g) /\ Safe(i, g)
    BY <1>1, <1>3, <2>1 DEF LimitOf, KnowsOf
  <2>3. Safe(i, g)'
    BY <2>2 DEF Stable
  <2> QED
    BY <1>3, <2>1, <2>3 DEF LimitOf, Safe
<1>4. CASE tra'[i].pc \notin {"inventory", "copy", "scan", "settle", "query", "publish"}
  BY <1>4 DEF LimitOf
<1> QED
  BY <1>2, <1>3, <1>4

LEMMA DeadSame ==
  ASSUME Settles, NEW i \in Numbers, DeadOf(i),
         \A n \in Numbers : tra'[i].transactions[n] = "dead" => tra[i].transactions[n] = "dead" \/ tip'[n] = "dead"
  PROVE  DeadOf(i)'
BY NumberIn DEF DeadOf, Settles, Final

\* A transaction that makes no step, whatever becomes of its locks.
LEMMA NeedSame ==
  ASSUME Holds, Settles, NEW i \in Numbers, Reader(i), NeedOf(i), tra'[i] = tra[i],
         \A n \in Numbers : Owns(i, n) => lock'[n] \in {lock[n], 0}
  PROVE  NeedOf(i)'
<1>1. Stable(i)
  BY StableSame
<1>2. tra[i].number \in Numbers /\ (tra[i].local.new # 0 => tra[i].local.new \in Numbers) /\ FitOf(i)
  BY ReaderIs
<1>3. HeldOf(i)'
  BY <1>1, <1>2, NumberIn, HeldSame DEF NeedOf, Owns
<1>4. LimitOf(i)'
  BY <1>1, LimitSame DEF NeedOf
<1>5. DeadOf(i)'
  BY DeadSame DEF NeedOf
<1>6. RetainOf(i)'
  BY <1>2, NumberIn DEF NeedOf, RetainOf, FitOf, Settles, Final
<1> QED
  BY <1>3, <1>4, <1>5, <1>6 DEF NeedOf

\* Where no new number is waited with, nothing is to be said of it.
LEMMA RetainGone ==
  ASSUME OwnInv', NEW i \in Numbers, Reader(i)', tra'[i].pc \notin {"retain", "retained"}
  PROVE  RetainOf(i)' /\ tra'[i].local.new = 0
<1>1. FitOf(i)'
  BY DEF OwnInv, FitInv, Reader
<1> QED
  BY <1>1 DEF FitOf, RetainOf

\* The data of a lock is changed by its owner.
LEMMA OthersLocks ==
  ASSUME Holds, NEW j \in Numbers, Step(j), NEW i \in Numbers, i # j, Reader(i), NEW n \in Numbers, Owns(i, n)
  PROVE  lock'[n] = lock[n]
<1>0. TypeInv /\ OwnInv
  BY DEF Holds, OwnInv
<1>1. CASE lock' = lock
  BY <1>1
<1>2. ASSUME NEW v, lock' = [lock EXCEPT ![tra[j].number] = v], tra[j].pc # "none"
      PROVE  lock'[n] = lock[n]
  <2>1. Live(j) /\ Live(i) /\ tra[j].number \in Numbers
    BY <1>0, <1>2, LiveIs, ItsFacts DEF Reader
  <2>2. Owns(j, tra[j].number)
    BY <2>1, NumberIn DEF Owns
  <2>3. n # tra[j].number
    BY <1>0, <2>1, <2>2 DEF OwnInv, NumberInv
  <2> QED
    BY <1>0, <1>2, <2>3 DEF TypeInv
<1>3. ASSUME NEW v, lock' = [lock EXCEPT ![header.nt + 1] = v]
      PROVE  lock'[n] = lock[n]
  <2>1. n <= header.nt /\ header.nt \in Nat
    BY <1>0, ReaderIs, HeaderType DEF Owns
  <2>2. n # header.nt + 1
    BY <2>1, NumberIn
  <2> QED
    BY <1>0, <1>3, <2>2 DEF TypeInv
<1>4. CASE \/ Copy(j) \/ Extend(j) \/ Fill(j) \/ Trim(j) \/ Scan(j) \/ Clean(j) \/ Query(j)
           \/ (\E state \in Ends : End(j, state)) \/ RetainState(j) \/ (\E m \in Numbers : Wait(j, m))
           \/ Sweep(j) \/ Swept(j) \/ Advance(j)
  BY <1>1, <1>4 DEF Copy, Extend, Fill, Trim, Scan, Clean, Query, End, RetainState, Wait, Sweep, Swept, Advance
<1>5. CASE Publish(j) \/ Release(j) \/ RetainEnd(j)
  BY <1>2, <1>5 DEF Publish, Release, RetainEnd, At
<1>6. CASE \E state \in Ends : Retain(j, state)
  BY <1>0, <1>3, <1>6, RetainEffect
<1> QED
  BY <1>4, <1>5, <1>6 DEF Step

(***************************************************************************)
(* A step of a snapshot                                                    *)
(***************************************************************************)

\* The data of its locks after a step.
LEMMA HeldIs ==
  ASSUME NEW i \in Numbers, NEW g \in Nat, g = lock'[tra'[i].number], AllFinal(g)', Safe(i, g)',
         tra'[i].local.new # 0 => lock'[tra'[i].local.new] = g
  PROVE  HeldOf(i)'
BY DEF HeldOf, AllFinal, Safe, Final

\* Where the loop over active numbers has come to.
LEMMA LimitIs ==
  ASSUME NEW i \in Numbers, NEW g \in Nat, Safe(i, g)',
         tra'[i].pc \in {"inventory", "copy", "scan", "settle"} => g = tra'[i].local.active,
         tra'[i].pc \in {"query", "publish"} => g = tra'[i].local.oat
  PROVE  LimitOf(i)'
<1>1. CASE tra'[i].pc \in {"inventory", "copy", "scan", "settle"}
  BY <1>1 DEF LimitOf, Safe
<1>2. CASE tra'[i].pc \in {"query", "publish"}
  BY <1>2 DEF LimitOf, Safe
<1>3. CASE tra'[i].pc \notin {"inventory", "copy", "scan", "settle", "query", "publish"}
  BY <1>3 DEF LimitOf
<1> QED
  BY <1>1, <1>2, <1>3

\* What it needs while its locks and its view stay.
LEMMA NeedMoves ==
  ASSUME Holds, Settles, OwnInv', NEW i \in Numbers, Reader(i), NeedOf(i), Stable(i), Reader(i)', NEW pc, Goes(i, pc),
         pc \notin {"retain", "retained"}, KeepsNumbers(i), lock' = lock, LimitOf(i)',
         \A n \in Numbers : tra'[i].transactions[n] = "dead" => tra[i].transactions[n] = "dead" \/ tip'[n] = "dead"
  PROVE  NeedOf(i)'
<1>1. HeldOf(i)'
  BY HeldSame DEF NeedOf, KeepsNumbers
<1>2. DeadOf(i)'
  BY DeadSame DEF NeedOf
<1>3. RetainOf(i)'
  BY RetainGone DEF Goes
<1> QED
  BY <1>1, <1>2, <1>3 DEF NeedOf

LEMMA CopyNeed ==
  ASSUME Holds, Settles, OwnInv', NEW i \in Numbers, Copy(i), Reader(i), NeedOf(i), Stable(i), Reader(i)'
  PROVE  NeedOf(i)'
<1>0. TypeInv
  BY DEF Holds, OwnInv
<1> DEFINE pc == IF tra[i].local.next < tra[i].local.last THEN "copy" ELSE "scan"
<1>1. /\ tra[i].pc \in {"inventory", "copy"} /\ Goes(i, pc) /\ KeepsNumbers(i) /\ KeepsLimits(i)
      /\ \A n \in 0..MaxTra : tra'[i].transactions[n] \in {tip[n], tra[i].transactions[n]}
      /\ UNCHANGED <<tip, lock>>
  BY <1>0, CopyEffect
<1>2. pc \in {"copy", "scan"}
  OBVIOUS
<1> HIDE DEF pc
<1>3. LimitOf(i)'
  BY <1>1, <1>2, LimitSame DEF Goes, KeepsLimits, NeedOf
<1> QED
  BY <1>1, <1>2, <1>3, NumberIn, NeedMoves

\* What the loop over active numbers passes over, it sees or is dead.
LEMMA ScanSafe ==
  ASSUME Holds, NEW i \in Numbers, tra[i].pc = "scan", Reader(i), NeedOf(i), NEW n \in NextActive(tra[i])
  PROVE  n \in Nat /\ n <= i /\ AllFinal(n) /\ Safe(i, n)
<1>1. tra[i] \in Transaction /\ tra[i].top = i /\ i \in Nat /\ tra[i].kind = "snapshot"
  BY ReaderIs DEF Reader
<1>2. n \in Nat /\ n <= i /\ AllFinal(n)
  BY <1>1, NextPasses DEF AllFinal
<1>3. ASSUME NEW m \in Numbers, m < n, tip[m] = "committed" PROVE Sees(i, m)
  <2>1. m \in Nat /\ tra[i].local.active \in Nat
    BY <1>1, NumberIn, TypedTra
  <2>2. CASE m < tra[i].local.active
    <3>1. Safe(i, tra[i].local.active)
      BY DEF NeedOf, LimitOf
    <3> QED
      BY <1>3, <2>2, <3>1 DEF Safe, Read
  <2>3. CASE tra[i].local.active <= m
    <3>1. m \in tra[i].local.active..(tra[i].top - 1)
      BY <1>1, <1>2, <1>3, <2>1, <2>3
    <3>2. tra[i].transactions[m] # "active"
      <4> SUFFICES ASSUME tra[i].transactions[m] = "active" PROVE FALSE
        OBVIOUS
      <4>1. n <= m
        BY <1>1, <3>1 DEF NextActive, Earliest
      <4> QED
        BY <1>2, <1>3, <2>1, <4>1
    <3>3. tra[i].transactions[m] # "dead"
      BY <1>3 DEF NeedOf, DeadOf
    <3>4. tra[i].transactions[m] \in States
      BY <1>1, TypedTra, NumberIn DEF Inventory
    <3> QED
      BY <1>1, <1>2, <1>3, <2>1, <3>2, <3>3, <3>4 DEF Sees, States
  <2> QED
    BY <2>1, <2>2, <2>3
<1> QED
  BY <1>2, <1>3 DEF Safe

LEMMA ScanNeed ==
  ASSUME Holds, Settles, OwnInv', NEW i \in Numbers, Scan(i), Reader(i), NeedOf(i), Stable(i), Reader(i)'
  PROVE  NeedOf(i)'
<1>0. TypeInv
  BY DEF Holds, OwnInv
<1>1. PICK n \in NextActive(tra[i]) : ScanTo(i, n)
  BY ScanIs
<1>2. tra[i].pc = "scan" /\ tra[i] \in Transaction /\ tra[i].top = i /\ i \in Nat /\ tra[i].local.oat = i
  BY <1>1, ReaderIs DEF ScanTo, At, KnowsOf, Looking
<1>3. n \in Nat /\ n <= i /\ AllFinal(n) /\ Safe(i, n)
  BY <1>2, ScanSafe
<1>4. Safe(i, n)'
  BY <1>3 DEF Stable
<1>5. ASSUME NEW pc, Goes(i, pc), pc \in {"settle", "query", "publish"}, KeepsNumbers(i), KeepsView(i), lock' = lock,
             LimitOf(i)'
      PROVE  NeedOf(i)'
  BY <1>5, NeedMoves DEF KeepsView
<1>6. CASE n = tra[i].top
  <2>1. Goes(i, "publish") /\ KeepsNumbers(i) /\ KeepsView(i) /\ KeepsLimits(i) /\ lock' = lock
    BY <1>0, <1>1, <1>3, <1>6, ScanPublish
  <2>2. LimitOf(i)'
    BY <1>2, <1>3, <1>4, <1>6, <2>1, LimitIs DEF Goes, KeepsLimits
  <2> QED
    BY <1>5, <2>1, <2>2
<1>7. CASE n # tra[i].top /\ lock[n] = 0 /\ tra[i].local.cleanup
  <2>1. Goes(i, "settle") /\ KeepsNumbers(i) /\ KeepsView(i) /\ tra'[i].local.active = n /\ lock' = lock
    BY <1>0, <1>1, <1>3, <1>7, ScanSettle
  <2>2. LimitOf(i)'
    BY <1>3, <1>4, <2>1, LimitIs DEF Goes
  <2> QED
    BY <1>5, <2>1, <2>2
<1>8. CASE n # tra[i].top /\ ~(lock[n] = 0 /\ tra[i].local.cleanup)
  <2> DEFINE pc == IF Least(tra[i].oldest_active, IF n < tra[i].top /\ lock[n] # 0 THEN lock[n] ELSE n) = tra[i].local.ost
                   THEN "publish" ELSE "query"
  <2>1. n \in Numbers
    <3>1. tra[i].local.active \in Nat /\ tra[i].local.active > 0 /\ ~Empty(tra[i].proc)
      BY <1>2, ReaderIs, TypedTra DEF FitOf, LoadOf, Starting, Looking
    <3>2. n = tra[i].top \/ tra[i].local.active <= n
      BY <1>2, <3>1, NextActiveRange
    <3>3. n > 0
      BY <1>2, <1>3, <1>8, <3>1, <3>2
    <3>4. i <= MaxTra /\ MaxTra \in Nat
      BY NumberIn DEF Numbers
    <3> QED
      BY <1>2, <1>3, <3>3, <3>4 DEF Numbers
  <2>2. Goes(i, pc) /\ KeepsNumbers(i) /\ KeepsView(i) /\ tra'[i].local.oat = Least(i, n) /\ lock' = lock
    BY <1>0, <1>1, <1>2, <1>8, <2>1, ScanQuery
  <2>3. pc \in {"query", "publish"}
    OBVIOUS
  <2> HIDE DEF pc
  <2>4. Least(i, n) = n
    BY <1>2, <1>3 DEF Least
  <2>5. LimitOf(i)'
    BY <1>3, <1>4, <2>2, <2>3, <2>4, LimitIs DEF Goes
  <2> QED
    BY <1>5, <2>2, <2>3, <2>5
<1> QED
  BY <1>6, <1>7, <1>8

LEMMA CleanNeed ==
  ASSUME Holds, Settles, OwnInv', NEW i \in Numbers, Clean(i), Reader(i), NeedOf(i), Step(i), Reader(i)'
  PROVE  NeedOf(i)'
<1>0. TypeInv
  BY DEF Holds, OwnInv
<1>1. /\ tra[i] \in Transaction /\ tra[i].pc = "settle" /\ LockOf(i) /\ KnowsOf(i) /\ FitOf(i) /\ tra[i].top = i /\ i \in Nat
      /\ tip[tra[i].number] = "active"
  <2>1. tra[i].pc = "settle"
    BY DEF Clean, At
  <2> QED
    BY <2>1, ReaderIs
<1>2. PICK a \in Numbers : a = tra[i].local.active
  BY <1>1 DEF LockOf, At
<1>3. /\ Goes(i, "scan") /\ KeepsNumbers(i) /\ tra'[i].local.active = a + 1 /\ lock' = lock
      /\ \A m \in 0..MaxTra : m # a => tra'[i].transactions[m] = tra[i].transactions[m]
  BY <1>0, <1>2, NumberIn, CleanEffect
<1>4. /\ Stable(i)
      /\ tra'[i].transactions[a] = "dead" => tip'[a] = "dead"
      /\ tip'[a] = "committed" => tra'[i].transactions[a] = "committed"
  BY <1>2, CleanStable
<1>5. a \in Nat /\ AllFinal(a) /\ Safe(i, a)
  BY <1>1, <1>2, NumberIn DEF KnowsOf, Looking, NeedOf, LimitOf
<1>6. a <= i
  BY <1>1, <1>5 DEF AllFinal, Final, FitOf, Starting, Looking
<1>7. Safe(i, a + 1)'
  <2> SUFFICES ASSUME NEW n \in Numbers, n < a + 1, tip'[n] = "committed" PROVE Sees(i, n)'
    BY DEF Safe
  <2>1. CASE n < a
    <3>1. Safe(i, a)'
      BY <1>4, <1>5 DEF Stable
    <3> QED
      BY <1>3, <2>1, <3>1 DEF Safe, Read, Goes
  <2>2. CASE n = a
    BY <1>1, <1>3, <1>4, <1>6, <2>2 DEF Sees, Goes
  <2> QED
    BY <1>5, <2>1, <2>2, NumberIn
<1>8. LimitOf(i)'
  <2>1. PICK b \in Nat : b = a + 1
    BY <1>5
  <2>2. Safe(i, b)'
    BY <1>7, <2>1
  <2>3. tra'[i].pc = "scan" /\ b = tra'[i].local.active
    BY <1>3, <2>1 DEF Goes
  <2> QED
    BY <2>2, <2>3, LimitIs
<1> QED
  BY <1>3, <1>4, <1>8, NumberIn, NeedMoves

LEMMA QueryNeed ==
  ASSUME Holds, Settles, OwnInv', NEW i \in Numbers, Query(i), Reader(i), NeedOf(i), Stable(i), Reader(i)'
  PROVE  NeedOf(i)'
<1>0. TypeInv
  BY DEF Holds, OwnInv
<1>1. tra[i].pc = "query" /\ LockOf(i) /\ tra[i].number \in Numbers
  BY ReaderIs DEF Query, At
<1>2. lock[tra[i].number] # 0
  BY <1>1, NumberIn DEF LockOf, SweepsOn, Owns
<1>3. Goes(i, "publish") /\ KeepsNumbers(i) /\ KeepsView(i) /\ tra'[i].local.oat = tra[i].local.oat /\ lock' = lock
  BY <1>0, <1>1, <1>2, QueryEffect
<1>4. LimitOf(i)'
  BY <1>1, <1>3, LimitSame DEF Goes, NeedOf
<1> QED
  BY <1>3, <1>4, NeedMoves DEF KeepsView

LEMMA PublishNeed ==
  ASSUME Holds, Settles, OwnInv', NEW i \in Numbers, Publish(i), Reader(i), NeedOf(i), Stable(i), Reader(i)'
  PROVE  NeedOf(i)'
<1>0. TypeInv
  BY DEF Holds, OwnInv
<1>1. tra[i].pc = "publish" /\ tra[i].kind = "snapshot" /\ KnowsOf(i) /\ tra[i].number \in Numbers /\ tra[i] \in Transaction
  BY ReaderIs DEF Publish, At, Reader
<1>2. /\ Goes(i, "running") /\ KeepsView(i) /\ tra'[i].number = tra[i].number /\ tra'[i].local.new = 0
      /\ lock' = [lock EXCEPT ![tra[i].number] = LockData(tra[i])]
  BY <1>0, <1>1, PublishEffect
<1>3. PICK g \in Nat : g = tra[i].local.oat
  BY <1>1, TypedTra
<1>4. AllFinal(g) /\ Safe(i, g)
  BY <1>1, <1>3 DEF KnowsOf, NeedOf, LimitOf
<1>5. AllFinal(g)' /\ Safe(i, g)'
  BY <1>4, BoundsStay DEF Stable
<1>6. lock'[tra'[i].number] = g
  BY <1>0, <1>1, <1>2, <1>3 DEF LockData, TypeInv
<1>7. HeldOf(i)'
  BY <1>2, <1>5, <1>6, HeldIs
<1>8. LimitOf(i)'
  BY <1>2 DEF LimitOf, Goes
<1>9. DeadOf(i)' /\ RetainOf(i)'
  BY <1>2, DeadSame, RetainGone DEF NeedOf, KeepsView, Goes
<1> QED
  BY <1>7, <1>8, <1>9 DEF NeedOf

LEMMA RetainNeed ==
  ASSUME Holds, Settles, OwnInv', NEW i \in Numbers, NEW state \in Ends, Retain(i, state), Reader(i), NeedOf(i), Stable(i),
         Reader(i)'
  PROVE  NeedOf(i)'
<1>0. TypeInv /\ state \in States
  BY EndsType DEF Holds, OwnInv
<1>1. /\ tra[i].pc = "running" /\ tra[i] \in Transaction /\ tra[i].number \in Numbers /\ tra[i].number <= header.nt
      /\ header.nt \in Nat
  BY <1>0, ReaderIs, HeaderType DEF Retain, At
<1>2. /\ Goes(i, "retain") /\ KeepsView(i) /\ tra'[i].number = tra[i].number /\ tra'[i].local.new = header.nt + 1
      /\ header.nt + 1 <= MaxTra /\ lock' = [lock EXCEPT ![header.nt + 1] = lock[tra[i].number]]
  BY <1>0, RetainEffect
<1>3. /\ tra'[i].local.state = state
      /\ tra'[i].subs = IF state = "committed" THEN tra[i].subs \union {tra[i].number} ELSE tra[i].subs
  BY <1>0, <1>1, TypedTra DEF Retain, TypeInv, Transaction, Local
<1>4. PICK g \in Nat : g = lock[tra[i].number]
  BY <1>0, <1>1, LockNat
<1>5. AllFinal(g) /\ Safe(i, g)
  BY <1>4 DEF NeedOf, HeldOf
<1>6. AllFinal(g)' /\ Safe(i, g)'
  BY <1>5, BoundsStay DEF Stable
<1>7. header.nt + 1 \in Numbers /\ tra[i].number # header.nt + 1 /\ tra[i].number < header.nt + 1
  BY <1>1, <1>2, NumberIn DEF Numbers
<1>8. lock'[tra'[i].number] = g /\ lock'[tra'[i].local.new] = g
  BY <1>0, <1>1, <1>2, <1>4, <1>7 DEF TypeInv
<1>9. HeldOf(i)'
  BY <1>6, <1>8, HeldIs
<1>10. LimitOf(i)'
  BY <1>2 DEF LimitOf, Goes
<1>11. DeadOf(i)'
  BY <1>2, DeadSame DEF NeedOf, KeepsView
<1>12. RetainOf(i)'
  <2>1. state # "active"
    BY TransactionsAssumption
  <2>2. tra'[i].pc = "retain"
    BY <1>2 DEF Goes
  <2> QED
    BY <1>2, <1>3, <1>7, <2>1, <2>2 DEF RetainOf
<1> QED
  BY <1>9, <1>10, <1>11, <1>12 DEF NeedOf

LEMMA RetainStateNeed ==
  ASSUME Holds, Settles, OwnInv', NEW i \in Numbers, RetainState(i), Reader(i), NeedOf(i), Stable(i), Reader(i)'
  PROVE  NeedOf(i)'
<1>0. TypeInv
  BY DEF Holds, OwnInv
<1>1. /\ tra[i].pc = "retain" /\ tra[i] \in Transaction /\ tra[i].number \in Numbers /\ FitOf(i)
  BY ReaderIs DEF RetainState, At
<1>2. /\ Goes(i, "retained") /\ KeepsView(i) /\ KeepsNumbers(i) /\ lock' = lock
      /\ SetState(tra[i].proc, tra[i].number, tra[i].local.state)
  BY <1>0, RetainStateEffect
<1>3. tra'[i].local.state = tra[i].local.state /\ tra'[i].subs = tra[i].subs
  BY <1>0, <1>1, TypedTra DEF RetainState, TypeInv, Transaction, Local
<1>4. tip'[tra[i].number] = tra[i].local.state
  <2>1. tip' = [tip EXCEPT ![tra[i].number] = tra[i].local.state]
    BY <1>2 DEF SetState
  <2> QED
    BY <1>0, <1>1, <2>1, NumberIn DEF TypeInv, Inventory
<1>5. HeldOf(i)'
  BY <1>2, HeldSame DEF NeedOf, KeepsNumbers
<1>6. LimitOf(i)'
  BY <1>2 DEF LimitOf, Goes
<1>7. DeadOf(i)'
  BY <1>2, DeadSame DEF NeedOf, KeepsView
<1>8. RetainOf(i)'
  BY <1>2, <1>3, <1>4 DEF NeedOf, RetainOf, KeepsNumbers, Goes
<1> QED
  BY <1>5, <1>6, <1>7, <1>8 DEF NeedOf

LEMMA RetainEndNeed ==
  ASSUME Holds, Settles, OwnInv', NEW i \in Numbers, RetainEnd(i), Reader(i), NeedOf(i), Stable(i), Reader(i)'
  PROVE  NeedOf(i)'
<1>0. TypeInv
  BY DEF Holds, OwnInv
<1>1. /\ Goes(i, "running") /\ KeepsView(i) /\ tra'[i].number = tra[i].local.new /\ tra'[i].local.new = 0
      /\ lock' = [lock EXCEPT ![tra[i].number] = 0] /\ tra[i].pc = "retained"
  BY <1>0, RetainEndEffect
<1>2. /\ tra[i].local.new # 0 /\ tra[i].local.new \in Numbers /\ tra[i].local.new # tra[i].number
  <2>1. tra[i].local.new # 0 /\ tra[i].local.new \in Numbers /\ tra[i].number \in Nat
    BY <1>1, ReaderIs, NumberIn DEF FitOf
  <2> QED
    BY <2>1, NumberIn DEF NeedOf, RetainOf
<1>3. PICK g \in Nat : g = lock[tra[i].local.new]
  BY <1>0, <1>2, LockNat
<1>4. AllFinal(g) /\ Safe(i, g)
  BY <1>2, <1>3 DEF NeedOf, HeldOf
<1>5. AllFinal(g)' /\ Safe(i, g)'
  BY <1>4, BoundsStay DEF Stable
<1>6. lock'[tra'[i].number] = g
  BY <1>0, <1>1, <1>2, <1>3 DEF TypeInv
<1>7. HeldOf(i)'
  BY <1>1, <1>5, <1>6, HeldIs
<1>8. LimitOf(i)'
  BY <1>1 DEF LimitOf, Goes
<1>9. DeadOf(i)' /\ RetainOf(i)'
  BY <1>1, DeadSame, RetainGone DEF NeedOf, KeepsView, Goes
<1> QED
  BY <1>7, <1>8, <1>9 DEF NeedOf

LEMMA WaitNeed ==
  ASSUME Holds, Settles, OwnInv', NEW i \in Numbers, NEW n \in Numbers, Wait(i, n), Reader(i), NeedOf(i), Step(i), Reader(i)'
  PROVE  NeedOf(i)'
<1>0. TypeInv
  BY DEF Holds, OwnInv
<1>1. /\ Goes(i, "running") /\ KeepsNumbers(i) /\ lock' = lock
      /\ \A m \in 0..MaxTra : m # n => tra'[i].transactions[m] = tra[i].transactions[m]
  BY <1>0, WaitEffect
<1>2. Stable(i) /\ (tra'[i].transactions[n] = "dead" => tip'[n] = "dead" \/ tra[i].transactions[n] = "dead")
  BY WaitStable
<1>3. LimitOf(i)'
  BY <1>1 DEF LimitOf, Goes
<1> QED
  BY <1>1, <1>2, <1>3, NumberIn, NeedMoves

\* A snapshot after its step.
LEMMA StepNeed ==
  ASSUME Holds, Settles, OwnInv', NEW i \in Numbers, Step(i), Reader(i), NeedOf(i), Reader(i)'
  PROVE  Stable(i) /\ NeedOf(i)'
<1>0. TypeInv /\ OwnInv
  BY DEF Holds, OwnInv
<1>1. Stable(i)
  BY StepStable DEF NeedOf
<1>2. /\ tra[i] \in Transaction /\ tra[i].kind = "snapshot" /\ FitOf(i) /\ Live(i) /\ tra'[i].pc # "release"
  BY ReaderIs DEF Reader
<1>3. CASE Copy(i)
  BY <1>1, <1>3, CopyNeed
<1>4. CASE Scan(i)
  BY <1>1, <1>4, ScanNeed
<1>5. CASE Clean(i)
  BY <1>1, <1>5, CleanNeed
<1>6. CASE Query(i)
  BY <1>1, <1>6, QueryNeed
<1>7. CASE Publish(i)
  BY <1>1, <1>7, PublishNeed
<1>8. CASE \E state \in Ends : Retain(i, state)
  BY <1>1, <1>8, RetainNeed
<1>9. CASE RetainState(i)
  BY <1>1, <1>9, RetainStateNeed
<1>10. CASE RetainEnd(i)
  BY <1>1, <1>10, RetainEndNeed
<1>11. CASE \E n \in Numbers : Wait(i, n)
  BY <1>1, <1>11, WaitNeed
<1>12. CASE Extend(i) \/ Fill(i) \/ Trim(i)
  <2>1. tra[i].pc \in {"extend", "fill", "cache", "trim"}
    BY <1>12 DEF Extend, Fill, Trim, At
  <2> QED
    BY <1>2, <2>1 DEF FitOf
<1>13. CASE \E state \in Ends : End(i, state)
  BY <1>0, <1>2, <1>13, EndEffect DEF Goes
<1>14. CASE Release(i) \/ Sweep(i) \/ Swept(i) \/ Advance(i)
  BY <1>2, <1>14 DEF Release, Sweep, Swept, Advance, FitOf, At, Reader
<1> QED
  BY <1>1, <1>3, <1>4, <1>5, <1>6, <1>7, <1>8, <1>9, <1>10, <1>11, <1>12, <1>13, <1>14 DEF Step

(***************************************************************************)
(* Snapshots before and after a step                                       *)
(***************************************************************************)

\* Numbers are taken in order.
LEMMA NewestGrows ==
  ASSUME Holds, NEW i \in Numbers, Step(i), Reader(i), NeedOf(i), Reader(i)'
  PROVE  Newest(i) <= Newest(i)'
<1>0. TypeInv
  BY DEF Holds, OwnInv
<1>1. /\ tra[i] \in Transaction /\ tra[i].kind = "snapshot" /\ FitOf(i) /\ tra'[i].pc # "release"
      /\ tra[i].number \in Nat /\ tra[i].local.new \in Nat /\ tra[i].number \in Numbers
      /\ tra[i].number <= header.nt /\ header.nt \in Nat
  BY <1>0, ReaderIs, NumberIn, HeaderType DEF Reader
<1>2. CASE KeepsNumbers(i)
  BY <1>1, <1>2 DEF KeepsNumbers, Newest, Most
<1>3. CASE Copy(i)
  BY <1>0, <1>2, <1>3, CopyEffect
<1>4. CASE Scan(i)
  <2>1. tra'[i].number = tra[i].number /\ tra'[i].local.new = tra[i].local.new
    BY <1>0, <1>1, <1>4, TypedTra DEF Scan, TypeInv, Transaction, Local
  <2> QED
    BY <1>2, <2>1 DEF KeepsNumbers
<1>5. CASE Clean(i)
  <2>1. tra[i].local.active \in 0..MaxTra
    BY <1>5, ReaderIs, NumberIn DEF Clean, LockOf, At
  <2> QED
    BY <1>0, <1>2, <1>5, <2>1, CleanEffect
<1>6. CASE Query(i)
  <2>1. lock[tra[i].number] # 0
    BY <1>1, <1>6, ReaderIs, NumberIn DEF Query, At, LockOf, SweepsOn, Owns
  <2> QED
    BY <1>0, <1>1, <1>2, <1>6, <2>1, QueryEffect
<1>7. CASE Publish(i)
  <2>1. tra[i].pc = "publish" /\ tra'[i].number = tra[i].number /\ tra'[i].local.new = 0
    BY <1>0, <1>7, PublishEffect
  <2>2. tra[i].local.new = 0
    BY <1>1, <2>1 DEF FitOf
  <2> QED
    BY <1>2, <2>1, <2>2 DEF KeepsNumbers
<1>8. CASE \E state \in Ends : Retain(i, state)
  <2>1. tra[i].pc = "running" /\ tra'[i].number = tra[i].number
    BY <1>0, <1>8, RetainEffect
  <2>2. tra[i].local.new = 0 /\ tra'[i].local.new = header.nt + 1
    BY <1>0, <1>1, <1>8, <2>1, RetainEffect DEF FitOf
  <2> QED
    BY <1>1, <2>1, <2>2 DEF Newest, Most
<1>9. CASE RetainState(i)
  BY <1>0, <1>2, <1>9, RetainStateEffect
<1>10. CASE RetainEnd(i)
  <2>1. tra[i].pc = "retained" /\ tra'[i].number = tra[i].local.new /\ tra'[i].local.new = 0
    BY <1>0, <1>10, RetainEndEffect
  <2>2. tra[i].number < tra[i].local.new
    BY <1>1, <2>1 DEF FitOf, NeedOf, RetainOf
  <2> QED
    BY <1>1, <2>1, <2>2 DEF Newest, Most
<1>11. CASE \E n \in Numbers : Wait(i, n)
  BY <1>0, <1>2, <1>11, WaitEffect
<1>12. CASE Extend(i) \/ Fill(i) \/ Trim(i)
  <2>1. tra[i].pc \in {"extend", "fill", "cache", "trim"}
    BY <1>12 DEF Extend, Fill, Trim, At
  <2> QED
    BY <1>1, <2>1 DEF FitOf
<1>13. CASE \E state \in Ends : End(i, state)
  BY <1>0, <1>1, <1>13, EndEffect DEF Goes
<1>14. CASE Release(i) \/ Sweep(i) \/ Swept(i) \/ Advance(i)
  BY <1>1, <1>14 DEF Release, Sweep, Swept, Advance, FitOf, At, Reader
<1> QED
  BY <1>3, <1>4, <1>5, <1>6, <1>7, <1>8, <1>9, <1>10, <1>11, <1>12, <1>13, <1>14 DEF Step

\* A snapshot that goes on, and one that begins.
GoesOn(i) == Reader(i) /\ NeedOf(i)' /\ Stable(i) /\ Newest(i) <= Newest(i)'
Begins(i) == NeedOf(i)' /\ Newest(i)' > header.nt /\ \A g \in Nat : Safe(i, g)'

LEMMA StayReader ==
  ASSUME Holds, Settles, NEW i \in Numbers, Reader(i), NeedOf(i), tra'[i] = tra[i],
         \A n \in Numbers : Owns(i, n) => lock'[n] \in {lock[n], 0}
  PROVE  GoesOn(i)
<1>1. NeedOf(i)' /\ Stable(i)
  BY NeedSame, StableSame
<1>2. tra[i].number \in Nat /\ tra[i].local.new \in Nat
  BY ReaderIs, NumberIn
<1>3. Newest(i) <= Newest(i)'
  BY <1>2 DEF Newest, Most
<1> QED
  BY <1>1, <1>3 DEF GoesOn

\* One that has got its number and has read nothing.
LEMMA StartReader ==
  ASSUME Holds, Settles, OwnInv', NeedInv, NEW p \in Procs, NEW kind \in Kinds, Start(p, kind), NEW i \in Numbers, Reader(i)'
  PROVE  GoesOn(i) \/ Begins(i)
<1>0. TypeInv /\ OwnInv
  BY DEF Holds, OwnInv
<1>1. PICK n \in Numbers :
        /\ n = header.nt + 1 /\ header' = Bumped(p)
        /\ lock' = [lock EXCEPT ![n] = IF kind = "snapshot" THEN Most(Bumped(p).oat, Bumped(p).oit) ELSE n]
        /\ \A j \in Numbers \ {n} : tra'[j] = tra[j]
        /\ tra'[n].pc = IF kind = "snapshot" THEN "inventory" ELSE "extend"
        /\ tra'[n].kind = kind /\ tra'[n].number = n
        /\ tra'[n].oldest = Bumped(p).oit
        /\ \A m \in 0..MaxTra : tra'[n].transactions[m] = "active"
        /\ tra'[n].local.next = Page(Bumped(p).oit)
        /\ tra'[n].local.new = 0
  BY <1>0, StartEffect
<1>2. n \in Nat /\ header.nt \in Nat
  BY <1>0, NumberIn, HeaderType
<1>3. CASE i # n
  <2>1. tra'[i] = tra[i]
    BY <1>1, <1>3
  <2>2. Reader(i)
    BY <2>1 DEF Reader, Live, At
  <2>3. \A m \in Numbers : Owns(i, m) => lock'[m] = lock[m]
    <3> SUFFICES ASSUME NEW m \in Numbers, Owns(i, m) PROVE lock'[m] = lock[m]
      OBVIOUS
    <3>1. m <= header.nt /\ m \in Nat
      BY <2>2, ReaderIs, NumberIn DEF Owns
    <3>2. m # n
      BY <1>1, <1>2, <3>1
    <3> QED
      BY <1>0, <1>1, <3>2 DEF TypeInv
  <2>4. NeedOf(i)
    BY <2>2 DEF NeedInv
  <2> QED
    BY <2>1, <2>2, <2>3, <2>4, StayReader
<1>4. CASE i = n
  <2>1. kind = "snapshot" /\ tra'[i].pc = "inventory"
    BY <1>1, <1>4 DEF Reader
  <2>2. PICK o \in Nat, a \in Nat : o = Bumped(p).oit /\ a = Bumped(p).oat /\ AllDone(o) /\ AllFinal(a)
    BY BumpedTrue
  <2>3. AllFinal(o)
    BY <2>2, DoneFinal DEF Holds
  <2>4. PICK b \in Nat : b = Most(a, o) /\ AllFinal(b)
    BY <2>2, <2>3 DEF Most
  <2>5. AllFinal(b)'
    BY <2>4, BoundsStay
  <2>6. ASSUME NEW m \in Numbers, Read(i, m)' PROVE Sees(i, m)'
    <3>1. Page(m) < Page(o)
      BY <1>1, <1>4, <2>1, <2>2, <2>6 DEF Read, Page
    <3>2. m < o
      BY <2>2, <3>1, NumberIn, PageLess
    <3> QED
      BY <1>1, <1>4, <2>2, <3>2 DEF Sees
  <2>7. \A g \in Nat : Safe(i, g)'
    BY <2>6 DEF Safe
  <2>8. HeldOf(i)'
    <3>1. lock'[tra'[i].number] = b
      BY <1>0, <1>1, <1>4, <2>1, <2>2, <2>4 DEF TypeInv
    <3> QED
      BY <1>1, <1>4, <2>5, <2>7, <3>1, HeldIs
  <2>9. LimitOf(i)'
    <3>1. tra'[i] \in Transaction
      BY LiveIs DEF OwnInv, Reader, Live, At, TypeInv, Transaction, NoTra
    <3>2. tra'[i].local.active \in Nat
      BY <3>1, TypedTra
    <3> QED
      BY <2>1, <2>7, <3>2, LimitIs
  <2>10. DeadOf(i)'
    BY <1>1, <1>4, NumberIn DEF DeadOf
  <2>11. RetainOf(i)'
    BY <2>1, RetainGone
  <2>12. Newest(i)' > header.nt
    BY <1>1, <1>2, <1>4 DEF Newest, Most
  <2> QED
    BY <2>7, <2>8, <2>9, <2>10, <2>11, <2>12 DEF NeedOf, Begins
<1> QED
  BY <1>3, <1>4

LEMMA NextReaders ==
  ASSUME Holds, Settles, OwnInv', NeedInv, [Next]_vars, NEW i \in Numbers, Reader(i)'
  PROVE  GoesOn(i) \/ Begins(i)
<1>0. TypeInv
  BY DEF Holds, OwnInv
<1>1. CASE \E p \in Procs : \E kind \in Kinds : Start(p, kind)
  BY <1>1, StartReader
<1>2. ASSUME tra'[i] = tra[i], \A n \in Numbers : lock'[n] \in {lock[n], 0} PROVE GoesOn(i)
  <2>1. Reader(i)
    BY <1>2 DEF Reader, Live, At
  <2> QED
    BY <1>2, <2>1, StayReader DEF NeedInv
<1>3. CASE \E p \in Procs : Crash(p)
  <2>1. tra'[i] = tra[i] \/ tra'[i] = NoTra
    BY <1>3 DEF Crash
  <2>2. tra'[i] = tra[i]
    BY <2>1 DEF Reader, Live, At, NoTra
  <2>3. \A n \in Numbers : lock'[n] \in {lock[n], 0}
    BY <1>3 DEF Crash
  <2> QED
    BY <1>2, <2>2, <2>3
<1>4. ASSUME NEW j \in Numbers, Step(j) PROVE GoesOn(i)
  <2>1. CASE j = i
    <3>1. Live(i)' /\ tra'[i].kind = "snapshot"
      BY DEF Reader
    <3>2. tra[i] \in Transaction /\ tra'[i].kind = tra[i].kind /\ (tra[i].pc = "release" => tra[i].kind = "sweep")
      BY <1>0, <1>4, <2>1, <3>1, StepKeeps
    <3>3. Reader(i)
      BY <3>1, <3>2, TypedTra DEF Reader, Live, At
    <3>4. NeedOf(i)
      BY <3>3 DEF NeedInv
    <3> QED
      BY <1>4, <2>1, <3>3, <3>4, StepNeed, NewestGrows DEF GoesOn
  <2>2. CASE j # i
    <3>1. tra'[i] = tra[i]
      BY <1>0, <1>4, <2>2, StepOthers
    <3>2. Reader(i)
      BY <3>1 DEF Reader, Live, At
    <3>3. \A n \in Numbers : Owns(i, n) => lock'[n] = lock[n]
      BY <1>4, <2>2, <3>2, OthersLocks
    <3> QED
      BY <3>1, <3>2, <3>3, StayReader DEF NeedInv
  <2> QED
    BY <2>1, <2>2
<1>5. CASE Open \/ UNCHANGED vars
  BY <1>2, <1>5 DEF Open, vars
<1> QED
  BY <1>1, <1>3, <1>4, <1>5 DEF Next

(***************************************************************************)
(* The limits of the header page and of the processes                      *)
(***************************************************************************)

\* Every snapshot after the step is one that goes on or one that begins.
Readers == \A i \in Numbers : Reader(i)' => GoesOn(i) \/ Begins(i)

\* A limit that may be gone by stays one.
LEMMA KeptStays ==
  ASSUME Settles, Readers, overtaken \subseteq overtaken', NEW g \in Nat, Kept(g)
  PROVE  Kept(g)'
<1>1. AllFinal(g) /\ AllFinal(g)' /\ g <= MaxTra
  BY BoundsStay DEF Kept
<1>2. ASSUME NEW i \in Numbers, Reader(i)', i \notin overtaken' PROVE Safe(i, g)'
  <2>1. CASE GoesOn(i)
    <3>1. Safe(i, g)
      BY <1>2, <2>1 DEF GoesOn, Kept
    <3> QED
      BY <1>1, <2>1, <3>1 DEF GoesOn, Stable
  <2>2. CASE Begins(i)
    BY <2>2 DEF Begins
  <2> QED
    BY <1>2, <2>1, <2>2 DEF Readers
<1> QED
  BY <1>1, <1>2 DEF Kept

LEMMA KeptLess ==
  ASSUME NEW g \in Nat, NEW h \in Nat, g <= h, Kept(h)
  PROVE  Kept(g)
<1>1. g <= MaxTra /\ AllFinal(g)
  <2>1. \A n \in Numbers : n < g => n < h
    BY NumberIn
  <2>2. MaxTra \in Nat
    BY TransactionsAssumption
  <2> QED
    BY <2>1, <2>2 DEF Kept, AllFinal
<1>2. \A i \in Numbers : Safe(i, h) => Safe(i, g)
  BY SafeLess
<1> QED
  BY <1>1, <1>2 DEF Kept

\* Numbers taken later are younger.
LEMMA UnderStays ==
  ASSUME Holds, OwnInv', Settles, Readers, overtaken \subseteq overtaken', NEW j \in Numbers, j <= header.nt,
         NEW g \in Nat, AllFinal(g), Under(j, g)
  PROVE  Under(j, g)'
<1> SUFFICES ASSUME NEW i \in Numbers, Reader(i)', i \notin overtaken', Newest(i)' <= j PROVE Safe(i, g)'
  BY DEF Under
<1>1. CASE GoesOn(i)
  <2>1. Newest(i) \in Nat
    BY <1>1, ReaderIs, NumberIn DEF GoesOn, Newest, Most
  <2>2. Newest(i)' \in Nat
    <3>1. tra'[i] \in Transaction
      BY DEF OwnInv, TypeInv, Reader, Live, At, NoTra
    <3>2. tra'[i].number \in Nat /\ tra'[i].local.new \in Nat
      BY <3>1, TypedTra
    <3> QED
      BY <3>2 DEF Newest, Most
  <2>3. Newest(i) <= j
    BY <1>1, <2>1, <2>2, NumberIn DEF GoesOn
  <2> QED
    BY <1>1, <2>3 DEF Under, GoesOn, Stable
<1>2. CASE Begins(i)
  BY <1>2 DEF Begins
<1> QED
  BY <1>1, <1>2 DEF Readers

LEMMA StepLimits ==
  ASSUME Holds, NEW j \in Numbers, Step(j)
  PROVE  /\ overtaken \subseteq overtaken'
         /\ header'.ost = header.ost \/ \E p \in Procs : header'.ost = Most(header.ost, dbb[p].ost)
         /\ \A p \in Procs : \/ dbb'[p] = dbb[p]
                             \/ /\ Publish(j) /\ p = tra[j].proc
                                /\ dbb'[p].ost = Most(dbb[p].ost, tra[j].oldest_active)
<1>0. TypeInv
  BY DEF Holds, OwnInv
<1>1. CASE \/ Copy(j) \/ Extend(j) \/ Fill(j) \/ Trim(j) \/ Scan(j) \/ Clean(j) \/ Query(j)
           \/ (\E state \in Ends : End(j, state)) \/ Release(j) \/ RetainState(j) \/ RetainEnd(j)
           \/ (\E n \in Numbers : Wait(j, n)) \/ Sweep(j) \/ Swept(j)
  BY <1>1 DEF Copy, Extend, Fill, Trim, Scan, Clean, Query, End, Release, RetainState, RetainEnd, Wait, Sweep, Swept, pages
<1>2. CASE Advance(j)
  <2>1. header'.ost = header.ost
    BY <1>0, <1>2 DEF Advance, TypeInv
  <2> QED
    BY <1>2, <2>1 DEF Advance
<1>3. CASE \E state \in Ends : Retain(j, state)
  <2>1. PICK p \in Procs : p = tra[j].proc
    BY <1>0, <1>3, LiveIs, TypedTra DEF Retain, At
  <2>2. header' = Bumped(p) /\ dbb' = dbb /\ overtaken' = overtaken
    BY <1>3, <2>1 DEF Retain
  <2> QED
    BY <2>1, <2>2 DEF Bumped
<1>4. CASE Publish(j)
  <2>1. PICK oldest \in Interesting(tra[j]) : dbb' = [dbb EXCEPT ![tra[j].proc] = Raised(@, tra[j], oldest)]
    BY <1>4 DEF Publish
  <2>2. header' = header /\ overtaken \subseteq overtaken'
    BY <1>4 DEF Publish, pages
  <2>3. \A p \in Procs : dbb'[p] = IF p = tra[j].proc THEN Raised(dbb[p], tra[j], oldest) ELSE dbb[p]
    BY <1>0, <2>1 DEF TypeInv
  <2>4. \A p \in Procs : Raised(dbb[p], tra[j], oldest).ost = Most(dbb[p].ost, tra[j].oldest_active)
    BY DEF Raised
  <2>5. ASSUME NEW p \in Procs
        PROVE  dbb'[p] = dbb[p] \/ (p = tra[j].proc /\ dbb'[p].ost = Most(dbb[p].ost, tra[j].oldest_active))
    BY <2>3, <2>4
  <2> QED
    BY <1>4, <2>2, <2>5
<1> QED
  BY <1>1, <1>2, <1>3, <1>4 DEF Step

\* The header page gets what the processes know; a process loses its limits when
\* it dies.
LEMMA NextLimits ==
  ASSUME Holds, [Next]_vars
  PROVE  /\ overtaken \subseteq overtaken'
         /\ header'.ost = header.ost \/ \E p \in Procs : header'.ost = Most(header.ost, dbb[p].ost)
         /\ \A p \in Procs : \/ dbb'[p].ost = dbb[p].ost
                             \/ dbb'[p].ost = header.ost /\ (Crash(p) \/ Open)
                             \/ \E j \in Numbers : /\ Publish(j) /\ p = tra[j].proc
                                                   /\ dbb'[p].ost = Most(dbb[p].ost, tra[j].oldest_active)
<1>0. TypeInv
  BY DEF Holds, OwnInv
<1>1. CASE \E p \in Procs : \E kind \in Kinds : Start(p, kind)
  BY <1>1 DEF Start, Bumped
<1>2. CASE \E p \in Procs : Crash(p)
  <2>1. PICK q \in Procs : Crash(q)
    BY <1>2
  <2>2. header' = header /\ overtaken' = overtaken
    BY <2>1 DEF Crash, pages
  <2>3. \A p \in Procs : IF p = q THEN dbb'[p] = OfHeader ELSE dbb'[p] = dbb[p]
    BY <1>0, <2>1 DEF Crash, TypeInv
  <2> QED
    BY <2>1, <2>2, <2>3 DEF OfHeader
<1>3. CASE \E j \in Numbers : Step(j)
  <2>1. PICK j \in Numbers : Step(j)
    BY <1>3
  <2>2. /\ overtaken \subseteq overtaken'
        /\ header'.ost = header.ost \/ \E p \in Procs : header'.ost = Most(header.ost, dbb[p].ost)
    BY <2>1, StepLimits
  <2>3. ASSUME NEW p \in Procs
        PROVE  \/ dbb'[p] = dbb[p]
               \/ /\ Publish(j) /\ p = tra[j].proc
                  /\ dbb'[p].ost = Most(dbb[p].ost, tra[j].oldest_active)
    BY <2>1, StepLimits
  <2> QED
    BY <2>2, <2>3
<1>4. CASE Open
  BY <1>4 DEF Open, OfHeader
<1>5. CASE UNCHANGED vars
  BY <1>5 DEF vars, pages
<1> QED
  BY <1>1, <1>2, <1>3, <1>4, <1>5 DEF Next

\* The limits of garbage collection after a step.
LEMMA KeptLimits ==
  ASSUME Holds, Settles, Readers, NeedInv, [Next]_vars
  PROVE  Kept(header.ost)' /\ \A p \in Procs : Kept(dbb[p].ost)'
<1>0. TypeInv
  BY DEF Holds, OwnInv
<1>1. /\ overtaken \subseteq overtaken'
      /\ header'.ost = header.ost \/ \E p \in Procs : header'.ost = Most(header.ost, dbb[p].ost)
      /\ \A p \in Procs : \/ dbb'[p].ost = dbb[p].ost
                          \/ dbb'[p].ost = header.ost
                          \/ \E j \in Numbers : /\ Publish(j) /\ p = tra[j].proc
                                                /\ dbb'[p].ost = Most(dbb[p].ost, tra[j].oldest_active)
  BY NextLimits
<1>2. PICK h \in Nat : h = header.ost /\ Kept(h)
  BY <1>0, HeaderType DEF NeedInv
<1>3. \A p \in Procs : dbb[p].ost \in Nat
  BY <1>0, DbbType
<1>4. ASSUME NEW p \in Procs, NEW g \in Nat, g = dbb[p].ost PROVE Kept(g)'
  BY <1>1, <1>4, KeptStays DEF NeedInv
<1>5. Kept(h)'
  BY <1>1, <1>2, KeptStays
<1>6. Kept(header.ost)'
  <2>1. PICK g \in Nat : g = header'.ost /\ Kept(g)'
    <3>1. CASE header'.ost = header.ost
      BY <1>2, <1>5, <3>1
    <3>2. CASE \E p \in Procs : header'.ost = Most(header.ost, dbb[p].ost)
      <4>1. PICK p \in Procs : header'.ost = Most(header.ost, dbb[p].ost)
        BY <3>2
      <4>2. PICK g \in Nat : g = dbb[p].ost /\ Kept(g)'
        BY <1>3, <1>4
      <4> QED
        BY <1>2, <1>5, <4>1, <4>2 DEF Most
    <3> QED
      BY <1>1, <3>1, <3>2
  <2> QED
    BY <2>1 DEF Kept, AllFinal, Safe, Final
<1>7. ASSUME NEW j \in Numbers, Publish(j), NEW g \in Nat, g = tra[j].oldest_active PROVE Kept(g)'
  <2>1. tra[j].pc = "publish" /\ tra[j] \in Transaction /\ Live(j)
    BY <1>0, <1>7, LiveIs DEF Publish, At
  <2>2. AllFinal(g) /\ g <= j /\ j <= MaxTra /\ j \in Nat /\ MaxTra \in Nat
    BY <1>7, <2>1, ItsTruth DEF KnowsOf, FitOf, Looking
  <2>3. Under(j, g)
    BY <1>7, <2>1 DEF NeedInv, FoundOf
  <2>4. overtaken' = overtaken \union
          {i \in Numbers : Live(i) /\ tra[i].kind = "snapshot" /\ Most(tra[i].number, tra[i].local.new) > j}
    BY <1>7 DEF Publish
  <2>5. ASSUME NEW i \in Numbers, Reader(i)', i \notin overtaken' PROVE Safe(i, g)'
    <3>1. CASE GoesOn(i)
      <4>1. Newest(i) \in Nat
        BY <3>1, ReaderIs, NumberIn DEF GoesOn, Newest, Most
      <4>2. Newest(i) <= j /\ i \notin overtaken
        BY <2>2, <2>4, <2>5, <3>1, <4>1 DEF GoesOn, Reader, Newest
      <4>3. Safe(i, g)
        BY <2>3, <3>1, <4>2 DEF Under, GoesOn
      <4> QED
        BY <2>2, <3>1, <4>3 DEF GoesOn, Stable
    <3>2. CASE Begins(i)
      BY <3>2 DEF Begins
    <3> QED
      BY <2>5, <3>1, <3>2 DEF Readers
  <2>6. AllFinal(g)' /\ g <= MaxTra
    BY <2>2, BoundsStay
  <2> QED
    BY <2>5, <2>6 DEF Kept
<1>8. ASSUME NEW p \in Procs PROVE Kept(dbb[p].ost)'
  <2>1. PICK g \in Nat : g = dbb'[p].ost /\ Kept(g)'
    <3>1. PICK d \in Nat : d = dbb[p].ost /\ Kept(d)'
      BY <1>3, <1>4
    <3>2. CASE dbb'[p].ost = dbb[p].ost
      BY <3>1, <3>2
    <3>3. CASE dbb'[p].ost = header.ost
      BY <1>2, <1>5, <3>3
    <3>4. CASE \E j \in Numbers : Publish(j) /\ p = tra[j].proc /\ dbb'[p].ost = Most(dbb[p].ost, tra[j].oldest_active)
      <4>1. PICK j \in Numbers : Publish(j) /\ dbb'[p].ost = Most(dbb[p].ost, tra[j].oldest_active)
        BY <3>4
      <4>2. tra[j].oldest_active \in Nat
        BY <1>0, <4>1, LiveIs, TypedTra DEF Publish, At
      <4>3. PICK g \in Nat : g = tra[j].oldest_active /\ Kept(g)'
        BY <1>7, <4>1, <4>2
      <4> QED
        BY <3>1, <4>1, <4>3 DEF Most
    <3> QED
      BY <1>1, <3>2, <3>3, <3>4
  <2> QED
    BY <2>1 DEF Kept, AllFinal, Safe, Final
<1> QED
  BY <1>6, <1>8

\* The limits of a process grow as long as it has a transaction.
LEMMA LimitsGrow ==
  ASSUME Holds, [Next]_vars
  PROVE  /\ header'.ost \in Nat /\ header'.ost >= header.ost
         /\ \A j \in Numbers : Live(j)' /\ Live(j) =>
              \A p \in Procs : p = tra[j].proc => dbb'[p].ost \in Nat /\ dbb'[p].ost >= dbb[p].ost
<1>0. TypeInv
  BY DEF Holds, OwnInv
<1>1. /\ header'.ost = header.ost \/ \E p \in Procs : header'.ost = Most(header.ost, dbb[p].ost)
      /\ \A p \in Procs : \/ dbb'[p].ost = dbb[p].ost
                          \/ Crash(p) \/ Open
                          \/ \E j \in Numbers : Publish(j) /\ dbb'[p].ost = Most(dbb[p].ost, tra[j].oldest_active)
  BY NextLimits
<1>2. header.ost \in Nat /\ \A p \in Procs : dbb[p].ost \in Nat
  BY <1>0, HeaderType, DbbType
<1>3. header'.ost \in Nat /\ header'.ost >= header.ost
  BY <1>1, <1>2 DEF Most
<1>4. ASSUME NEW j \in Numbers, Live(j)', Live(j), NEW p \in Procs, p = tra[j].proc
      PROVE  dbb'[p].ost \in Nat /\ dbb'[p].ost >= dbb[p].ost
  <2>1. ~Open
    BY <1>4 DEF Open
  <2>2. ~Crash(p)
    BY <1>4 DEF Crash, Live, At, NoTra
  <2>3. \A i \in Numbers : Publish(i) => tra[i].oldest_active \in Nat
    BY <1>0, LiveIs, TypedTra DEF Publish, At
  <2> QED
    BY <1>1, <1>2, <2>1, <2>2, <2>3 DEF Most
<1> QED
  BY <1>3, <1>4

(***************************************************************************)
(* The limit a transaction finds                                           *)
(***************************************************************************)

\* Where no number below j is active, every other snapshot is younger.
LEMMA OldestUnder ==
  ASSUME Holds, NEW j \in Numbers, Live(j), tra[j].number = j, AllFinal(j), Reader(j) => Safe(j, j)
  PROVE  Under(j, j)
<1> SUFFICES ASSUME NEW i \in Numbers, Reader(i), Newest(i) <= j, i # j PROVE FALSE
  BY DEF Under
<1>1. /\ FitOf(i) /\ tra[i].number \in Numbers /\ tra[i].local.new \in Nat /\ Live(i)
      /\ (tra[i].local.new # 0 => tra[i].local.new \in Numbers)
      /\ tra[i].pc # "retained" => tip[tra[i].number] = "active"
      /\ tra[i].local.new # 0 => tip[tra[i].local.new] = "active"
  BY ReaderIs DEF Reader
<1>2. PICK m \in Numbers : Owns(i, m) /\ tip[m] = "active"
  BY <1>1, NumberIn DEF Owns, FitOf
<1>3. m <= Newest(i) /\ m \in Nat /\ j \in Nat /\ Newest(i) \in Nat
  BY <1>1, <1>2, NumberIn DEF Owns, Newest, Most
<1>4. Owns(j, j)
  BY NumberIn DEF Owns
<1>5. m # j
  BY <1>1, <1>2, <1>4 DEF Holds, OwnInv, NumberInv
<1> QED
  BY <1>2, <1>3, <1>5 DEF AllFinal, Final

LEMMA ScanFound ==
  ASSUME Holds, NeedInv, NEW j \in Numbers, Scan(j), tra'[j].pc = "publish"
  PROVE  \E g \in Nat : g = tra'[j].oldest_active /\ AllFinal(g) /\ Under(j, g)
<1>0. TypeInv
  BY DEF Holds, OwnInv
<1>1. PICK n \in NextActive(tra[j]) : ScanTo(j, n)
  BY ScanIs
<1>2. tra[j].pc = "scan" /\ tra[j] \in Transaction
  BY <1>0, <1>1, LiveIs DEF ScanTo, At
<1>3. /\ tra[j].top = j /\ tra[j].number = j /\ j \in Nat /\ Live(j) /\ tra[j].oldest_active = j
      /\ tra[j].local.active \in Nat /\ tra[j].local.active > 0 /\ ~Empty(tra[j].proc)
      /\ tra[j].local.ost \in Nat /\ header.ost \in Nat
  BY <1>0, <1>2, ItsTruth, TypedTra, HeaderType DEF FitOf, KnowsOf, LoadOf, Looking, Starting
<1>4. n \in Nat /\ n <= j /\ AllFinal(n)
  BY <1>2, NextPasses DEF AllFinal
<1>5. CASE n = j
  <2>1. tra'[j].oldest_active = j
    BY <1>0, <1>1, <1>3, <1>4, <1>5, ScanPublish DEF KeepsLimits
  <2>2. Reader(j) => Safe(j, j)
    BY <1>2, <1>5, ScanSafe DEF NeedInv
  <2> QED
    BY <1>3, <1>4, <1>5, <2>1, <2>2, OldestUnder
<1>6. CASE n # j
  <2>1. n \in Numbers
    <3>1. tra[j].local.active <= n
      BY <1>2, <1>3, <1>6, NextActiveRange
    <3>2. n > 0
      BY <1>3, <1>4, <3>1
    <3>3. j <= MaxTra /\ MaxTra \in Nat
      BY NumberIn DEF Numbers
    <3> QED
      BY <1>3, <1>4, <3>2, <3>3 DEF Numbers
  <2>2. ~(lock[n] = 0 /\ tra[j].local.cleanup)
    <3> SUFFICES ASSUME lock[n] = 0, tra[j].local.cleanup PROVE FALSE
      OBVIOUS
    <3>1. Goes(j, "settle")
      BY <1>0, <1>1, <1>3, <1>4, <1>6, ScanSettle
    <3> QED
      BY <3>1 DEF Goes
  <2> DEFINE limit == Least(tra[j].oldest_active, IF n < tra[j].top /\ lock[n] # 0 THEN lock[n] ELSE n)
  <2>3. Goes(j, IF limit = tra[j].local.ost THEN "publish" ELSE "query") /\ tra'[j].oldest_active = limit
    BY <1>0, <1>1, <1>3, <1>6, <2>1, <2>2, ScanQuery
  <2> HIDE DEF limit
  <2>4. limit = tra[j].local.ost
    BY <2>3 DEF Goes
  <2>5. limit \in Nat /\ limit <= header.ost
    BY <1>2, <1>3, <2>4 DEF NeedInv, FoundOf, Starting, Looking
  <2>6. Kept(limit)
    BY <1>3, <2>5, KeptLess DEF NeedInv
  <2> QED
    BY <2>3, <2>5, <2>6 DEF Kept, Under
<1> QED
  BY <1>5, <1>6

LEMMA QueryFound ==
  ASSUME Holds, NeedInv, NEW j \in Numbers, Query(j)
  PROVE  \E g \in Nat : g = tra'[j].oldest_active /\ AllFinal(g) /\ Under(j, g)
<1>0. TypeInv
  BY DEF Holds, OwnInv
<1>1. tra[j].pc = "query" /\ tra[j] \in Transaction
  BY <1>0, LiveIs DEF Query, At
<1>2. /\ KnowsOf(j) /\ LockOf(j) /\ tra[j].number \in Numbers /\ tra[j].oldest_active \in Nat
  BY <1>1, ItsTruth, TypedTra
<1>3. lock[tra[j].number] # 0
  BY <1>1, <1>2, NumberIn DEF LockOf, SweepsOn, Owns
<1>4. OldestData \in Nat /\ tra'[j].oldest_active = Least(tra[j].oldest_active, OldestData)
  BY <1>0, <1>2, <1>3, DataMin, QueryEffect
<1>5. PICK g \in Nat : g = tra'[j].oldest_active /\ g <= OldestData /\ g <= tra[j].oldest_active
  BY <1>2, <1>4 DEF Least
<1>6. AllFinal(g)
  <2>1. AllFinal(tra[j].oldest_active)
    BY <1>1, <1>2 DEF KnowsOf, Looking
  <2> QED
    BY <1>2, <1>5, <2>1, NumberIn DEF AllFinal
<1>7. ASSUME NEW i \in Numbers, Reader(i) PROVE Safe(i, g)
  <2>1. LockOf(i) /\ tra[i].number \in Numbers
    BY <1>7, ReaderIs
  <2>2. lock[tra[i].number] # 0
    BY <1>7, <2>1, NumberIn DEF LockOf, SweepsOn, Owns, Reader
  <2>3. PICK h \in Nat : h = lock[tra[i].number]
    BY <1>0, <2>1, LockNat
  <2>4. h \in Data
    BY <2>1, <2>2, <2>3 DEF Data
  <2>5. \A e \in Data : OldestData <= e
    <3>1. \A e \in Data : e \in Nat
      BY <1>0, LockNat DEF Data
    <3>2. \E d \in Data : \A e \in Data : d <= e
      BY <2>4, <3>1, MinIs
    <3> QED
      BY <3>2 DEF OldestData
  <2>6. g <= h
    BY <1>4, <1>5, <2>4, <2>5
  <2>7. Safe(i, h)
    BY <1>7, <2>3 DEF NeedInv, NeedOf, HeldOf
  <2> QED
    BY <2>6, <2>7, SafeLess
<1> QED
  BY <1>5, <1>6, <1>7 DEF Under

\* A transaction that makes no step.
LEMMA OtherFound ==
  ASSUME Holds, OwnInv', Settles, Readers, NeedInv, [Next]_vars, NEW j \in Numbers, tra'[j] = tra[j], Live(j)'
  PROVE  FoundOf(j)'
<1>1. Live(j) /\ tra[j] \in Transaction
  BY LiveIs DEF Live, At, Holds, OwnInv
<1>2. /\ header'.ost \in Nat /\ header'.ost >= header.ost
      /\ \A p \in Procs : p = tra[j].proc => dbb'[p].ost \in Nat /\ dbb'[p].ost >= dbb[p].ost
  BY <1>1, LimitsGrow
<1>3. PICK p \in Procs, g \in Nat, o \in Nat : p = tra[j].proc /\ g = tra[j].oldest_active /\ o = tra[j].local.ost
  BY <1>1, TypedTra
<1>4. header.ost \in Nat /\ dbb[p].ost \in Nat /\ j <= header.nt /\ KnowsOf(j)
  BY <1>1, ItsTruth, HeaderType, DbbType DEF Holds, OwnInv
<1>5. FoundOf(j)
  BY <1>1 DEF NeedInv
<1>6. tra[j].pc \in Starting => o <= header'.ost
  BY <1>2, <1>3, <1>4, <1>5 DEF FoundOf
<1>7. tra[j].pc \notin Starting \union {"advance"} => g <= dbb'[p].ost
  BY <1>2, <1>3, <1>4, <1>5 DEF FoundOf
<1>8. tra[j].pc = "publish" => Under(j, g)'
  <2> SUFFICES ASSUME tra[j].pc = "publish" PROVE Under(j, g)'
    OBVIOUS
  <2>1. AllFinal(g) /\ Under(j, g)
    BY <1>3, <1>4, <1>5 DEF KnowsOf, FoundOf, Looking
  <2>2. overtaken \subseteq overtaken'
    BY NextLimits
  <2> QED
    BY <1>4, <2>1, <2>2, UnderStays
<1> QED
  BY <1>3, <1>6, <1>7, <1>8 DEF FoundOf, Under, Safe

\* Where a step of a transaction leads, and the limit it keeps.
LEMMA StepGoes ==
  ASSUME Holds, NEW j \in Numbers, Step(j), Live(j)'
  PROVE  \/ tra'[j].pc \in Looking \union {"query", "advance"}
         \/ tra'[j].pc = "publish" /\ (Scan(j) \/ Query(j))
         \/ tra'[j].pc \notin Starting /\ Publish(j) /\ tra'[j].oldest_active = tra[j].oldest_active
         \/ /\ tra'[j].pc \notin Starting /\ tra[j].pc \notin Starting \union {"advance"}
            /\ dbb' = dbb /\ tra'[j].oldest_active = tra[j].oldest_active
<1>0. TypeInv
  BY DEF Holds, OwnInv
<1>1. CASE Copy(j)
  BY <1>0, <1>1, CopyEffect DEF Goes, Looking
<1>2. CASE Fill(j)
  BY <1>0, <1>2, FillEffect DEF Goes, Looking
<1>3. CASE Trim(j)
  BY <1>0, <1>3, TrimEffect DEF Goes, Looking
<1>4. CASE Extend(j)
  <2>1. CASE Empty(tra[j].proc) \/ ~(tra[j].top < (BackPage(tra[j].proc) + 1) * TransPerTip)
    BY <1>0, <1>4, <2>1, ExtendReads DEF Goes, Looking
  <2>2. CASE ~Empty(tra[j].proc) /\ tra[j].top < (BackPage(tra[j].proc) + 1) * TransPerTip
    BY <1>0, <1>4, <2>2, ExtendSkips DEF Goes, Looking
  <2> QED
    BY <2>1, <2>2
<1>5. CASE Scan(j)
  <2>1. PICK n \in NextActive(tra[j]) : ScanTo(j, n)
    BY <1>5, ScanIs
  <2>2. tra[j] \in Transaction /\ tra[j].pc = "scan"
    BY <1>0, <2>1, LiveIs DEF ScanTo, At
  <2>3. tra'[j].pc \in {"publish", "settle", "query"}
    BY <1>0, <2>1, <2>2, TypedTra DEF ScanTo, TypeInv, Transaction, Local
  <2> QED
    BY <1>5, <2>3 DEF Looking
<1>6. CASE Clean(j)
  <2>1. LockOf(j) /\ tra[j].pc = "settle"
    BY <1>0, <1>6, LiveIs, ItsTruth DEF Clean, At
  <2>2. tra[j].local.active \in 0..MaxTra
    BY <2>1, NumberIn DEF LockOf, At
  <2> QED
    BY <1>0, <1>6, <2>2, CleanEffect DEF Goes, Looking
<1>7. CASE Query(j)
  <2>1. tra[j].pc = "query" /\ LockOf(j) /\ tra[j].number \in Numbers
    BY <1>0, <1>7, LiveIs, ItsTruth DEF Query, At
  <2>2. lock[tra[j].number] # 0
    BY <2>1, NumberIn DEF LockOf, SweepsOn, Owns
  <2> QED
    BY <1>0, <1>7, <2>1, <2>2, QueryEffect DEF Goes
<1>8. CASE Publish(j)
  BY <1>0, <1>8, PublishEffect DEF Goes, Starting, Looking
<1>9. CASE \E state \in Ends : End(j, state) \/ Retain(j, state)
  BY <1>0, <1>9, EndEffect, RetainEffect DEF Goes, KeepsLimits, Starting, Looking
<1>10. CASE Release(j)
  <2>1. tra[j].kind = "sweep"
    BY <1>0, <1>10, StepKeeps, ReleaseGone DEF Live, At, NoTra, TypeInv
  <2> QED
    BY <1>0, <1>10, <2>1, ReleaseSweep DEF Goes, KeepsLimits, Starting, Looking
<1>11. CASE RetainState(j)
  BY <1>0, <1>11, RetainStateEffect DEF Goes, KeepsLimits, Starting, Looking
<1>12. CASE RetainEnd(j)
  BY <1>0, <1>12, RetainEndEffect DEF Goes, Starting, Looking
<1>13. CASE \E n \in Numbers : Wait(j, n)
  BY <1>0, <1>13, WaitEffect DEF Goes, KeepsLimits, Starting, Looking
<1>14. CASE Sweep(j)
  BY <1>0, <1>14, SweepEffect DEF Goes, KeepsLimits, Starting, Looking
<1>15. CASE Swept(j)
  BY <1>0, <1>15, SweptEffect DEF Goes
<1>16. CASE Advance(j)
  BY <1>16 DEF Advance, Live, At, NoTra, Holds, OwnInv, TypeInv
<1> QED
  BY <1>1, <1>2, <1>3, <1>4, <1>5, <1>6, <1>7, <1>8, <1>9, <1>10, <1>11, <1>12, <1>13, <1>14, <1>15, <1>16 DEF Step

LEMMA ItsFound ==
  ASSUME Holds, OwnInv', Settles, Readers, NeedInv, [Next]_vars, NEW j \in Numbers, Step(j), Live(j)'
  PROVE  FoundOf(j)'
<1>0. TypeInv
  BY DEF Holds, OwnInv
<1>1. /\ tra[j] \in Transaction /\ tra'[j].proc = tra[j].proc
      /\ tra'[j].pc \in Starting => tra'[j].local.ost = tra[j].local.ost /\ tra[j].pc \in Starting
  BY <1>0, StepKeeps
<1>2. Live(j) /\ j <= header.nt /\ header.ost \in Nat
  BY <1>0, <1>1, ItsTruth, HeaderType
<1>3. FoundOf(j)
  BY <1>2 DEF NeedInv
<1>4. PICK p \in Procs, o \in Nat : p = tra[j].proc /\ o = tra[j].local.ost
  BY <1>1, TypedTra
<1>5. /\ header'.ost \in Nat /\ header'.ost >= header.ost
      /\ dbb'[p].ost \in Nat /\ dbb'[p].ost >= dbb[p].ost
  BY <1>2, <1>4, LimitsGrow
<1>6. tra'[j].pc \in Starting => tra'[j].local.ost <= header'.ost
  BY <1>1, <1>2, <1>3, <1>4, <1>5 DEF FoundOf
<1>7. tra'[j].pc \notin Starting \union {"advance"} => tra'[j].oldest_active <= dbb'[p].ost
  <2> SUFFICES ASSUME tra'[j].pc \notin Starting \union {"advance"} PROVE tra'[j].oldest_active <= dbb'[p].ost
    OBVIOUS
  <2>1. CASE Publish(j) /\ tra'[j].oldest_active = tra[j].oldest_active
    <3>1. PICK r \in Interesting(tra[j]) : dbb' = [dbb EXCEPT ![tra[j].proc] = Raised(@, tra[j], r)]
      BY <2>1 DEF Publish
    <3>2. dbb'[p] = Raised(dbb[p], tra[j], r)
      BY <1>0, <1>4, <3>1 DEF TypeInv
    <3>3. dbb'[p].ost = Most(dbb[p].ost, tra[j].oldest_active)
      BY <3>2 DEF Raised
    <3>4. tra[j].oldest_active \in Nat /\ dbb[p].ost \in Nat
      BY <1>0, <1>1, TypedTra, DbbType
    <3> QED
      BY <2>1, <3>3, <3>4 DEF Most
  <2>2. CASE dbb' = dbb /\ tra'[j].oldest_active = tra[j].oldest_active /\ tra[j].pc \notin Starting \union {"advance"}
    BY <1>3, <1>4, <2>2 DEF FoundOf
  <2> QED
    BY <2>1, <2>2, StepGoes DEF Starting
<1>8. tra'[j].pc = "publish" => \E g \in Nat : g = tra'[j].oldest_active /\ Under(j, g)'
  <2> SUFFICES ASSUME tra'[j].pc = "publish" PROVE \E g \in Nat : g = tra'[j].oldest_active /\ Under(j, g)'
    OBVIOUS
  <2>1. Scan(j) \/ Query(j)
    BY StepGoes DEF Starting, Looking
  <2>2. PICK g \in Nat : g = tra'[j].oldest_active /\ AllFinal(g) /\ Under(j, g)
    BY <2>1, ScanFound, QueryFound
  <2>3. overtaken \subseteq overtaken'
    BY NextLimits
  <2> QED
    BY <1>2, <2>2, <2>3, UnderStays
<1> QED
  BY <1>1, <1>4, <1>6, <1>7, <1>8 DEF FoundOf, Under, Safe

\* One that begins.
LEMMA StartFound ==
  ASSUME Holds, OwnInv', Settles, Readers, NeedInv, [Next]_vars, NEW p \in Procs, NEW kind \in Kinds, Start(p, kind),
         NEW j \in Numbers, Live(j)'
  PROVE  FoundOf(j)'
<1>0. TypeInv /\ OwnInv
  BY DEF Holds, OwnInv
<1>1. PICK n \in Numbers :
        /\ n = header.nt + 1
        /\ \A k \in Numbers \ {n} : tra'[k] = tra[k]
        /\ tra'[n].pc = IF kind = "snapshot" THEN "inventory" ELSE "extend"
  BY <1>0, StartEffect
<1>2. CASE j # n
  BY <1>1, <1>2, OtherFound
<1>3. CASE j = n
  <2>1. tra'[j].local.ost = Bumped(p).ost
    BY <1>0, <1>1, <1>3 DEF Start, TypeInv, Unused, Bumped
  <2>2. header'.ost = Bumped(p).ost /\ header'.ost \in Nat
    BY LimitsGrow DEF Start
  <2>3. tra'[j].pc \in {"inventory", "extend"}
    BY <1>1, <1>3
  <2> QED
    BY <2>1, <2>2, <2>3 DEF FoundOf, Starting, Looking
<1> QED
  BY <1>2, <1>3

(***************************************************************************)
(* Needed versions stay                                                    *)
(***************************************************************************)

LEMMA InitNeed ==
  ASSUME Init
  PROVE  NeedInv
<1>1. \A i \in Numbers : ~Live(i)
  BY DEF Init, Live, At, NoTra
<1>2. Kept(0)
  <2>1. MaxTra \in Nat
    BY TransactionsAssumption
  <2>2. AllFinal(0)
    BY NumberIn DEF AllFinal
  <2> QED
    BY <1>1, <2>1, <2>2 DEF Kept, Reader
<1>3. header.ost = 0 /\ \A p \in Procs : dbb[p].ost = 0
  BY DEF Init
<1> QED
  BY <1>1, <1>2, <1>3 DEF NeedInv, Reader

LEMMA NextNeed ==
  ASSUME Holds, OwnInv', NeedInv, [Next]_vars
  PROVE  NeedInv'
<1>1. Settles
  BY NextTrue
<1>2. Readers
  BY <1>1, NextReaders DEF Readers
<1>3. \A i \in Numbers : Reader(i)' => NeedOf(i)'
  BY <1>2 DEF Readers, GoesOn, Begins
<1>4. Kept(header.ost)' /\ \A p \in Procs : Kept(dbb[p].ost)'
  BY <1>1, <1>2, KeptLimits
<1>5. ASSUME NEW j \in Numbers, Live(j)' PROVE FoundOf(j)'
  <2>1. CASE \E p \in Procs : \E kind \in Kinds : Start(p, kind)
    BY <1>1, <1>2, <1>5, <2>1, StartFound
  <2>2. CASE \E p \in Procs : Crash(p)
    <3>1. tra'[j] = tra[j] \/ tra'[j] = NoTra
      BY <2>2 DEF Crash
    <3>2. tra'[j] = tra[j]
      BY <1>5, <3>1 DEF Live, At, NoTra
    <3> QED
      BY <1>1, <1>2, <1>5, <3>2, OtherFound
  <2>3. ASSUME NEW i \in Numbers, Step(i) PROVE FoundOf(j)'
    <3>1. CASE j = i
      BY <1>1, <1>2, <1>5, <2>3, <3>1, ItsFound
    <3>2. CASE j # i
      <4>1. tra'[j] = tra[j]
        BY <2>3, <3>2, StepOthers DEF Holds, OwnInv
      <4> QED
        BY <1>1, <1>2, <1>5, <4>1, OtherFound
    <3> QED
      BY <3>1, <3>2
  <2>4. CASE Open \/ UNCHANGED vars
    <3>1. tra' = tra
      BY <2>4 DEF Open, vars
    <3> QED
      BY <1>1, <1>2, <1>5, <3>1, OtherFound
  <2> QED
    BY <2>1, <2>2, <2>3, <2>4 DEF Next
<1> QED
  BY <1>3, <1>4, <1>5 DEF NeedInv

\* No bound that anybody collects by is above a version a snapshot needs.
LEMMA NeedStays ==
  ASSUME OwnInv, NeedInv
  PROVE  NeededVersionsStay
<1>1. ASSUME NEW g \in Thresholds PROVE g \in Nat /\ Kept(g)
  <2>1. CASE g = header.ost
    BY <2>1, HeaderType DEF NeedInv, OwnInv
  <2>2. CASE \E p \in Procs : g = dbb[p].ost
    BY <2>2, DbbType DEF NeedInv, OwnInv
  <2>3. CASE \E j \in Numbers : (At(j, "running") \/ At(j, "sweeping")) /\ g = tra[j].oldest_active
    <3>1. PICK j \in Numbers : (At(j, "running") \/ At(j, "sweeping")) /\ g = tra[j].oldest_active
      BY <2>3
    <3>2. Live(j) /\ tra[j] \in Transaction
      BY <3>1, LiveIs DEF At, OwnInv
    <3>3. PICK p \in Procs : p = tra[j].proc
      BY <3>2, TypedTra
    <3>4. g \in Nat /\ dbb[p].ost \in Nat
      BY <3>1, <3>2, TypedTra, DbbType DEF OwnInv
    <3>5. g <= dbb[p].ost
      BY <3>1, <3>2, <3>3 DEF NeedInv, FoundOf, At, Starting, Looking
    <3> QED
      BY <3>4, <3>5, KeptLess DEF NeedInv
  <2> QED
    BY <2>1, <2>2, <2>3 DEF Thresholds, Live, At
<1> SUFFICES ASSUME NEW i \in Snapshots \ overtaken, NEW g \in Thresholds, NEW n \in 1..(g - 1), tip[n] = "committed"
    PROVE  Sees(i, n)
  BY DEF NeededVersionsStay
<1>2. g \in Nat /\ Kept(g)
  BY <1>1
<1>3. n \in Numbers /\ n < g
  <2>1. g <= MaxTra /\ MaxTra \in Nat
    BY <1>2, TransactionsAssumption DEF Kept
  <2> QED
    BY <1>2, <2>1 DEF Numbers
<1>4. i \in Numbers /\ Reader(i) /\ Read(i, n)
  BY DEF Snapshots, Started, Reader, Read, At
<1>5. Safe(i, g)
  BY <1>2, <1>4 DEF Kept
<1> QED
  BY <1>3, <1>4, <1>5 DEF Safe

\* As long as no cache misses a page between two it has, no version that a snapshot
\* reads is below a limit of garbage collection, unless an older number overtook
\* it: transaction_start takes the limit from the data of the locks.
THEOREM NeededStays == Spec /\ []NoGap => []NeededVersionsStay
<1>1. Init => NeedInv
  BY InitNeed
<1>2. OwnInv /\ OwnInv' /\ TrueInv /\ NoGap /\ NeedInv /\ [Next]_vars => NeedInv'
  BY NextNeed DEF Holds
<1>3. OwnInv /\ NeedInv => NeededVersionsStay
  BY NeedStays
<1> QED
  BY <1>1, <1>2, <1>3, OwnInvariant, TrueInvariant, PTL DEF Spec

\* On at most two pages of the inventory, without that condition.
THEOREM TwoPagesNeeded ==
  ASSUME MaxTra < 2 * TransPerTip
  PROVE  Spec => []NeededVersionsStay
<1>1. NoGap
  BY TwoPages
<1>2. Init => NeedInv
  BY InitNeed
<1>3. OwnInv /\ OwnInv' /\ TrueInv /\ NoGap /\ NeedInv /\ [Next]_vars => NeedInv'
  BY NextNeed DEF Holds
<1>4. OwnInv /\ NeedInv => NeededVersionsStay
  BY NeedStays
<1> QED
  BY <1>1, <1>2, <1>3, <1>4, OwnInvariant, TrueInvariant, PTL DEF Spec

=============================================================================
