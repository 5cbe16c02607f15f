---------------------------- MODULE Transactions ----------------------------
(* Transactions of jrd/tra.cpp and the inventory cache of jrd/tpc.cpp: how a *)
(* number is taken from the header page, how the inventory (TIP) pages are   *)
(* copied, how the limit of garbage collection is computed from the data of  *)
(* the transactions' locks, how a transaction ends, keeps its context, or is *)
(* found dead.                                                               *)
(*                                                                           *)
(* Pages are shared by all processes: a page is read or changed in one       *)
(* action, under its latch; the latch of an inventory page is held on until  *)
(* the next page of the inventory is latched.  An action is the code between *)
(* two accesses to what others change: a page, the lock table, the Database  *)
(* block of the process (dbb_*, the cache).                                  *)
(*                                                                           *)
(* A transaction is named by the number it started with; tra_number changes  *)
(* when it commits or rolls back keeping its context.                        *)
EXTENDS Integers, Sequences, FiniteSets

CONSTANTS
  Procs,        \* processes that have the database open
  Kinds,        \* subset of {"snapshot", "committed", "sweep"}: see Start
  TransPerTip,  \* dbb_page_manager.transPerTIP
  Cleanup,      \* TRA_ACTIVE_CLEANUP
  Ends,         \* subset of {"committed", "dead"}: how transactions end
  MaxTra,       \* bound on transaction numbers
  MaxRetain,    \* bound on the numbers taken by transactions that keep their context
  MaxCrash,     \* bound on the processes that die
  MaxWait       \* bound on the transactions others wait for

ASSUME TransactionsAssumption ==
  /\ IsFiniteSet(Procs)
  /\ Kinds \subseteq {"snapshot", "committed", "sweep"}
  /\ Ends \subseteq {"committed", "dead"}
  /\ TransPerTip \in Nat \ {0} /\ Cleanup \in Nat \ {0} /\ MaxTra \in Nat
  /\ MaxRetain \in Nat /\ MaxCrash \in Nat /\ MaxWait \in Nat

VARIABLES
  header,   \* the header page: nt, oit, oat, ost
  tip,      \* the inventory pages: the state of every number
  lock,     \* LCK_tra: lck_data of the lock of a number, 0 when nobody holds it
  dbb,      \* dbb_oldest_* of each process
  cache,    \* TipCache of each process: "none" for numbers of pages not cached
  tra,      \* the transactions
  commits,  \* the numbers committed while snapshots are being taken, in order
  swept,    \* dead numbers of which no record version is left
  overtaken,  \* snapshots that an older number has overtaken, see Publish
  retains, crashes, waits  \* what the bounds count

pages == <<header, tip>>
bounds == <<retains, crashes, waits>>
vars == <<pages, lock, dbb, cache, tra, commits, swept, overtaken, bounds>>

Numbers == 1..MaxTra
States == {"active", "committed", "dead"}

Page(n) == n \div TransPerTip
OnPage(s) == {n \in 0..MaxTra : Page(n) = s}

Least(a, b) == IF b < a THEN b ELSE a
Most(a, b) == IF b > a THEN b ELSE a

\* A number nobody has used yet, or one whose transaction has gone.
NoTra == [pc |-> "none"]

\* The local variables of a function that is not running.
Unused == [next |-> 0, last |-> 0, trim |-> 0, active |-> 0, oat |-> 0, ost |-> 0,
           cleanup |-> FALSE, new |-> 0, saved |-> 0, state |-> "active", marked |-> {}]

Init ==
  /\ header = [nt |-> 0, oit |-> 1, oat |-> 0, ost |-> 0]
  /\ tip = [n \in 0..MaxTra |-> IF n = 0 THEN "committed" ELSE "active"]
  /\ lock = [n \in Numbers |-> 0]
  /\ dbb = [p \in Procs |-> [oit |-> 1, oat |-> 0, ost |-> 0]]
  /\ cache = [p \in Procs |-> [n \in 0..MaxTra |-> "none"]]
  /\ tra = [i \in Numbers |-> NoTra]
  /\ commits = <<>>
  /\ swept = {} /\ overtaken = {}
  /\ retains = 0 /\ crashes = 0 /\ waits = 0

At(i, pc) == tra[i].pc = pc
Live(i) == ~At(i, "none")
(***************************************************************************)
(* The header page                                                         *)
(***************************************************************************)

\* The header as bump_transaction_id leaves it: the next number, and the
\* values this process has computed meanwhile where they are higher.
Bumped(p) ==
  [nt |-> header.nt + 1,
   oit |-> Most(header.oit, dbb[p].oit),
   oat |-> Most(header.oat, dbb[p].oat),
   ost |-> Most(header.ost, dbb[p].ost)]

\* transaction_start up to the release of the header page: the number, and the
\* lock of the transaction.
Start(p, kind) ==
  LET h == Bumped(p)
      n == h.nt
      active == Most(h.oat, h.oit)
  IN
  /\ n <= MaxTra
  /\ header' = h
  /\ lock' = [lock EXCEPT ![n] = IF kind = "snapshot" THEN active ELSE n]
  /\ tra' = [tra EXCEPT ![n] =
       [pc |-> IF kind = "snapshot" THEN "inventory" ELSE "extend",
        proc |-> p, kind |-> kind, number |-> n, top |-> n, oldest |-> h.oit, oldest_active |-> n,
        transactions |-> [m \in 0..MaxTra |-> "active"], subs |-> {},
        local |-> [Unused EXCEPT !.next = Page(h.oit), !.last = Page(n),
                     !.active = active, !.oat = n, !.ost = h.ost, !.cleanup = n % Cleanup = 0]]]
  /\ UNCHANGED <<tip, dbb, cache, commits, swept, bounds, overtaken>>

(***************************************************************************)
(* Inventory pages and the cache of a process                              *)
(***************************************************************************)

\* Mutant: the page is released before the next one is read.
Latched_released(s) == FALSE

\* Whom TRA_get_inventory lets hold a page: the last one it has read, until it
\* has the next.
Latched(s) ==
  \E i \in Numbers :
    /\ tra[i].pc \in {"copy", "cache"}
    /\ tra[i].local.next = s + 1

Cached(p) == {Page(n) : n \in {m \in 0..MaxTra : cache[p][m] # "none"}}
FrontPage(p) == CHOOSE s \in Cached(p) : \A u \in Cached(p) : s <= u
BackPage(p) == CHOOSE s \in Cached(p) : \A u \in Cached(p) : s >= u

\* TipCache::updateCache, given what is on page s: pages below the oldest
\* transaction the process knows of are dropped.
Updated(p, s, content) ==
  [n \in 0..MaxTra |->
    IF Page(n) = s THEN content[n]
    ELSE IF (Page(n) + 1) * TransPerTip <= dbb[p].oit THEN "none"
    ELSE cache[p][n]]

\* One page of TRA_get_inventory for a snapshot: copied into the bit vector
\* and into the cache.
Copy(i) ==
  LET t == tra[i] IN
  /\ t.pc \in {"inventory", "copy"}
  /\ tra' = [tra EXCEPT
       ![i].transactions = [n \in 0..MaxTra |->
          IF Page(n) = t.local.next /\ n <= t.top THEN tip[n] ELSE @[n]],
       ![i].local.next = @ + 1,
       ![i].pc = IF t.local.next < t.local.last THEN "copy" ELSE "scan"]
  /\ cache' = [cache EXCEPT ![t.proc] = Updated(t.proc, t.local.next, tip)]
  /\ UNCHANGED <<pages, lock, dbb, commits, swept, bounds, overtaken>>

\* TipCache::initializeTpc, and cacheTransactions up to the inventory: the
\* pages to read are taken from the header page.
Extend(i) ==
  LET t == tra[i]
      p == t.proc
      from == IF Cached(p) = {} THEN 0 ELSE (BackPage(p) + 1) * TransPerTip
  IN
  /\ At(i, "extend")
  /\ IF Cached(p) # {} /\ t.top < from
     THEN tra' = [tra EXCEPT ![i].pc = "scan"]
     ELSE tra' = [tra EXCEPT ![i].pc = "fill", ![i].local.trim = header.oit,
            ![i].local.next = Page(Most(from, header.oit)), ![i].local.last = Page(header.nt)]
  /\ UNCHANGED <<pages, lock, dbb, cache, commits, swept, bounds, overtaken>>

\* One page of TRA_get_inventory for the cache alone.
Fill(i) ==
  LET t == tra[i] IN
  /\ t.pc \in {"fill", "cache"}
  /\ tra' = [tra EXCEPT ![i].local.next = @ + 1, ![i].pc = IF t.local.next < t.local.last THEN "cache" ELSE "trim"]
  /\ cache' = [cache EXCEPT ![t.proc] = Updated(t.proc, t.local.next, tip)]
  /\ UNCHANGED <<pages, lock, dbb, commits, swept, bounds, overtaken>>

\* The end of cacheTransactions: pages below the oldest transaction it read.
Trim(i) ==
  LET t == tra[i] IN
  /\ At(i, "trim")
  /\ cache' = [cache EXCEPT ![t.proc] = [n \in 0..MaxTra |->
       IF (Page(n) + 1) * TransPerTip < t.local.trim THEN "none" ELSE @[n]]]
  /\ tra' = [tra EXCEPT ![i].pc = "scan"]
  /\ UNCHANGED <<pages, lock, dbb, commits, swept, bounds, overtaken>>

\* The least of a set of numbers, or b when there is none.
Earliest(numbers, b) == {n \in numbers \union {b} : \A m \in numbers : n <= m}

\* Numbers between two pages of the cache, on a page it does not hold.
Gap(p) == {n \in 0..MaxTra : cache[p][n] = "none" /\ FrontPage(p) < Page(n) /\ Page(n) < BackPage(p)}

\* TipCache::findStates: the least number from a up to, not including, b of
\* which the cache holds a state in wanted, or b.  For a number in a gap it reads
\* in front of the next page's block: any state.
Find(p, a, b, wanted) ==
  LET from == Most(a, FrontPage(p) * TransPerTip)
      asked == from..(b - 1)
      found == {n \in asked : cache[p][n] \in wanted}
  IN IF from >= b \/ cache[p][from] = "none" THEN {b}
     ELSE Earliest(found, b) \union {n \in asked \intersect Gap(p) : \A m \in found : n < m}

\* A snapshot that is being taken: transaction_start has not ended.
Taken(i) ==
  /\ Live(i) /\ tra[i].kind = "snapshot"
  /\ tra[i].pc \in {"inventory", "copy", "scan", "settle", "query", "publish"}

\* Mutant: the page is not read again.
GetState_believed(p, n) ==
  CASE n < FrontPage(p) * TransPerTip -> "committed"
    [] cache[p][n] # "none" -> cache[p][n]
    [] cache[p][n] = "none" /\ n < header.oit -> "committed"
    [] OTHER -> IF n \in Gap(p) THEN "active" ELSE tip[n]

\* extendCache reads the pages behind the last one of the cache; there must be
\* one, or the engine stops (cannot find tip page).
Readable(p, n) ==
  n < FrontPage(p) * TransPerTip \/ cache[p][n] # "none" \/ BackPage(p) < Page(header.nt)

\* TRA_get_state through TipCache::snapshotState: what is known to be final is
\* believed, of an active one the lock and then the page are asked.  Of a number
\* in a gap extendCache finds nothing, unless it is below the oldest one.
GetState(p, n) ==
  CASE n < FrontPage(p) * TransPerTip -> "committed"
    [] cache[p][n] \in {"committed", "dead"} -> cache[p][n]
    [] cache[p][n] = "active" -> IF lock[n] # 0 THEN "active" ELSE tip[n]
    [] cache[p][n] = "none" /\ n < header.oit -> "committed"
    [] OTHER -> IF n \in Gap(p) THEN "active" ELSE tip[n]

\* The cache after that: the page that was asked, or those past the last it held.
Learnt(p, n) ==
  CASE n < FrontPage(p) * TransPerTip \/ cache[p][n] \in {"committed", "dead"} -> cache[p]
    [] cache[p][n] = "active" -> IF lock[n] # 0 THEN cache[p] ELSE Updated(p, Page(n), tip)
    [] OTHER ->
        [m \in 0..MaxTra |->
          IF Page(m) \in Most(BackPage(p) + 1, Page(header.oit))..Page(header.nt) THEN tip[m]
          ELSE IF (Page(m) + 1) * TransPerTip < Most(header.oit, dbb[p].oit + 1) THEN "none"
          ELSE cache[p][m]]

\* Mutant: only the cache learns the state.
SetState_unwritten(p, n, state) ==
  LET content == [tip EXCEPT ![n] = state] IN
  /\ ~Latched(Page(n))
  /\ UNCHANGED tip
  /\ cache' = [cache EXCEPT ![p] = Updated(p, Page(n), content)]
  /\ commits' = IF state = "committed" /\ \E i \in Numbers : Taken(i) THEN Append(commits, n) ELSE commits

\* TRA_set_state: the page and, as its block is cached by the fetch, the cache.
SetState(p, n, state) ==
  LET content == [tip EXCEPT ![n] = state] IN
  /\ ~Latched(Page(n))
  /\ tip' = content
  /\ cache' = [cache EXCEPT ![p] = Updated(p, Page(n), content)]
  /\ commits' = IF state = "committed" /\ \E i \in Numbers : Taken(i) THEN Append(commits, n) ELSE commits

\* The end of TRA_wait, given the state: a transaction that is active although
\* nobody holds its lock is dead, and the snapshot of the one that waited is
\* adjusted.
Settle(i, n, state) ==
  LET p == tra[i].proc IN
  IF state = "active" THEN SetState(p, n, "dead")
  ELSE cache' = [cache EXCEPT ![p] = Learnt(p, n)] /\ UNCHANGED <<tip, commits>>

Settled(state) == IF state = "active" THEN "dead" ELSE state

(***************************************************************************)
(* transaction_start after the inventory: how far garbage may be collected  *)
(***************************************************************************)

\* The next number the transaction takes for active.
NextActive(t) ==
  IF t.kind = "snapshot"
  THEN Earliest({n \in t.local.active..(t.top - 1) : t.transactions[n] = "active"}, t.top)
  ELSE Find(t.proc, t.local.active, t.top, {"active"})

\* One turn of the loop: the data of the lock of the oldest active transaction.
Scan(i) ==
  LET t == tra[i] IN
  /\ At(i, "scan")
  /\ \E n \in NextActive(t) :
       LET data == IF n < t.top /\ lock[n] # 0 THEN lock[n] ELSE n
           limit == Least(t.oldest_active, data)
       IN tra' =
          IF n = t.top THEN [tra EXCEPT ![i].pc = "publish"]
          ELSE IF lock[n] = 0 /\ t.local.cleanup
          THEN [tra EXCEPT ![i].pc = "settle", ![i].local.active = n]
          ELSE [tra EXCEPT ![i].local.oat = Least(@, n), ![i].oldest_active = limit,
                           ![i].pc = IF limit = t.local.ost THEN "publish" ELSE "query"]
  /\ UNCHANGED <<pages, lock, dbb, cache, commits, swept, bounds, overtaken>>

\* TRA_wait(tra_no_wait) for a transaction without a lock, and on with the loop.
Clean(i) ==
  LET t == tra[i]
      n == t.local.active
      state == GetState(t.proc, n)
  IN
  /\ At(i, "settle") /\ Readable(t.proc, n)
  /\ Settle(i, n, state)
  /\ tra' = [tra EXCEPT
       ![i].transactions[n] = IF t.kind = "snapshot" THEN Settled(state) ELSE @,
       ![i].local.cleanup = state # "committed",
       ![i].local.active = @ + 1,
       ![i].pc = "scan"]
  /\ UNCHANGED <<header, lock, dbb, swept, bounds, overtaken>>

Data == {lock[n] : n \in Numbers} \ {0}

\* LCK_query_data: the least data of all transactions' locks.
OldestData == CHOOSE d \in Data : \A e \in Data : d <= e

\* LCK_query_data, the limit as far as the lock table knows it.
Query(i) ==
  /\ At(i, "query")
  /\ tra' = [tra EXCEPT ![i].oldest_active = Least(@, OldestData), ![i].pc = "publish"]
  /\ UNCHANGED <<pages, lock, dbb, cache, commits, swept, bounds, overtaken>>

\* The first number from t.oldest that is not committed.
Interesting(t) ==
  IF t.kind = "snapshot"
  THEN Earliest({n \in t.oldest..(t.top - 1) : t.transactions[n] # "committed"}, t.top)
  ELSE Find(t.proc, t.oldest, t.top, {"active", "dead"})

\* Mutant: the lock of a snapshot gets its own number.
LockData_young(t) == t.number

\* What the lock of a transaction tells the others: the oldest it needs.
LockData(t) == IF t.kind = "snapshot" THEN t.local.oat ELSE t.number

\* Mutant: the number itself is published as the oldest active one.
Raised_own(known, t, oldest) ==
  [oit |-> Most(known.oit, oldest - 1), oat |-> Most(known.oat, t.number),
   ost |-> Most(known.ost, t.oldest_active)]

\* The values of a process after it started t.
Raised(known, t, oldest) ==
  [oit |-> Most(known.oit, oldest - 1), oat |-> Most(known.oat, t.local.oat),
   ost |-> Most(known.ost, t.oldest_active)]

\* The end of transaction_start: the oldest active number goes into the lock of
\* a snapshot, and the values of the process are raised; they reach the header
\* with its next Start.
Publish(i) ==
  LET t == tra[i] IN
  /\ At(i, "publish")
  /\ lock' = [lock EXCEPT ![t.number] = LockData(t)]
  /\ \E oldest \in Interesting(t) : dbb' = [dbb EXCEPT ![t.proc] = Raised(@, t, oldest)]
  /\ tra' = [tra EXCEPT ![i].pc = IF t.kind = "sweep" THEN "precommit" ELSE "running",
                        ![i].local = Unused]
  /\ commits' = IF \E j \in Numbers \ {i} : Taken(j) THEN commits ELSE <<>>
  /\ overtaken' = overtaken \union
       {j \in Numbers : Live(j) /\ tra[j].kind = "snapshot" /\ Most(tra[j].number, tra[j].local.new) > i}
  /\ UNCHANGED <<pages, cache, swept, bounds>>

(***************************************************************************)
(* The end of a transaction, and keeping its context                       *)
(***************************************************************************)

\* TRA_commit and TRA_rollback: the state on the page.  A rollback that could
\* undo its changes ends as a commit.
End(i, state) ==
  LET t == tra[i] IN
  /\ \/ At(i, "running") /\ t.kind # "sweep"
     \/ At(i, "precommit") /\ state = "committed"
  /\ SetState(t.proc, t.number, state)
  /\ tra' = [tra EXCEPT ![i].pc = "release"]
  /\ UNCHANGED <<header, lock, dbb, swept, bounds, overtaken>>

\* TRA_release_transaction; a sweep runs on without the lock.
Release(i) ==
  /\ At(i, "release")
  /\ lock' = [lock EXCEPT ![tra[i].number] = 0]
  /\ tra' = IF tra[i].kind = "sweep" THEN [tra EXCEPT ![i].pc = "running"]
                                     ELSE [tra EXCEPT ![i] = NoTra]
  /\ UNCHANGED <<pages, dbb, cache, commits, swept, bounds, overtaken>>

\* retain_context: a new number whose lock inherits the data of the old one.
Retain(i, state) ==
  LET t == tra[i]
      h == Bumped(t.proc)
  IN
  /\ At(i, "running") /\ t.kind # "sweep"
  /\ h.nt <= MaxTra /\ retains < MaxRetain
  /\ header' = h
  /\ lock' = [lock EXCEPT ![h.nt] = lock[t.number]]
  /\ tra' = [tra EXCEPT ![i].pc = "retain", ![i].local.new = h.nt, ![i].local.state = state,
               ![i].subs = IF state = "committed" THEN @ \union {t.number} ELSE @]
  /\ retains' = retains + 1
  /\ UNCHANGED <<tip, dbb, cache, commits, swept, crashes, waits, overtaken>>

RetainState(i) ==
  LET t == tra[i] IN
  /\ At(i, "retain")
  /\ SetState(t.proc, t.number, t.local.state)
  /\ tra' = [tra EXCEPT ![i].pc = "retained"]
  /\ UNCHANGED <<header, lock, dbb, swept, bounds, overtaken>>

RetainEnd(i) ==
  LET t == tra[i] IN
  /\ At(i, "retained")
  /\ lock' = [lock EXCEPT ![t.number] = 0]
  /\ tra' = [tra EXCEPT ![i].pc = "running", ![i].number = t.local.new,
                        ![i].local = Unused]
  /\ UNCHANGED <<pages, dbb, cache, commits, swept, bounds, overtaken>>

\* Mutant: it goes on without the lock.
Obtained_unlocked(n) == TRUE

\* LCK_lock with the lock of n, which its transaction held, and LCK_release.
Obtained(n) == lock[n] = 0

\* TRA_wait(tra_wait) of a transaction that has met a version of n: it has got
\* the lock of n and given it back.  That n has committed is returned at once.
Wait(i, n) ==
  LET t == tra[i]
      state == GetState(t.proc, n)
  IN
  /\ At(i, "running") /\ t.kind # "sweep"
  /\ n <= header.nt /\ Obtained(n) /\ Readable(t.proc, n) /\ waits < MaxWait
  /\ Settle(i, n, state)
  /\ tra' = [tra EXCEPT ![i].transactions[n] =
               IF state # "committed" /\ n <= t.top /\ t.kind = "snapshot"
               THEN Settled(state) ELSE @]
  /\ waits' = waits + 1
  /\ UNCHANGED <<header, lock, dbb, swept, retains, crashes, overtaken>>

(***************************************************************************)
(* Sweep, the death of a process, the first attachment                     *)
(***************************************************************************)

\* VIO_sweep: it removes the versions of every transaction that was dead when
\* it began, and takes the process' oldest snapshot as it goes.
Sweep(i) ==
  /\ At(i, "running") /\ tra[i].kind = "sweep"
  /\ tra' = [tra EXCEPT ![i].pc = "sweeping", ![i].local.saved = tra[i].oldest_active,
                        ![i].local.marked = {n \in Numbers : tip[n] = "dead"}]
  /\ UNCHANGED <<pages, lock, dbb, cache, commits, swept, bounds, overtaken>>

Swept(i) ==
  /\ At(i, "sweeping")
  /\ swept' = swept \union tra[i].local.marked
  /\ tra' = [tra EXCEPT ![i].pc = "advance", ![i].oldest_active = dbb[tra[i].proc].ost]
  /\ UNCHANGED <<pages, lock, dbb, cache, commits, bounds, overtaken>>

\* Mutant: the limit the process has found meanwhile is used.
Advance_refreshed(i) ==
  LET t == tra[i] IN
  /\ At(i, "advance")
  /\ header' = IF header.oit < t.oldest_active - 1
               THEN [header EXCEPT !.oit = Least(t.top, t.oldest_active - 1)] ELSE header
  /\ tra' = [tra EXCEPT ![i] = NoTra]
  /\ UNCHANGED <<tip, lock, dbb, cache, commits, swept, bounds, overtaken>>

\* The end of TRA_sweep: the oldest transaction of the header page.
Advance(i) ==
  LET t == tra[i] IN
  /\ At(i, "advance")
  /\ header' = IF header.oit < t.local.saved - 1
               THEN [header EXCEPT !.oit = Least(t.top, t.local.saved - 1)] ELSE header
  /\ tra' = [tra EXCEPT ![i] = NoTra]
  /\ UNCHANGED <<tip, lock, dbb, cache, commits, swept, bounds, overtaken>>

OfHeader == [oit |-> header.oit, oat |-> header.oat, ost |-> header.ost]

\* A process dies; its locks go, and it comes back with an empty cache.
Crash(p) ==
  LET gone == {i \in Numbers : Live(i) /\ tra[i].proc = p} IN
  /\ crashes < MaxCrash
  /\ crashes' = crashes + 1
  /\ lock' = [n \in Numbers |-> IF \E i \in gone : n \in {tra[i].number, tra[i].local.new} THEN 0 ELSE lock[n]]
  /\ tra' = [i \in Numbers |-> IF i \in gone THEN NoTra ELSE tra[i]]
  /\ dbb' = [dbb EXCEPT ![p] = OfHeader]
  /\ cache' = [cache EXCEPT ![p] = [n \in 0..MaxTra |-> "none"]]
  /\ UNCHANGED <<pages, commits, swept, retains, waits, overtaken>>

\* TRA_cleanup: whoever attaches alone marks as dead what is still active.
Open ==
  /\ \A i \in Numbers : ~Live(i)
  /\ header.nt # 0
  /\ tip' = [n \in 0..MaxTra |->
       IF n \in header.oat..header.nt /\ tip[n] = "active" THEN "dead" ELSE tip[n]]
  /\ dbb' = [p \in Procs |-> OfHeader]
  /\ cache' = [p \in Procs |-> [n \in 0..MaxTra |-> "none"]]
  /\ UNCHANGED <<header, lock, tra, commits, swept, bounds, overtaken>>

Step(i) ==
  \/ Copy(i) \/ Extend(i) \/ Fill(i) \/ Trim(i)
  \/ Scan(i) \/ Clean(i) \/ Query(i) \/ Publish(i)
  \/ \E state \in Ends : End(i, state) \/ Retain(i, state)
  \/ Release(i) \/ RetainState(i) \/ RetainEnd(i)
  \/ \E n \in Numbers : Wait(i, n)
  \/ Sweep(i) \/ Swept(i) \/ Advance(i)

Next ==
  \/ \E p \in Procs : (\E kind \in Kinds : Start(p, kind)) \/ Crash(p)
  \/ \E i \in Numbers : Step(i)
  \/ Open

Spec == Init /\ [][Next]_vars

(***************************************************************************)
(* Properties                                                              *)
(***************************************************************************)

Stored == States \union {"none"}

TypeOK ==
  /\ header \in [nt : 0..MaxTra, oit : 0..MaxTra, oat : 0..MaxTra, ost : 0..MaxTra]
  /\ tip \in [0..MaxTra -> States]
  /\ lock \in [Numbers -> 0..MaxTra]
  /\ dbb \in [Procs -> [oit : Numbers, oat : 0..MaxTra, ost : 0..MaxTra]]
  /\ cache \in [Procs -> [0..MaxTra -> Stored]]
  /\ \A i \in Numbers : Live(i) => tra[i].proc \in Procs /\ tra[i].kind \in Kinds
  /\ overtaken \subseteq Numbers /\ swept \subseteq Numbers

Started(i) == Live(i) /\ tra[i].pc \notin {"inventory", "copy", "extend", "fill", "cache", "trim"}

\* A transaction keeps its number active until it ends itself: nobody takes it
\* for dead.
OnlyTheDeadAreDead ==
  \A i \in Numbers : Live(i) /\ tra[i].pc \notin {"release", "retained"} /\ tra[i].kind # "sweep"
    => tip[tra[i].number] = "active" /\ (At(i, "retain") => tip[tra[i].local.new] = "active")

\* What a cache believes to be final is what the page says.
CacheSound ==
  \A p \in Procs, n \in Numbers : cache[p][n] \in {"committed", "dead"} => tip[n] = cache[p][n]

OldestBounds == {header.oit} \union {dbb[p].oit : p \in Procs} \union
  {tra[i].oldest : i \in {j \in Numbers : Live(j)}} \union
  {FrontPage(p) * TransPerTip : p \in {q \in Procs : Cached(q) # {}}}

\* Every number below a bound that makes the code assume "committed" without
\* looking is committed, or none of its versions is left.
AssumedCommitted ==
  \A b \in OldestBounds : \A n \in 1..(b - 1) : tip[n] = "committed" \/ n \in swept

\* The number of no transaction that runs is below an oldest active number.
OldestActiveIsOldest ==
  \A i \in Numbers : Live(i) /\ tip[tra[i].number] = "active" =>
    /\ header.oat <= tra[i].number
    /\ \A p \in Procs : dbb[p].oat <= tra[i].number

Sees(i, n) ==
  \/ n < tra[i].oldest \/ n \in tra[i].subs \/ n = tra[i].number
  \/ n <= tra[i].top /\ tra[i].transactions[n] = "committed"

Snapshots == {i \in Numbers : Started(i) /\ ~At(i, "release") /\ tra[i].kind = "snapshot"}

\* Of the transactions not younger than itself, a snapshot sees those that had
\* committed at one moment: the consistent view of the inventory that the comment
\* in TRA_get_inventory promises.  True of two pages, not of three: the latch of
\* the first is gone before the third is read.
SnapshotIsACut ==
  \A i \in Numbers : Taken(i) /\ Started(i) /\ i % Cleanup # 0 =>
    \A k, l \in 1..Len(commits) :
      k < l /\ commits[k] <= i /\ commits[l] <= i /\ Sees(i, commits[l]) => Sees(i, commits[k])

\* What the hand-off of the latch from page to page does give: a snapshot that
\* sees the later of two commits sees the earlier one too, unless there is a page
\* between that of the earlier one and that of the later one behind it.
NeighboursAreCut ==
  \A i \in Numbers : Taken(i) /\ Started(i) /\ i % Cleanup # 0 =>
    \A k, l \in 1..Len(commits) :
      /\ k < l /\ commits[k] <= i /\ commits[l] <= i
      /\ Page(commits[l]) <= Page(commits[k]) + 1
      /\ Sees(i, commits[l])
      => Sees(i, commits[k])

\* The bounds below which committed versions hide the older ones from everybody.
Thresholds == {header.ost} \union {dbb[p].ost : p \in Procs} \union
  {tra[i].oldest_active : i \in {j \in Numbers : At(j, "running") \/ At(j, "sweeping")}}

\* No version a snapshot reads may be collected.
NeededVersionsStay ==
  \A i \in Snapshots \ overtaken, g \in Thresholds :
    \A n \in 1..(g - 1) : tip[n] = "committed" => Sees(i, n)

\* The same for every snapshot, as the comment before the limit is computed has it.
NoNeededVersionCollected ==
  \A i \in Snapshots, g \in Thresholds : \A n \in 1..(g - 1) : tip[n] = "committed" => Sees(i, n)

\* A state once final never changes.
FinalIsFinal == [][\A n \in Numbers : tip[n] # "active" => tip'[n] = tip[n]]_vars
=============================================================================
