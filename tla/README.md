# TLA+ for Firebird: locks, transactions, backup and events

Firebird is a relational database engine.  Several processes, or several threads of one, open a
database file and coordinate through a lock table in shared memory.  This directory holds TLA+
modules of the parts of the engine where that coordination takes place, the TLC configurations
that check them, and proofs for TLAPS.  Paths are those of the repository; `lock.cpp` is
`src/lock/lock.cpp`, `lck.cpp` is `src/jrd/lck.cpp`.

Five components are modelled: the **lock manager**, the table of locks in shared memory
on which the processes of the engine agree; **SyncObject**, the read-write lock between threads
of one process; **transactions** with the inventory of their states and the limits of garbage
collection; **physical backup** with the state lock and the page reads and writes under it; and
the **event manager**.  All are model-checked, and of each the central properties are proved
for every size.

## Inventory

| component | state | operations | what is hard | what makes it correct |
|---|---|---|---|---|
| Lock table (`lock/lock.cpp`) | request, lock, owner and process blocks in shared memory | enqueue, convert, downgrade, dequeue, grants to pending requests | every call interleaves with all others; incremental counters | granted levels are compatible; nothing grantable waits; counters equal a recount |
| Owners and waiting (`lock/lock.cpp`) | use counts, flags, wait and AST counts, wake-up events | initializeOwner, shutdownOwner, wait_for_request, cancelWait, repost | the table is given up while waiting and around AST routines | no wake-up is lost; no block is freed under an AST; calls with a timeout return |
| Blocking ASTs (`lock/lock.cpp`) | per-owner blocking queue, per-process event | post_blockage, signal_owner, blocking_action, blocking thread | inline and threaded delivery race; blocks may be reused | a signal is served; blockers are told |
| Deadlock scan (`lock/lock.cpp`) | marks on requests and owners | deadlock_scan, deadlock_walk | marks survive from scan to scan; some waits are undecided | victims are on a cycle; cycles are found |
| Death of processes (`lock/lock.cpp`) | process blocks, active owner, secondary header `shb` | probe_processes, purge_process, recovery in acquire_shmem | death between any two stores of a queue update | the living lose nothing; queues are repaired |
| Lock data queues (`lock/lock.cpp`) | per-series ordered queues of lock data | queryData, readData, readData2, writeData | ordering by value, iterated by transactions | minimum and maximum answer what the queue holds |
| Engine's lock interface (`jrd/lck.cpp`) | `Lock` objects, hash of identical locks of a process | LCK_lock, LCK_convert, LCK_release, LCK_re_post, internal compatible locks | own queues of identical locks inside one process | the logical level never exceeds the physical one |
| Global read-write lock (`jrd/GlobalRWLock.cpp`) | reader count, writers, `blocking`, a cached lock | lockRead, lockWrite, unlock, AST handler | its mutex is given up around LCK calls | exclusion, and nobody sleeps for ever |
| Events (`jrd/event.cpp`) | processes, sessions, requests, interests in shared memory | createSession, queEvents, cancelEvents, postEvent, deliverEvents, watcher | call-backs without the mutex; two-step posting | a posted event reaches its request once |
| SyncObject (`common/classes/SyncObject.cpp`) | one state word, queue of waiters | lock, lockConditional, unlock, downgrade, grantLocks | lock-free fast path against the queue; timeouts | exclusion, no lost waiter |
| Transactions (`jrd/tra.cpp`, `jrd/tpc.cpp`) | header counters, inventory pages, cached states, locks | start, commit, rollback, prepare, wait, sweep | counters derived from locks of others; stale cache | nobody takes a live transaction for dead; snapshots are consistent |
| Record versions (`jrd/vio.cpp`) | chains of back versions | store, modify, erase, back out, garbage-collect | writers meet on one chain | a snapshot sees one state |
| Page cache (`jrd/cch.cpp`) | buffers, latches, page locks, precedence graph | fetch, mark, release, flush, AST | careful write order; locks given up on demand | what refers to a page is written after it |
| Physical backup (`jrd/nbak.cpp`) | backup state, delta file, allocation table | begin, end, recover, read and write a page | the state changes between two steps | no page is lost between file and delta |
| Shutdown (`jrd/shut.cpp`) | database flags, lock data, header | SHUT_database, SHUT_online, AST | one lock datum notifies everybody | everybody has left when it succeeds |
| Encryption (`jrd/CryptoManager.cpp`) | crypt state, header, locks | change state, crypt thread, read, write | pages are read while the state changes | a page is decrypted as it was encrypted |
| Page allocation, B-trees, sorting, blobs | pages | | data layout | out of reach, or after the page cache |
| Monitoring, trace | shared memory snapshots | | as the event manager | not modelled |
| Requests, optimizer, `dsql`, record sources | language processing | | no protocol | not modelled |
| `yvalve`, `remote`, plugins, authentication | handles, packets | | distributed commit | not modelled (distributed commit is a candidate) |
| `common`, `intl`, tools, examples, builds | | | | not modelled |

How they interact: the engine calls the lock manager through `lck.cpp` with an owner (a database
or an attachment), a series and key, a level, a wait time and an AST routine.  The lock manager
calls the AST routine when a request blocks somebody; the routine runs without the table and
normally calls convert, downgrade or dequeue itself.  Processes talk to one another only through
the shared table and its events: `own_wakeup` per owner, `prc_blocking` per process.  Page locks,
transaction locks, the state locks of backup, shutdown and encryption are all such requests, so
everything else in the list rests on this component.

Hazards are listed, each at its line, in `PROJECT.json`; those with a note say what is not
covered.

## Plan

Done, in this order: `LockTypes`, `LockManager`, `DeadlockWalk`, `Srq`, `ReadWriteLock`,
`SyncObject` and the proof modules; then `Transactions`, `NBackup` and `EventTable`, three users of
shared state that follow protocols of their own, with `EventTableProofs`, `NBackupProofs`,
`TransactionsProofs`, `LockWaitProofs` and `SrqProofs`.  `NBackup` contains the global read-write lock as
the backup state uses it, with the grants of the lock manager as one step.  To come:

1. Record versions (`vio.cpp`) on top of `Transactions`: update conflicts, back-out and the
   collection of the versions below `tra_oldest_active`.
2. `LockTable`, an abstract specification of the promise of the table (a set of granted levels
   and of waiting requests, changed in one step), and the refinement by `LockManager`; the same
   abstraction can then stand for `lock` in `Transactions` and `gl` in `NBackup`.
3. Precedence of the page cache; page locks and their ASTs; compatible locks of `lck.cpp`.
4. `Crypto` and `Shutdown`, two more users of state locks; the lock data queues.
5. Proofs: what the snapshots that adjust their copy (`Cleanup`) still see in order.

## The modules

### LockTypes
The levels, `compatibility` and `lock_state`: the strongest level with a holder.  No variables.

### LockManager
One variable per field of the shared blocks, named like the field: `lrq_*` of a request, `lbl_*`
of a lock, `own_*` of an owner, `prc_*` of a process.  `own_requests` and `own_pending` are
derived, as their order matters to nothing that is checked; `own_blocks` is a set, and the
code's choice of the first element is left open.  `lbl_requests` is a sequence: its order is the
fairness of the table.

The mutex of the table is `holder`.  An action is a stretch of code that runs while a thread
holds it; `next` says where that thread goes on, `posting` which lock a `post_pending` is at
work on, `purge` which dead blocks are still to be taken down.  The table is given up exactly where
the code does: at the end of a call, in `event_wait`, in `blocking_action` around the AST
routine, and in `shutdownOwner` while it sleeps.  Splitting a call into several actions that the
mutex keeps together costs no interleavings and lets a property see the table as the code sees it
between two routines.

`thread[t]` is what a thread keeps on its stack while it has given the table up: the owner it
delivers for, the owners it has yet to signal and the processes it has found dead
(`blocking_owners`, `dead_processes` of `post_blockage`).  A thread is identified by what it
works for: a request whose call it executes, an owner that is being reposted or shut down, or the
blocking thread of a process.  `call[r]` holds the parameters of the call, `lck_physical[r]` the
level that `lck.cpp` records.

| actions | code |
|---|---|
| `enqueue`, `enqueue_prior`, `enqueue_insert`, `enqueue_grant` | `enqueue`: tests, release of the prior request, insertion, a new lock |
| `grant_or_que_grant`, `grant_or_que_block` | `grant_or_que` |
| `convert`, `internal_convert_grant`, `_block`, `_undo` | `convert`, `internal_convert` |
| `downgrade`, `dequeue`, `internal_dequeue` | the same names |
| `PostPendingGrant`, `PostPendingEnd` | one turn and the end of the loop of `post_pending` |
| `wait_for_request`, `wait_*`, `event_wait` | `wait_for_request` |
| `post_blockage`, `skip_owner`, `signal_owner`, `purge_unreachable` | `post_blockage` and its three loops |
| `blocking_action`, `ast_return`, `blocking_action_end` | `blocking_action` until the AST, after it, and at the end |
| `blocking_thread_wake`, `_serve`, `_sleep` | `blocking_action_thread` |
| `deadlock_found`, `deadlock_not_found` | `deadlock_scan` in `wait_for_request` |
| `repost`, `cancelWait`, `initializeOwner`, `initializeOwner_again`, `create_owner`, `shutdownOwner`, `shutdownOwner_awake`, `destroy` | the same names; `destroy` is the destructor |
| `purge_owner_request`, `purge_owner_repost`, `purge_owner`, `purge_process` | `purge_owner`, `purge_process` |
| `die` | a process dies outside the table (external) |

### DeadlockWalk
`deadlock_clear`, `deadlock_scan` and `deadlock_walk` one step of the recursion at a time on an
arbitrary graph of waits, with arbitrary stale marks.  `LockManager` computes the graph
(`WaitsFor`) and uses the result of the walk in one step (`Victims`, `MaybeDeadlock`): the mutex is
held all the time.

### Srq
The queues themselves: `insert_tail`, `remove_que` and the recovery in `acquire_shmem`, one store
at a time, with a process that may die before any store.  `LockManager` uses sequences and sets
for what `Srq` shows to be queues.  A thread works as an owner or as `DUMMY_OWNER`.

### ReadWriteLock and SyncObject
`ReadWriteLock` is the promise: `held[t]` says how a thread holds the lock, and a step takes it
shared or exclusively, gives it back, or lowers it from exclusive to shared.

`SyncObject` is the code of `common/classes/SyncObject.cpp`, with what it uses of
`Synchronize.cpp`.  Here nothing is protected by one mutex: `lockState` changes by
compare-and-swap from three sides, `waiters` is read without the mutex and changed under it,
`exclusiveThread` is read and written without it, and the queue belongs to the mutex.  So an action
is one access to what other threads may see, and `pc[t]` says between which two accesses a thread
is.  A compare-and-swap that fails goes round its loop and reads again, as if it had
not read before, so only the last turn of a loop is a step.

| actions | code |
|---|---|
| `lock`, `lockConditional`, `Start`, `lockAgain` | the calls, and the test of `exclusiveThread` that lets the holder in again |
| `fast`, `swap`, `mark` | `while (waiters == 0)`, the compare-and-swap, `exclusiveThread = thread` |
| `slow`, `fair` | entering the mutex and counting oneself; the compare-and-swap under it, or joining the queue (`wait`, 265-290) |
| `wait`, `sleep`, `late` | the loop of `wait`, `Synchronize::sleep`, and the end of the time |
| `unlock`, `unlock_swap`, `downgrade`, `downgrade_swap`, `look` | up to the compare-and-swap, the swap, and the test of `waiters` |
| `grantLocks`, `share`, `crown`, `give`, `wake` | `grantLocks`: the decision, one turn of the loop over readers, the two halves of the grant to a writer, and the wake-up |

`Held` is the refinement mapping: a waiter holds the lock from the moment `grantLock` says so,
and a thread in `unlock` until its compare-and-swap.  `waiters` is a record of its two halves,
and time is abstracted: a limited wait may end at any time.

### Transactions
Transactions of `tra.cpp` and the inventory cache of `tpc.cpp`.  The header page (`header`: next
number, oldest interesting, oldest active, oldest snapshot) and the inventory pages (`tip`) belong
to all processes; `dbb` and `cache` to one.  `lock[n]` is the lock of transaction n with its
`lck_data`, 0 when nobody holds it; it stands for the lock manager.  `tra[i]` is a transaction with its place
in the code, its snapshot (`transactions`, `oldest`, `top`, `subs`) and the local variables of
the function it is in.

A page is read or changed in one action, under its latch.  The latch of an inventory page is held
until the next page of the inventory is latched (`CCH_HANDOFF`), and `Latched` keeps writers away
meanwhile: it is what makes a snapshot consistent over two neighbouring pages; with a third page the
latch of the first is gone before that one is read (`v_cut`).  Everything else comes in between two
accesses: `Start` takes a number under the latch of the header, `Copy`, `Extend`, `Fill` and `Trim`
read the inventory, `Scan`, `Clean`, `Query` and `Publish` compute the limits.

| actions | code |
|---|---|
| `Start` | `transaction_start` with `bump_transaction_id` and the lock of the number |
| `Copy`; `Extend`, `Fill`, `Trim` | `TRA_get_inventory` for a snapshot; `initializeTpc` and `cacheTransactions` for the others |
| `Scan`, `Clean`, `Query`, `Publish` | the loop over active numbers, `TRA_wait(no_wait)` for one without lock, `LCK_query_data`, the end |
| `End`, `Release` | `TRA_set_state` of commit or rollback, `TRA_release_transaction` |
| `Retain`, `RetainState`, `RetainEnd` | `retain_context`: the new number, the state of the old one, its lock |
| `Wait` | `TRA_wait` after a conflict |
| `Sweep`, `Swept`, `Advance` | `TRA_sweep`: its start, `VIO_sweep`, the oldest transaction of the header |
| `Open` | `TRA_cleanup` by the first attachment |
| `Crash` | a process dies (external) |

`commits`, `overtaken` and `swept` are history: the order of commits while a snapshot is taken, the
snapshots that an older transaction has overtaken, and the dead numbers none of whose versions are
left.  `Page(h.oit)` abstracts the rounding to bytes of the inventory.

### NBackup
The backup state of `nbak.cpp` and what `cch.cpp` does under it.  On disk: the header page, the
database file, the difference file (`delta`, its domain the allocation table; `Blank` is a page
allocated but never written).  In memory: the buffers, which process has a page dirty, and per
process `bm` (BackupManager), `gl` (the state lock, a GlobalRWLock over a lock of the lock
manager), and `localStateLock` (`guard`, `stamped`, `writer`).  A page that was marked is a reader of
the local lock until it is written, whoever writes it.

An action is the code between two places where another thread, the AST thread of the process or
another process can come in; what `counterMutex` protects is one action.  `Grant` is the lock
manager, which grants what is compatible; `Ast` comes when another process waits for what conflicts.

| actions | code |
|---|---|
| `Enter`, `LockRead`, `GrantedRead` | `lockStateRead`: the local lock, `GlobalRWLock::lockRead` before and after its wait, `actualizeState` |
| `Fetch`, `Read`, `Mark`, `Write` | `CCH_fetch_page`, `CCH_mark` with `set_diff_page`, `write_page` |
| `Flush` in several, `FetchHeader`, `ReadHeader`, `BeginWrite`, `LockWrite`, `GrantedWrite`, `UnlockWrite` | `StateWriteGuard`, made and destroyed |
| `BeginBackup`, `Stall` | `beginBackup` |
| `EndBackup`, `Check`, `StartMerge`, `Table`, `Merge`, `MergeFlush`, `Merged`, `Finish` | `endBackup` |
| `Ast`, `AstTry`, `AstSet`, `Handler` | `NBackupStateLock::blockingAstHandler`, `GlobalRWLock::blockingAstHandler` |
| `Crash`, `Grant` | a process dies, the lock manager grants (external) |

### EventTable
The event manager of `event.cpp`.  The table has one mutex, so an action is the code between
`acquire_shmem` and `release_shmem`; the mutex is given up around the call-back of a client and in
the sleep of `delete_session`.  `evnt`, `prb`, `ses`, `req`, `hist` are the blocks and the historical
interests; `watcher[p]` says where the watcher thread of a process is, `due` who has posted and not
yet called `deliverEvents`, `told` what the client of a session was last told of an event, which it
gives back in its next request.

| actions | code |
|---|---|
| `CreateProcess`, `Probe` | `create_process`, `probe_processes`, the loop of `delete_process` |
| `CreateSession`, `DeleteSession` | `create_session`, `deleteSession`; `Deleted` is `delete_session` and `delete_event` |
| `QueEvents`, `CancelEvents` | the same names; `Dropped` is `delete_request` |
| `PostEvent` (`Count` where the event has a block), `DeliverEvents` | the two steps of a post |
| `Turn`, `Return`, `Purged`, `Scan` | `watcher_thread`, `deliver` after a call-back, a session purged, `deliver_request` |
| `Shutdown`, `Crash` | the destructor; a process dies (external) |

`stranded` is history: completed requests that the code loses sight of.  There are three ways: the
watcher's turn takes `PRB_wakeup` away before `deliverEvents` has seen it (1384); `deliver` stops after
a session was purged in its call-back (887-892); the process that posted dies before
`deliverEvents`.  Such a request waits for the next post that completes a request of its process.
Everything else is delivered (`CompletedIsDue`, `Delivered`).

## What is checked

All runs are listed in `PROJECT.json`.  Instances are small because each combination of calls is
a run of its own; the bounds are the numbers of blocks.  `MaxUse` bounds `own_count`, the only
counter that clients could drive up for ever; `MaxCrashes` bounds deaths in `Srq`; `MaxMonitor`
bounds how often the holder of a `SyncObject` locks it again.  In `Transactions` `MaxTra` bounds the
numbers, `MaxRetain`, `MaxWait` and `MaxCrash` the events of that name; in `NBackup` `MaxWrites` the
changes of pages and `MaxScn` the changes of the backup state; in `EventTable` all bounds count
blocks, posts of an event, or deaths.

| run | instance | shows |
|---|---|---|
| `grants` | 3 owners of one process, 1 lock, 3 requests, levels SR, PR, EX | `GrantedCompatible`, `PendingJustified`, `DeadlockStillScanned` |
| `table` | 2 owners in 2 processes, 2 requests, levels PR, PW, every call without waiting or with a timeout, ASTs, death | `CountersMatch`, `LiveLocksKept` |
| `owners` | 2 owners in 2 processes, EX, ASTs, cancellable waits, repost, shutdown, destructor | `TypeOK`, `AstOwnerPresent`, `NoLostWakeup`, `BlocksMatchFlags` |
| `asts` | 3 owners, 2 of them in one process, 3 requests, EX, ASTs | `SignalServed` |
| `deadlocks` | 2 owners in 2 processes, conversions between PR and EX, ASTs, under `FairSpec` | `DeadlocksBroken`, `BlockersTold` |
| `srq` | 2 queues, 3 entries, 2 deaths | `Recovered` |
| `walk` | all graphs of 3 requests, all stale marks (module `DeadlockWalk`) | `VictimDeadlocked`, `NothingMissed`, `WalkEnds` |
| `sync` | 3 threads, all calls, waits without limit, with a limit and none, one re-entry | `StateMatchesHolders`, `ReentryIsOwn`, `WaitersMatchQueue`, `NoneForgotten`, `GrantedAreWoken`, `ReadWrite` |
| `transactions` | 2 processes, 3 numbers on 2 inventory pages, snapshots and sweeps, one context kept, one wait, one death | `OldestActiveIsOldest`, `NeighboursAreCut`, `NeededVersionsStay`, `OnlyTheDeadAreDead`, `CacheSound`, `AssumedCommitted`, `FinalIsFinal` |
| `nbackup` | 2 processes with a thread each, one of them the master; 1 page, 3 changes, 4 states of the backup, one death | `ReadsLatest`, `NothingLost`, `KnownInside`, `DirtyOfThisScn`, `TableFresh`, `FrozenWhileStalled` |
| `events` | 2 processes, 1 event, 2 sessions, 2 requests, 3 counts, one death, under `FairSpec` | `CompletedIsDue`, `CountsKept`, `NotFreedInCallback`, `EventsMatchInterests`, `Delivered` |

Why these bounds are enough: compatibility is a relation between two requests, and a third one
brings in what is between them in the queue (a pending one ahead of a grantable one, a conversion
behind another).  Two processes are needed for remote delivery and for death, a third owner that
shares a process with the first for inline delivery that races with the blocking thread.  A cycle
of two is the shortest deadlock and a scan that starts outside the cycle needs a third request.
Three threads of a
`SyncObject` are one that gives the lock back, one that waits or gives up, and one that takes the fast
path meanwhile; what is checked of it is also proved for any number.  In `Srq` two queues are needed for a stale log entry of one to be taken for the other, and three
entries for a removal between two neighbours.  The theorems below do not depend on any bound.

In `transactions` three numbers are a snapshot, one that commits or dies while it is taken and one
that starts in between; two pages are what makes a copy take two steps,
and `NeighboursAreCut` then says the same as `SnapshotIsACut`.  The second number also cleans up
(`Cleanup` = 2), and the sweep may advance the oldest transaction.  Three pages would let a cache
have a gap, which is where `FinalIsFinal` fails (`v_gap`).  In `nbackup` four changes of the state are a
backup, its merge, and the start of the next one; one page is in either file; the second process comes with its own
dirty page, table and AST.  `merges` has two pages.  In `events` two sessions may be of one process or of two, and two
requests are one being delivered and one completed meanwhile.

The runs of the lock manager check deadlock: a state without a step would be a thread that never
gets out of the table, as clients can always start or end something else.  So does `sync`.  The walk ends, so its
run switches that off.

### Fairness
`FairSpec` has weak fairness of `Inside`, the steps of the thread that holds the mutex: it runs.
It has strong fairness of `Enter(t)`, the return into the table of a thread that waits in
`eventWait`, in an AST routine or in the sleep of `shutdownOwner`: `eventWait` is given a scan
interval (`wait_for_request`, 3868-3887), AST routines return, the sleep is short, and a mutex of
the operating system does not pass over one thread for ever.  Clients owe nothing: they need not
release what they hold, and processes need not die.  `TimedSpec` adds that a timeout expires; it
is used where that matters, in `v_granted` and in the further configuration `timeouts`.
`DeadlockWalk` is one thread at work: its `Spec` has weak fairness of the next step.
`EventTable` has weak fairness of what threads do once they have begun: a commit that posted
goes on to `deliverEvents`, the watcher wakes up when its event was posted, a call-back returns, and
`create_process` goes on probing.  Clients need not ask, cancel or post.  `Transactions` and
`NBackup` have no liveness properties: how long a transaction runs is up to its client, and the
state lock of a backup can in fact come to a standstill, see below.

`transactions`, `nbackup` and `events` switch the check of deadlock off.  The first and the last
stop when their bounds are used up.  In `NBackup` the code itself can stop: a blocking AST that was
delayed until its process has become master does not ask for the local lock, and
nobody repeats it; `stateBlocking` can be set after the last reader has looked at it (124).

No liveness is checked of `SyncObject`: a waiter is served when the holders give the lock back,
which is theirs to do.  The two ways in which the code itself could leave a thread behind for
ever are stated as invariants, `NoneForgotten` and `GrantedAreWoken`.  Readers queued behind a writer that
gave up are let in only when the lock is next given back; this is noted as a hazard.

### Disagreements between the code and what is said of it
One run states what a comment says of the program, and TLC finds a behaviour of the code
that does not agree; `PROJECT.json` ("findings") quotes the lines.

* `v_gap`: a commit that keeps its context enters the inventory page of its new number into the
  cache of its process without the pages between.  `extendCache` never fills the gap and answers
  "active" for the numbers in it, and `TRA_wait` then marks a committed transaction as dead.

Eight more were found with further configurations, whose properties are those of the comments:

* `v_nbak` (`FrozenWhileStalled`): two processes run BEGIN BACKUP at once.  Each is master while it flushes, the AST of a
  master does not wait for dirty pages, and the process that loses writes a page to the
  database file although the backup is stalled.  In `masters.cfg` both processes may do so too, without just the step in which the
  AST finds a page dirty or in use (`MastersQuiet`), and all properties of `nbackup` hold (2.4 million states).
* `v_down` (`PhysicalMatches`): `downgrade` returns a level that its conversion has not reached
  (lock.cpp:705-706, 752).
* `v_conv` (`ConversionsFollowGrants`): a grantable conversion stays pending behind another that waits
  for it; the walk assumes that conversions do not queue (lock.cpp:1974-1975), so the deadlock is not seen.
* `v_granted` (`DeadlocksBroken`): the mark `LRQ_just_granted` (lock_proto.h:206) outlives the request
  it was set for when that one times out; scans then stay uncertain, and an owner that waits for itself is never
  rejected.  `DeadlocksBroken` holds in `deadlocks`, where nothing times out.
* `v_dummy` (`Recovered`): a process that dies in an insertion under the dummy owner (`DUMMY_OWNER`)
  leaves a queue that the recovery does not repair (lock.cpp:2481-2482, 1220).
* `v_events` (`DeadAreDeleted`): a process that died in a call-back leaves `SES_delivering` set, and
  `delete_process` (event.cpp:737-741), which comes round as long as it is, never ends.
* `v_needed` (`NoNeededVersionCollected`): the oldest active number and the least lock data are read
  at two moments (tra.cpp:3279-3336), so an older transaction that publishes late has a snapshot
  limit above what a younger snapshot needs.  `NeededVersionsStay` leaves out the snapshots that were
  overtaken and shows that this is the only way.
* `v_cut` (`SnapshotIsACut`): "To get a consistent view of the transaction inventory ..., do handoffs to read
  the pages in order" (tra.cpp:547-550).  A hand-off holds two pages at a time.  While a snapshot copies
  the second of three, a number on the first commits and then one on the third, which is copied last: the snapshot
  sees the later commit without the earlier one.  `NeighboursAreCut` says what is left: it cannot
  happen unless there is a page between the two.  The instance of `v_cut` has no other violation of
  that kind: with `NeighboursAreCut` in the place of `SnapshotIsACut` it passes.

Three disagreements are no properties of a run:

* `set_diff_page` takes the read lock of the backup state a second time, "Since RWLock allows it"
  (cch.cpp:1731; nbak.h: "this lock must prefer readers to writers !"), but `rwlock.h` asks for
  `PTHREAD_RWLOCK_PREFER_WRITER_NONRECURSIVE_NP`: with a `StateWriteGuard` waiting, thread and
  guard wait for each other.  `super` reaches this deadlock, `readers`, the same instance with a
  lock that prefers readers, does not.
* A number in front of a gap that reaches to the newest page stops the engine (`inventory_page`,
  BUGCHECK 165); `Readable` is the guard.
* `TRA_cleanup` (tra.cpp:250) looks at the number behind a page when the last number is the last of the page.

### Further configurations
These are kept beside the runs, for questions that were asked once:

* `snapshots`: four numbers on two pages, snapshots and read-committed transactions in one process; `SnapshotIsACut`
  holds there.
* The type invariant of `Transactions` is checked by `snapshots`, that of `NBackup` by `merges`,
  `super` and `readers`; those of `Srq` and `EventTable` hold in the runs `srq` and `events` too.
* `merges`: `nbackup` with two pages and no death.
* `timeouts`: `TimeoutsReturn`, a call with a timeout returns (2 owners, EX, `TimedSpec`).  It holds.
* `v_scan`: `DeadlockStillScanned` with an owner used by several threads (`Shared`): the mark of a
  finished scan is put on the owner, although it is about one request.
* `v_walk`: `DeadlockStillScanned` with requests for `LCK_null`, which the lock manager offers and the engine never
  makes.  Such a request is granted past those that wait, and its conversion is then treated by
  `deadlock_walk` (lock.cpp:1950) like a new request, which nobody behind it can block: one owner
  behind it with EX, waiting for the other in a second lock, and both threads wait for ever,
  marked as scanned.
* `v_stale`, `v_dead`: `SignalsKnownOwners` and `LiveLocksKept` with three owners, one process
  with two of them, and death: `post_blockage` uses offsets of owners and processes after
  it gave up the table for an AST routine.
* `v_single`: `SingleDelivery`: `blocking_action` is in fact run by several threads.
* `v_prior`, `v_init`, `v_undone`: three more positions in which the death of a process leaves
  queues that the recovery does not repair.  `srq` excludes exactly these and that of `v_dummy` (`Harmless`,
  `Mortal`, `PurgeUndone`) and shows that everything else is repaired.

`LiveLocksKept` thus holds in `table` and fails in `v_dead`: the difference is a second lock and a
third owner that lets a process signal inline while another's block is reused.

## What is proved

TLAPS checks the theorems of eight modules; each holds for all values of the constants that satisfy
the named assumption of the module.

**`LockManagerProofs`** (from `ConstantsAssumption`)

* `TypeCorrect`: `Spec => []TypeOK`.  `TypeOK` is not inductive: `own_count` could go below zero
  and a thread could come back with a call it does not have.  The invariant `TableInv` adds
  `ThreadInv` (a thread that is inside or has given the table up has a call that fits its
  position), `UseInv` (owners in the table have a process, and their use count covers those who
  use them), `QueueInv` (a queue holds exactly the requests for its lock, each once) and
  `BlockInv` (the blocking queue of an owner holds requests of that owner).  One lemma per part
  has one step per action.
* `GrantsCompatible`: `Spec => []GrantedCompatible`.  Grants are decided from `lbl_state` and
  `lbl_counts`, so the invariant `GrantInv` adds that these agree with the requests: the counts
  always (`CountsRight`), the state too, except for a lock that `enqueue` has just
  set up (`SetUp`), and a request that is on its way to a grant is not yet granted (`NewInv`).
  `CompatibleWithOthers` is the core: a level compatible with the strongest level that others hold is
  compatible with all they hold, which rests on the order of the levels and on
  `LockState`; `GrantKeeps` and `ReleaseKeeps` carry it through the two helpers that change
  counters, and `SameKeeps` through all actions that do not.
* `BlockingQueues`: `Spec => []BlocksMatchFlags`.  `DueInv` is one half of it, `BlockInv` the other.
  That a block which is reused has left no queue entry behind needs `OwnerInv`: requests have owners in the table, owners
  a process in it, and what `create_owner` and `enqueue` are about to set up is not there yet.
* `CountersRight`: `Spec => []CountersMatch`.  To the state and the counts of `GrantInv` it adds `PendInv`: the pending
  count of each lock (`PendingRight`), and that a thread on its way to a grant, a conversion or the undoing of one has
  no pending request, so that nothing is counted twice when a wait times out, or rejected twice.
* `SignalsServed`: `Spec => []SignalServed`.  `ServeInv` says who may serve an owner: a thread of the same live
  process, inside the table or in an AST routine.  `SignalStep` treats the three ways of `signal_owner`
  (run the routine here, post to the process, fail) apart.
* `AstOwnersStay`, `LiveLocksStay`, `WakeupsArrive`: `AstOwnerPresent`, `LiveLocksKept` (an action property) and
  `NoLostWakeup` hold in every behaviour with `[][NoTakeover]_vars`.  `NoTakeover` is a condition on the one step that does
  harm: no process starts in the place of one that a thread in `post_blockage` could not signal, as long as that thread has still to
  purge it.  The code cannot keep it, since `post_blockage` gives the table up between the two (`signal_owner` runs AST
  routines), and `v_dead` shows a live process losing its locks this way.  All else that purges is proved to be right: from
  `NoTakeover` follows `NoneMistaken` (no process which runs is being purged) by the invariant `NotedDead`, through purges by
  `create_process`, by `probe_processes` before a scan and after a timeout, by `post_blockage` and by `shutdownOwner`, with
  processes that die and come back in between (`OnlyTheDead`).  That the locks of the living survive then is still to be proved for
  grants, conversions, downgrades, timeouts and deadlock scans (`LiveLockStep`).  `NoPlaceTaken` shows that the
  condition is a fact where nobody dies (no `"die"` in `Ops`), so there the three hold outright.  The invariants: `AstInv`
  (the threads in AST routines of an owner are finitely many and counted by `own_ast_count`, and an owner that is being purged has
  none unless its process died), `WaitInv` (`own_waits` covers the threads between their call and their return; two
  threads never wait for one owner that is not shared).  `NoLostWakeup` itself speaks only of sleepers: `WakeStep`
  shows that whoever grants or rejects posts the event in the same step.

`LockManagerProofs` begins with the facts about sequences without repetition that it and `LockWaitProofs` need: what `RemoveFirst`
and `Append` leave of the elements, and what the move of an element to the end (`ToEnd`, as in
`wait_for_request`) leaves of their order (`MovedToEnd`, and `RemovedAhead`, `AppendAhead`, `MovedAhead` for who stands before whom).
`SyncObjectProofs` and `SrqProofs` begin with those of them that they need.

**`LockWaitProofs`** (the same assumption, on top of `LockManagerProofs`)

* `GrantsRemembered`: `Spec => []PendingJustified`.  `JustInv` is the invariant: every lock but the one whose `post_pending` is
  still to run is `Justified`, which also says what may stand in for a holder: a rejected request that is `Leaving`, as
  its thread has yet to return from `wait_for_request` or its process died and is yet to be purged (`LeavingStep`).  `PostInv`
  says that `post_pending` is run before the table is left, and that a request about to wait has a rival that blocks it, or,
  if it is new, one that waits before it.  `HeldUpByOther` is the converse of
  `CompatibleWithOthers`: who is not granted is blocked by another and not only by itself.
* `DeadlocksStayScanned`: `Spec /\ []OneThreadEach => []DeadlockStillScanned`, for `LCK_null \notin Levels`.  The invariant
  `ScanInv` says it of each set of waiting requests that hold up one another (`Near`): the owner of one of them is not marked.
  A deadlock closes with the last request that starts to wait, and `wait_for_request` takes the mark off its owner
  (`WaitedStep`); nothing that happens to others closes one (`HeldBefore`), as who is granted something while its owner waits
  would be a second thread (`OneWaiter`), and what `downgrade` chooses blocks nobody who was not blocked before (`DowngradeFrees`, `Lowers`).
  So the step to fear is the mark itself, and `MarkSound` shows that it is not set on the last owner of a deadlock: a scan
  that left out nobody has pursued the whole of it (`Certain`), finitely many requests each of which waits for another have
  a circle (`Circle`), and that would have been a victim.
  It rests on two facts about `deadlock_walk`.  A new request looks only at those before it, which is enough as
  those behind hold nothing (`Ordered`, the lock ordering of `grant_or_que`).  And the walk compares with the greater of the levels that
  a request holds and asks for, which is not the more demanding one for a conversion from `LCK_PR` to `LCK_SW`: a new request for
  `LCK_SW` does not see that it is held up by it (`OneException`, `Overlooked`).  No deadlock is lost, as the rival of that conversion holds
  `LCK_PR` too: either the new request sees the rival, or it converts likewise and the two deadlock by themselves (`Mutual`).
  `Claim` and `Asked` say which calls can wait and when a request holds less than it asked for.
* The conditions: `OneThreadEach` (of the calls of one owner all but one give something back) fails for owners that threads
  share, and `v_scan` shows the property fail with it; with `LCK_null` it fails in `v_walk`.  `DeadlocksScannedAlone` shows that
  the first is a fact where no owner is shared and all calls may wait, as in the run `grants`, so there `DeadlockStillScanned` holds outright.

**`DeadlockWalkProofs`** (from `WalkAssumption`)

* `VictimsAreDeadlocked` and `NoDeadlockIsMissed`: the walk is correct on every graph, whatever
  marks earlier scans left.  The invariant `WalkInv` says that the active calls form a path in the graph
  without repetition, marked `LRQ_deadlock`; that what is not in `todo` is scanned or on the path;
  and that no deadlock lies within the scanned requests.

**`SrqProofs`** (from `SrqAssumption`)

* `RecoveredStays`: `Spec => []Recovered`, for any number of queues, entries and deaths, where deaths are as in the run `srq`: for an owner
  (`Mortal`), not before the steps `clear_prior`, `undo_prior` and `init_node` (`CrashAt`), and without a purge of entries that were
  not inserted (`PurgeUndone`).  `v_dummy`, `v_prior`, `v_init` and `v_undone` show that none of these conditions can be dropped.
  The invariant `SrqInv` has, besides `TypeOK`:
  `Once` (no entry is in two places); `MarkedGaps`, which is the meaning of the secondary header: all neighbours are linked in both
  directions, but for the end of the queue that an insertion is marked for, with the old last entry in `shb_insert_prior`, or the place
  that the entry in `shb_remove_node` left, whose own links lead to the two sides of the gap; `Marks`
  (which marks are set at which step, and after a death); `Progress` (which stores a routine has done); `Lost` (an entry that a death took out
  of use is in no queue, and linked to itself if it is to be removed once more).  What a store does to rings of any length is in the lemmas about
  `AllBut`: it disturbs nothing if it is to a link of the gap (`StoreForward`, `StoreBackward`) or of an entry outside (`StoreOut`).  An insertion
  takes effect when its mark is reset (`AppendJoined`), a removal when its mark is set (`RemoveJoined`).

**`SyncObjectProofs`** (from `SyncAssumption`: the threads are finitely many)

Everything that `sync` checks, for any number of threads.  The invariant `SyncInv` has, besides
`TypeOK`, a part for each shared word:

* `MutexInv` and `ModeInv`: who is in the mutex is alone there, and each position of a thread
  fits what it wants or holds.
* `QueueInv`: the queue holds exactly those who wait and have not been granted the lock, each
  once; while `grantLocks` serves a writer, it is at the head.
* `CountInv`: the halves of `waiters` count the queue and the thread about to join it, less the
  readers that `grantLocks` has already taken off and the writer it has crowned.
* `StateInv`: `lockState` is -1 with one exclusive holder, or one that `grantLocks` is about to
  tell, and the number of readers, told or yet to be told, otherwise.
* `OwnerInv`: `exclusiveThread` names a thread that holds the lock exclusively and does nothing
  with it, or has been or is being granted it.

`TypeOK` alone is not inductive: that `waiters` and `cntWake` stay natural numbers is
what `CountInv` says, and that `exclusiveThread` is not the thread that starts a call
is `OwnerInv`.  `HeldStep` classifies all steps by what they do to `Held`, `lockState` and the grants
under way (`Takes`, `Leaves`, `Lowers`, `AdmitsReaders`, `GrantsReader`, ...); from it follow both
`StateInv` and the refinement.

* `Refinement`: `Spec => ReadWrite`, SyncObject implements `ReadWriteLock`; `HoldersExclude`:
  whoever holds it exclusively holds it alone.
* `StateMatches`, `Reentry`, `CountMatches`, `TypeCorrect`: from the parts of `SyncInv`.
* `NobodyForgotten`: `Spec => []NoneForgotten`.  A free lock with a queue has positive
  `waiters` (`FreeIsCounted`), so neither the test of `waiters` nor `grantLocks` turns away, and a
  thread joins the queue only when it saw the lock taken.
* `NobodyAsleep`: `Spec => []GrantedAreWoken`, with `WakeInv`: one grant at a time is between
  `lockGranted` and its wake-up.

**`EventTableProofs`** (from `EventTableAssumption`: the bounds are natural numbers)

* `NoSessionFreedInCallback`: `Spec => []NotFreedInCallback`.  `ProcInv` adds that only a living
  process has a watcher and that whoever is being probed is dead; so neither `deleteSession`, which
  leaves a delivering session alone, nor `delete_process` can take the session of a call-back.
* `EventsAreThoseOfInterest` and `NoPostForgotten`: `Spec => []EventsMatchInterests` and
  `Spec => []CountsKept`.  `Remembered` is the link between them: an open session has a request for
  every event its client was told of, or a historical interest in it.  With it the event has a
  block, so its count is not lost, and `Deleted` leaves the block alone while somebody else is
  interested.  `DeletedTable` and `DroppedTable` prove this once for all callers
  of `delete_session` and `delete_request`.
* `NoDeliveryForgotten`: `Spec => []CompletedIsDue`, from `DueInv`, which adds to the property that a request
  that is not used has no events, that an open session belongs to a process that lives or is not yet probed
  (so one that comes finds no sessions of its block's predecessor), that `PRB_pending` is set with the event
  posted, and that a watcher does not start while somebody is left to be probed.  `Same` and `SameDue` carry a request that
  a step leaves as it is; `DeletedDue`, `DroppedDue` and `ScanDue` say what deletions, cancels and deliveries leave.
* `TypeCorrect`.  `FirstIs` is the lemma about `First`, from the well-foundedness of the numbers.

**`NBackupProofs`** (from `NBackupAssumption`: names differ, the bounds are natural numbers)

Everything that `nbackup` checks, for any processes, threads and pages and any number of backups, merges
and crashes, in every behaviour with `[][MastersQuiet]_vars`.  `MastersQuiet` is a condition on one step of the
blocking AST: in a process that is beginning or ending a backup (a master) it gives the state lock up without a
flush and without the local lock (nbak.cpp:104, 114), and the condition is that, when another process wants the lock in
order to change the state too, no page is dirty or in use in the first.  The code does not see to that: in a Classic server two
processes may run BEGIN BACKUP at once, and `FrozenWhileStalled` fails (`v_nbak`).  Nothing else is asked for:

* any processes may begin and end backups, also at the same time, lose the lock to one another and crash in it; the configuration
  `masters.cfg` checks all properties of `nbackup` that way, with a master in each of two processes;
* `TurnsQuiet`: the condition is a fact where processes, whichever they are, begin and end backups in turn, each when the other is done
  (`InTurn`).  `MasterWorks` (a master has a thread in a backup) is the invariant; `BackupsInTurn` puts it
  together with the properties;
* `OneQuiet`: so it is where one process does it all (`OneBackupProcess`), as in the SuperServer and in the run `nbackup`.

No property is inductive alone, and `IInv` has a part for each thing that is shared:

* `ThreadInv`, `PageInv`, `LocalInv`: a thread fits its operation; a page is fetched by whom
  `busy` names; the readers and the writer of the local lock exclude one another.
* `GlobalInv`: the write lock of the lock manager excludes all others, whoever waits has given his level up, and
  a writer is somebody at `locked`.  `StateInv`: a process knows the state exactly
  while it has the global lock and nobody waits for it, and then it is that of the header page.
* `TableInv`: the allocation table of a process that has missed one change of state still fits
  (`TableFits`): the SCN counts the changes, and `missed_cycle` throws the table away after two.
* `DirtyInv`, `DiskInv`: a dirty page has the last change and the SCN of the header page, and
  is in the difference file where the state demands it; what is not dirty is the last version in the file in which
  the state makes one look for it.
* `MergeInv`: while the database file is made complete, each page of the difference file is
  in the database file, dirty, or still to come in the list of the merge.
* `HeldInv`, `NamedInv`: what a thread has read of a page is its last version, until it marks it.

`Inductive` is `Spec => []IInv`: per part a lemma with a step for each action, over lemmas that say once
what an action does (`...Effect`) and what keeps a part (`...Kept`, `...Moves`).  `StateKnown`, `DirtyScn`,
`TablesFresh`, `DiskComplete` and `LatestRead` follow from it, and `FileFrozen` is an action property: a
page that is dirty while the state is stalled is in the difference file, so `Write` puts it there.

**`TransactionsProofs`** (from `TransactionsAssumption`: the processes are finitely many, a page holds
at least one number, the bounds are natural numbers)

* `OwnInvariant`: `Spec => []OwnInv`, what a transaction can be sure of by itself.  `FitInv`: each place
  in the code fits the kind of the transaction and its numbers.  `NumberInv`: a number is given once and
  is active, without a lock, until then.  `LockInv`: a transaction holds the locks of its numbers, with
  data other than 0, so nobody who tests for the lock takes it for dead.  `ActiveInv`: its numbers are
  active until it ends.  `OldestInv`, `CacheInv` and `LoadInv` are about pages: a cache that was filled reaches
  beyond the oldest transaction of its process and, from the end of the copy on, beyond the
  transaction that looks into it.  Without them `inventory_page` could not be asked, and a trim could
  leave the cache without a page.
* `ActiveStays`: `Spec => []OnlyTheDeadAreDead`, without any hypothesis.  It is not inductive alone: who may be taken for
  dead is decided by a lock that is not held, long before the state is set.

The second part is about what others know of a transaction, for any processes, numbers and size of a page.  The
hypothesis of its theorems is `[]NoGap`: no cache misses a page between two it has.  It is what
the code takes for granted; `v_gap` shows that `RetainState` can break it and that `FinalIsFinal` then fails.
An inventory of at most two pages cannot have a gap (`TwoPages`), so for it, as in the run `transactions`,
`TwoPagesSuffice` states the properties without the hypothesis.

`TrueInv` says that what is remembered is true; "done" is committed, or dead and swept:

* `PagesInv`: a page is cached as a whole (`Whole`), the states in it were true
  (`Sound`, final states never change), and what is below the first page of a cache is done (`FrontDone`), as
  `TRA_snapshot_state` and the others answer "committed" there.
* `BoundsInv`: below every oldest transaction, of the header page and of the processes, all are done, below
  every oldest active one all have ended.  `SweptInv`: only the dead are swept.
* `KnowsInv`: the same of the local variables of `transaction_start` and `TRA_sweep`.  `KnowsOf` is about the snapshot
  and the limits it computes: the loop over active numbers has passed only what is final.
  `ReadsOf` is about a copy or a sweep under way: pages that were read are done or cached, the dead that are to be swept are dead.

`TrueInvariant` is `Spec /\ []NoGap => []TrueInv`; `FindPasses`, `NextPasses` and `InterestingPasses` are the lemmas about the
searches in a cache (`findStates`, which answers for numbers in front of it and behind it), `UpdatedStep`,
`TrimStep` and `LearntStep` about what changes a cache, and one lemma per action ends in `...True`.  From it
follow `FinalStays` (an action property), `CacheIsTrue`, `AssumedAreDone` and `OldestIsActive`.

The third part is about the order of commits.  `CommitStep` says what a step may do to it: a state changes only on
a page nobody holds, and what is added to `commits` was active.  `CutInv` says of a snapshot that is being
taken: on the page it holds, it shows what is there; of the pages it has read, it shows the earlier of two commits
on neighbouring pages if it shows the later one.  A commit that comes later is not shown, as no snapshot
shows what is active (`ActiveUnseen`, from `TrueInv`).  When a page is added (`CopyCut`), the later commit may be on it and the
earlier one on the page before, which is why that page must still be held.

* `SnapshotsCut`: `Spec /\ []NoGap => []NeighboursAreCut`, for any number of pages.
* `TwoPagesCut`: where the inventory fits on two pages, `Spec => []SnapshotIsACut`.  The condition cannot go: `v_cut`.

The fourth part is about garbage collection.  A limit is safe for a snapshot if it sees what has committed below it
(`Safe`), and a safe limit stays so (`Stable`), as no step takes away what a snapshot saw: not the wait for a transaction found dead
(`WaitStable`), not the change of its own number (`RetainEndStable`, which needs `RetainOf`: the old number is among its own
commits).  `NeedInv` has three parts.

* `NeedOf`: the data of the locks of a snapshot is safe for itself (`HeldOf`), and so is what the loop over active
  numbers has come to and will put there (`LimitOf`); what it has as dead is dead (`DeadOf`, without which the loop
  would pass over a commit).
* `Kept`: the limits of the header page and of the processes are safe for every snapshot that was not overtaken.
* `FoundOf`: what a transaction has found on its way to `Publish` is safe for every snapshot that is not younger (`Under`).
  `ScanFound` and `QueryFound` show it for the three ways to a limit: no older number is active, so no other
  snapshot is older (`OldestUnder`); the limit is the one the header page has; or it is not above the least lock data, and every
  snapshot has a lock from its first step on.

A snapshot that begins while the limit is on its way is younger (`Begins`), which is exactly whom `Publish` overtakes: so
the invariant shows that `overtaken` is the only exception that is needed.

* `NeededStays`: `Spec /\ []NoGap => []NeededVersionsStay`; `TwoPagesNeeded`: the same without a condition where the inventory
  fits on two pages.

Only model-checked: all liveness properties (`DeadlocksBroken`, `BlockersTold`, `WalkEnds`, and `Delivered` of
`EventTable`), as the prover has neither fairness with `ENABLED` nor induction over data.
Every other property of a passing run, invariant or action property, is stated by a theorem.

## What is left out

* Allocation never fails, and the table is neither extended nor remapped, so blocks
  have names and no addresses.  Counters do not wrap around (`lbl_counts` is a USHORT).
* A process dies inside the table only in `Srq`; in `LockManager` death comes while the mutex is
  free, as a thread that finds the table abandoned repairs the queues before anything else.
* The set `blocking_owners` of `post_blockage` has no duplicates and no order; the code adds an
  owner once per request and skips it the second time because it is signalled.
* An event that wakes a thread without reason is a stuttering step.
* A process block stands for its process: a new process takes over the block of a dead one.
* At most one thread per owner reposts, and at most one shuts the owner down.
* Of `SyncObject`: the assertions and reasons of debug builds, the error of a thread that queues
  twice (a thread is in one call at a time), `validate`, and `grantThread`, which nothing calls.
  A thread downgrades or unlocks only what it holds.  The halves of `waiters` do not
  overflow 16 bits.
* Lock data, statistics, history blocks, tracing, validation code and the hash of keys are left
  out; `SRQ_INIT` is one step.
* Of transactions: limbo and two-phase commit, precommitted transactions, savepoints and the undo of
  a rollback (which ends as a commit or as dead), read-only databases, the numbers a process reserves
  for read-only transactions, `tra_att_oldest_active`, `SUPERSERVER_V2`.  Record versions are not
  there: what may be collected is stated of the numbers below a limit, and a sweep removes the versions of
  all numbers that were dead when it began.  `SnapshotIsACut` and `NeighboursAreCut` leave out the snapshots that clean
  up, which adjust what they copied.
* Of backup: the lock of the allocation table (a look at it or an allocation is one action), shadows, I/O
  errors, encryption, the SCN page apart from its read lock, changes of the header page by others,
  and the counter of read locks of an attachment.
* Of events: the allocation of blocks and the growth of the table, the text and the lengths of
  events, the failure to start the watcher.
* Not modelled at all, for now: the components listed as such in `PROJECT.json`, each with its reason.
