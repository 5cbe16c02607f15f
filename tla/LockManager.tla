---------------------------- MODULE LockManager ----------------------------
(* The lock table of lock/lock.cpp: owners (attachments and databases) in    *)
(* several processes enqueue, convert, downgrade and release lock requests,  *)
(* wait for one another, are told by a blocking AST that they block someone, *)
(* are chosen as deadlock victims, die and are purged.                       *)
(*                                                                           *)
(* All of it happens under one mutex in shared memory.  An action is a piece *)
(* of code executed while the mutex is held; "holder" is the thread holding  *)
(* it and "next" what that thread does next.  The mutex is given up in       *)
(* exactly the places where the code does: at the end of a call, in          *)
(* eventWait, around the AST routine and in the sleep of shutdownOwner.      *)
EXTENDS LockTypes, SequencesExt

CONSTANTS
  Owners,        \* owner blocks
  Processes,     \* processes attached to the lock table
  Home,          \* Home[o]: the process an owner belongs to (its id holds the pid)
  Locks,         \* lock keys
  Requests,      \* request blocks of the lock table
  Levels,        \* the levels clients ask for
  Waits,         \* the kinds of waiting clients ask for
  Shared,        \* owners that are used by several threads at once
  Asts,          \* do requests come with an AST routine? (subset of BOOLEAN)
  Ops,           \* the operations that clients use, and "die" if processes may die
  MaxUse,        \* bound on own_count
  NoThread, NoOwner, NoLock

\* "wait" and "cancel" are LCK_WAIT, without and with a caller that lets the
\* wait be cancelled; "timeout" is a negative lck_wait.
WaitKinds == {"nowait", "wait", "cancel", "timeout"}

Operations == {"enqueue", "prior", "convert", "downgrade", "dequeue", "repost", "cancel",
               "again", "shutdown", "destroy", "die"}

ASSUME ConstantsAssumption ==
  /\ Home \in [Owners -> Processes]
  /\ Levels \subseteq LCK_null .. LCK_EX
  /\ Waits \subseteq WaitKinds
  /\ Shared \subseteq Owners
  /\ Asts \subseteq BOOLEAN
  /\ Ops \subseteq Operations
  /\ MaxUse \in Nat \ {0}
  /\ IsFiniteSet(Requests)
  /\ Owners \cap Processes = {} /\ Owners \cap Requests = {}
  /\ Processes \cap Requests = {}
  /\ NoThread \notin Owners \cup Processes \cup Requests
  /\ NoOwner \notin Owners
  /\ NoLock \notin Locks

VARIABLES
  \* request blocks (lrq)
  lrq_type,      \* "null": on the free list, "lrq": a request, "repost"
  lrq_owner, lrq_lock, lrq_state, lrq_requested,
  lrq_flags,     \* set of LrqFlags
  lrq_ast,       \* is there an AST routine?
  \* lock blocks (lbl)
  lbl_requests,  \* queue of requests, in order of arrival
  lbl_state, lbl_counts, lbl_pending_lrq_count,
  \* owner blocks (own)
  lhb_owners,    \* the owners that are in the table
  own_count, own_flags, own_waits, own_ast_count,
  own_blocks,    \* requests whose AST is to be delivered to the owner
  \* process blocks (prc)
  lhb_processes, \* the processes that are in the table
  running,       \* the processes that are alive and have a block in the table
  prc_blocking,  \* is the blocking event of the process posted?
  \* the thread inside the lock table
  holder,        \* which thread holds the mutex
  next,          \* what it goes on with
  posting,       \* the lock its post_pending loop is working on
  purge,         \* the owners and processes it has still to purge
  \* threads between two visits to the lock table
  call,          \* call[r]: the call that works on request r
  thread,        \* what a thread keeps while an AST routine runs
  lck_physical   \* the level that lck.cpp believes a request to have

lrqVars == <<lrq_type, lrq_owner, lrq_lock, lrq_state, lrq_requested, lrq_flags, lrq_ast>>
lblVars == <<lbl_requests, lbl_state, lbl_counts, lbl_pending_lrq_count>>
ownVars == <<lhb_owners, own_count, own_flags, own_waits, own_ast_count, own_blocks>>
prcVars == <<lhb_processes, running, prc_blocking>>
tableVars == <<holder, next, posting, purge>>
threadVars == <<call, thread, lck_physical>>
vars == <<lrqVars, lblVars, ownVars, prcVars, tableVars, threadVars>>

LrqFlags == {"blocking", "pending", "rejected", "blocking_seen", "just_granted",
             "wait_timeout"}
OwnFlags == {"scanned", "wakeup", "signaled"}
Threads == Requests \cup Owners \cup Processes

NoCall == [op |-> "none"]
Calls == [op : {"enqueue", "convert", "downgrade", "dequeue"}, owner : Owners, lock : Locks,
          level : LckLevels, wait : WaitKinds, ast : BOOLEAN]

\* serving: the owner whose blocking_action the thread runs; rest: the
\* blocking_owners of post_blockage not yet signalled; dead: dead_processes.
Idle == [pc |-> "idle", serving |-> NoOwner, rest |-> {}, dead |-> {}]
Contexts == [pc : {"idle", "sleep", "ast"}, serving : Owners \cup {NoOwner},
             rest : SUBSET Owners, dead : SUBSET Processes]

Labels == {"done", "insert", "grant", "grant_or_que", "release", "convert", "undo", "wait",
           "blockage", "signal", "loop", "awake", "scan", "exit", "create", "poll"}

ZeroCounts == [s \in LckLevels |-> 0]

Init ==
  /\ lrq_type = [r \in Requests |-> "null"]
  /\ lrq_owner = [r \in Requests |-> NoOwner]
  /\ lrq_lock = [r \in Requests |-> NoLock]
  /\ lrq_state = [r \in Requests |-> LCK_none]
  /\ lrq_requested = [r \in Requests |-> LCK_none]
  /\ lrq_flags = [r \in Requests |-> {}]
  /\ lrq_ast = [r \in Requests |-> FALSE]
  /\ lbl_requests = [l \in Locks |-> <<>>]
  /\ lbl_state = [l \in Locks |-> LCK_none]
  /\ lbl_counts = [l \in Locks |-> ZeroCounts]
  /\ lbl_pending_lrq_count = [l \in Locks |-> 0]
  /\ lhb_owners = {}
  /\ own_count = [o \in Owners |-> 0]
  /\ own_flags = [o \in Owners |-> {}]
  /\ own_waits = [o \in Owners |-> 0]
  /\ own_ast_count = [o \in Owners |-> 0]
  /\ own_blocks = [o \in Owners |-> {}]
  /\ lhb_processes = {}
  /\ running = {}
  /\ prc_blocking = [p \in Processes |-> FALSE]
  /\ holder = NoThread
  /\ next = "done"
  /\ posting = NoLock
  /\ purge = {}
  /\ call = [r \in Requests |-> NoCall]
  /\ thread = [t \in Threads |-> Idle]
  /\ lck_physical = [r \in Requests |-> LCK_none]
-----------------------------------------------------------------------------
(* The mutex of the lock table.                                              *)

\* The thread t may go on with step s: it holds the mutex and no loop of
\* post_pending, purge_process or blocking_action is under way.
At(t, s) ==
  /\ holder = t
  /\ next = s
  /\ posting = NoLock
  /\ purge = {}
  /\ thread[t].serving = NoOwner

\* acquire_shmem: thread t enters the lock table and starts with step s.
acquire_shmem(t, s) ==
  /\ holder = NoThread
  /\ holder' = t
  /\ next' = s

Goto(s) == next' = s /\ UNCHANGED <<holder, posting, purge>>

\* release_shmem: the call is over.
release_shmem(t) ==
  /\ At(t, "done")
  /\ holder' = NoThread
  /\ UNCHANGED <<lrqVars, lblVars, ownVars, prcVars, next, posting, purge, threadVars>>

\* The process that executes thread t.
ProcessOf(t) == IF t \in Processes THEN t
                ELSE IF t \in Owners THEN Home[t] ELSE Home[call[t].owner]

\* Mutant: the answer of ISC_check_process_existence is taken the wrong way round.
DeadProcesses_inverted == lhb_processes \cap running

\* The processes that probe_processes finds dead.
DeadProcesses == lhb_processes \ running

\* own_requests and own_pending of owner o.
own_requests(o) == {r \in Requests : lrq_type[r] = "lrq" /\ lrq_owner[r] = o}
own_pending(o) == {r \in own_requests(o) : "pending" \in lrq_flags[r]}

\* Mutant: own_count is not looked at.
Usable_uncounted(o) == o \in lhb_owners /\ Home[o] \in running

\* The owner is initialised and its process runs.
Usable(o) == o \in lhb_owners /\ own_count[o] > 0 /\ Home[o] \in running

\* Mutant: an off-by-one in the test of own_waits.
post_wakeup_late(o) == IF own_waits[o] > 1 THEN own_flags[o] \cup {"wakeup"} ELSE own_flags[o]

\* post_wakeup: the flags of the owner after it.
post_wakeup(o) == IF own_waits[o] > 0 THEN own_flags[o] \cup {"wakeup"} ELSE own_flags[o]
-----------------------------------------------------------------------------
(* Granting and post_pending.                                                *)

\* grant: request r gets the level it asks for; counts are the counts of its
\* lock from which its former level has already been taken out.
grant(r, counts) ==
  LET l == lrq_lock[r]
      new == [counts EXCEPT ![lrq_requested[r]] = @ + 1]
  IN /\ lbl_counts' = [lbl_counts EXCEPT ![l] = new]
     /\ lbl_state' = [lbl_state EXCEPT ![l] = lock_state(new)]
     /\ lrq_state' = [lrq_state EXCEPT ![r] = lrq_requested[r]]
     /\ lrq_flags' = [lrq_flags EXCEPT ![r] = @ \ {"pending"}]
     /\ lbl_pending_lrq_count' =
          [lbl_pending_lrq_count EXCEPT ![l] = IF "pending" \in lrq_flags[r] THEN @ - 1 ELSE @]
     /\ own_flags' = [own_flags EXCEPT ![lrq_owner[r]] = post_wakeup(lrq_owner[r])]
     /\ UNCHANGED <<lrq_type, lrq_owner, lrq_lock, lrq_requested, lbl_requests, lhb_owners,
                    own_count, own_waits, own_ast_count, own_blocks, prcVars>>

\* Mutant: the count is reset instead of decremented.
CountsWithout_reset(r) == [lbl_counts[lrq_lock[r]] EXCEPT ![lrq_state[r]] = 0]

\* Mutant: the count is not decremented.
CountsWithout_kept(r) == lbl_counts[lrq_lock[r]]

\* The counts of r's lock without the level r holds (LCK_none is not counted
\* as a level that could block, whatever lbl_counts says of it).
CountsWithout(r) == [lbl_counts[lrq_lock[r]] EXCEPT ![lrq_state[r]] = @ - 1]

\* r is the first pending request in the queue of lock l.
FirstPending(l, r) ==
  \E i \in DOMAIN lbl_requests[l] :
    /\ lbl_requests[l][i] = r
    /\ "pending" \in lrq_flags[r]
    /\ \A j \in 1 .. i - 1 : "pending" \notin lrq_flags[lbl_requests[l][j]]

\* Mutant: a conversion is held up by the level it holds itself.
Grantable_itself(r) == compatibility(lrq_requested[r], lbl_state[lrq_lock[r]])

\* What post_pending asks of the first pending request: it is compatible with
\* the rest of the lock (a conversion) or with the lock (a new request).
Grantable(r) ==
  compatibility(lrq_requested[r],
                IF lrq_state[r] # LCK_none THEN lock_state(CountsWithout(r))
                                           ELSE lbl_state[lrq_lock[r]])

\* post_pending, one turn of its first loop that grants.
PostPendingGrant(r) ==
  /\ posting \in Locks
  /\ FirstPending(posting, r)
  /\ Grantable(r)
  /\ grant(r, IF lrq_state[r] # LCK_none THEN CountsWithout(r) ELSE lbl_counts[lrq_lock[r]])
  /\ UNCHANGED <<lrq_ast, tableVars, threadVars>>

\* post_pending, the rest: the loop stops at the first pending request that
\* cannot be granted and wakes its owner up; the requests before it that were
\* not yet told that they block it are marked.
PostPendingEnd ==
  /\ posting \in Locks
  /\ \A r \in Requests : FirstPending(posting, r) => ~Grantable(r)
  /\ own_flags' = [o \in Owners |->
       IF \E r \in Requests : FirstPending(posting, r) /\ lrq_owner[r] = o
       THEN post_wakeup(o) ELSE own_flags[o]]
  /\ lrq_flags' = [r \in Requests |->
       IF /\ \E i \in DOMAIN lbl_requests[posting], j \in DOMAIN lbl_requests[posting] :
                /\ i < j
                /\ lbl_requests[posting][i] = r
                /\ FirstPending(posting, lbl_requests[posting][j])
          /\ lrq_flags[r] \cap {"blocking", "blocking_seen"} = {}
          /\ lrq_ast[r]
       THEN lrq_flags[r] \cup {"just_granted"} ELSE lrq_flags[r]]
  /\ posting' = NoLock
  /\ UNCHANGED <<lrq_type, lrq_owner, lrq_lock, lrq_state, lrq_requested, lrq_ast, lblVars,
                 lhb_owners, own_count, own_waits, own_ast_count, own_blocks, prcVars,
                 holder, next, purge, threadVars>>

\* The fields of a request block that goes to the free list (dead until the
\* block is used again, so they get one value).
Free(r) ==
  /\ lrq_type' = [lrq_type EXCEPT ![r] = "null"]
  /\ lrq_owner' = [lrq_owner EXCEPT ![r] = NoOwner]
  /\ lrq_lock' = [lrq_lock EXCEPT ![r] = NoLock]
  /\ lrq_state' = [lrq_state EXCEPT ![r] = LCK_none]
  /\ lrq_requested' = [lrq_requested EXCEPT ![r] = LCK_none]
  /\ lrq_flags' = [lrq_flags EXCEPT ![r] = {}]
  /\ lrq_ast' = [lrq_ast EXCEPT ![r] = FALSE]

\* Mutant: a released request stays in the blocking queue of its owner.
Unblock_forgotten(r) == own_blocks' = own_blocks

\* release_request: a request marked as blocking leaves the queue of its owner.
Unblock(r) ==
  own_blocks' = [own_blocks EXCEPT ![lrq_owner[r]] =
                   IF "blocking" \in lrq_flags[r] THEN @ \ {r} ELSE @]

\* release_request: request r leaves its lock and its owner.  The last request
\* takes the lock with it; otherwise post_pending looks at the others.
release_request(r) ==
  LET l == lrq_lock[r]
      queue == RemoveFirst(lbl_requests[l], r)
      counts == IF queue = <<>> THEN ZeroCounts
                ELSE IF lrq_state[r] # LCK_none THEN CountsWithout(r) ELSE lbl_counts[l]
  IN /\ Free(r)
     /\ lbl_requests' = [lbl_requests EXCEPT ![l] = queue]
     /\ lbl_counts' = [lbl_counts EXCEPT ![l] = counts]
     /\ lbl_state' = [lbl_state EXCEPT ![l] =
          IF queue = <<>> THEN LCK_none
          ELSE IF lrq_state[r] # LCK_none /\ counts[lrq_state[r]] = 0
               THEN lock_state(counts) ELSE @]
     /\ lbl_pending_lrq_count' =
          [lbl_pending_lrq_count EXCEPT ![l] = IF "pending" \in lrq_flags[r] THEN @ - 1 ELSE @]
     /\ Unblock(r)
     /\ posting' = IF queue = <<>> THEN NoLock ELSE l
     /\ lck_physical' = [lck_physical EXCEPT ![r] = LCK_none]
     /\ UNCHANGED <<lhb_owners, own_count, own_flags, own_waits, own_ast_count, prcVars>>
-----------------------------------------------------------------------------
(* Calls on requests.                                                        *)

\* A thread of owner o may start a call that can wait: an owner that is not
\* shared by threads has at most one such call.
MayWait(o) == o \in Shared \/ \A r \in Requests : call[r] # NoCall => call[r].owner # o

\* The client knows request r: it was granted and no call works on it.
Known(r) == lrq_type[r] = "lrq" /\ call[r] = NoCall /\ Usable(lrq_owner[r])

\* enqueue without a prior request.
enqueue(o, l, level, wait, ast, r) ==
  /\ Usable(o)
  /\ wait # "nowait" => MayWait(o)
  /\ lrq_type[r] = "null" /\ call[r] = NoCall
  /\ acquire_shmem(r, "insert")
  /\ call' = [call EXCEPT ![r] = [op |-> "enqueue", owner |-> o, lock |-> l, level |-> level,
                                  wait |-> wait, ast |-> ast]]
  /\ UNCHANGED <<lrqVars, lblVars, ownVars, prcVars, posting, purge, thread, lck_physical>>

\* enqueue that first releases a prior request; its block may be the one used
\* for the new request.
enqueue_prior(prior, l, level, wait, ast, r) ==
  /\ Known(prior)
  /\ wait # "nowait" => MayWait(lrq_owner[prior])
  /\ r = prior \/ (lrq_type[r] = "null" /\ call[r] = NoCall)
  /\ acquire_shmem(r, "insert")
  /\ call' = [call EXCEPT ![r] = [op |-> "enqueue", owner |-> lrq_owner[prior], lock |-> l,
                                  level |-> level, wait |-> wait, ast |-> ast]]
  /\ release_request(prior)
  /\ UNCHANGED <<purge, thread>>

\* enqueue, the request block is filled in and put at the end of the queue of
\* its lock; a lock that does not exist yet is set up.
enqueue_insert(r) ==
  LET c == call[r]
      exists == lbl_requests[c.lock] # <<>>
  IN /\ At(r, "insert")
     /\ lrq_type' = [lrq_type EXCEPT ![r] = "lrq"]
     /\ lrq_owner' = [lrq_owner EXCEPT ![r] = c.owner]
     /\ lrq_lock' = [lrq_lock EXCEPT ![r] = c.lock]
     /\ lrq_state' = [lrq_state EXCEPT ![r] = LCK_none]
     /\ lrq_requested' = [lrq_requested EXCEPT ![r] = c.level]
     /\ lrq_flags' = [lrq_flags EXCEPT ![r] = {}]
     /\ lrq_ast' = [lrq_ast EXCEPT ![r] = c.ast]
     /\ lbl_requests' = [lbl_requests EXCEPT ![c.lock] = Append(@, r)]
     /\ lbl_state' = [lbl_state EXCEPT ![c.lock] = IF exists THEN @ ELSE c.level]
     /\ lbl_counts' = [lbl_counts EXCEPT ![c.lock] = IF exists THEN @ ELSE ZeroCounts]
     /\ lbl_pending_lrq_count' =
          [lbl_pending_lrq_count EXCEPT ![c.lock] = IF exists THEN @ ELSE 0]
     /\ Goto(IF exists THEN "grant_or_que" ELSE "grant")
     /\ UNCHANGED <<ownVars, prcVars, threadVars>>

\* The call on r returns success with the level it asked for.
Succeed(r) ==
  /\ call' = [call EXCEPT ![r] = NoCall]
  /\ lck_physical' = [lck_physical EXCEPT ![r] = call[r].level]

\* The call on r fails; what lck.cpp knows of an existing lock stays, except
\* that downgrade returns the level it computed whether it got it or not.
Fail(r) ==
  /\ call' = [call EXCEPT ![r] = NoCall]
  /\ lck_physical' = [lck_physical EXCEPT ![r] =
                        IF call[r].op = "downgrade" THEN call[r].level ELSE @]

\* enqueue, the lock is new: granted without further ado.
enqueue_grant(r) ==
  /\ At(r, "grant")
  /\ grant(r, lbl_counts[lrq_lock[r]])
  /\ Succeed(r)
  /\ Goto("done")
  /\ UNCHANGED <<lrq_ast, thread>>

\* grant_or_que: a new request that is compatible with the lock is granted
\* unless others are waiting.
GrantNow(r) ==
  /\ compatibility(lrq_requested[r], lbl_state[lrq_lock[r]])
  /\ lrq_requested[r] = LCK_null \/ lbl_pending_lrq_count[lrq_lock[r]] = 0

grant_or_que_grant(r) ==
  /\ At(r, "grant_or_que")
  /\ GrantNow(r)
  /\ grant(r, lbl_counts[lrq_lock[r]])
  /\ Succeed(r)
  /\ posting' = lrq_lock[r]
  /\ next' = "done"
  /\ UNCHANGED <<lrq_ast, holder, purge, thread>>

\* It has to wait, or is denied if the client does not want to.
grant_or_que_block(r) ==
  /\ At(r, "grant_or_que")
  /\ ~GrantNow(r)
  /\ Goto(IF call[r].wait = "nowait" THEN "release" ELSE "wait")
  /\ UNCHANGED <<lrqVars, lblVars, ownVars, prcVars, threadVars>>

\* internal_dequeue, and the end of grant_or_que for a request that was denied
\* or rejected.
internal_dequeue(r) ==
  /\ At(r, "release")
  /\ release_request(r)
  /\ call' = [call EXCEPT ![r] = NoCall]
  /\ next' = "done"
  /\ UNCHANGED <<holder, purge, thread>>

\* convert and internal_convert up to the decision.
convert(r, level, wait, ast) ==
  /\ Known(r)
  /\ wait # "nowait" => MayWait(lrq_owner[r])
  /\ acquire_shmem(r, "convert")
  /\ call' = [call EXCEPT ![r] = [op |-> "convert", owner |-> lrq_owner[r],
                                  lock |-> lrq_lock[r], level |-> level, wait |-> wait,
                                  ast |-> ast]]
  /\ lrq_requested' = [lrq_requested EXCEPT ![r] = level]
  /\ lrq_flags' = [lrq_flags EXCEPT ![r] = @ \ {"blocking_seen"}]
  /\ UNCHANGED <<lrq_type, lrq_owner, lrq_lock, lrq_state, lrq_ast, lblVars, ownVars, prcVars,
                 posting, purge, thread, lck_physical>>

\* internal_convert: compatible with the lock without the request.
internal_convert_grant(r) ==
  /\ At(r, "convert")
  /\ compatibility(lrq_requested[r], lock_state(CountsWithout(r)))
  /\ grant(r, CountsWithout(r))
  /\ lrq_ast' = [lrq_ast EXCEPT ![r] = call[r].ast]
  /\ Succeed(r)
  /\ posting' = lrq_lock[r]
  /\ next' = "done"
  /\ UNCHANGED <<holder, purge, thread>>

internal_convert_block(r) ==
  /\ At(r, "convert")
  /\ ~compatibility(lrq_requested[r], lock_state(CountsWithout(r)))
  /\ Goto(IF call[r].wait = "nowait" THEN "undo" ELSE "wait")
  /\ UNCHANGED <<lrqVars, lblVars, ownVars, prcVars, threadVars>>

\* internal_convert, the end of a conversion that was denied or rejected.
internal_convert_undo(r) ==
  /\ At(r, "undo")
  /\ lrq_requested' = [lrq_requested EXCEPT ![r] = lrq_state[r]]
  /\ Fail(r)
  /\ Goto("done")
  /\ UNCHANGED <<lrq_type, lrq_owner, lrq_lock, lrq_state, lrq_flags, lrq_ast, lblVars, ownVars,
                 prcVars, thread>>

\* downgrade: the highest level not above the one held that the most demanding
\* pending request of the lock can live with.
DowngradeLevel(r) ==
  LET pending == Max({LCK_none} \cup
        {lrq_requested[q] : q \in {x \in ToSet(lbl_requests[lrq_lock[r]]) \ {r} :
                                     "pending" \in lrq_flags[x]}})
  IN Max({s \in LCK_none .. lrq_state[r] : s = LCK_none \/ compatibility(pending, s)})

\* The call on r of a client that gives something back.
Reduce(r, op, level, step) ==
  /\ Known(r)
  /\ acquire_shmem(r, step)
  /\ call' = [call EXCEPT ![r] = [op |-> op, owner |-> lrq_owner[r], lock |-> lrq_lock[r],
                                  level |-> level, wait |-> "nowait", ast |-> lrq_ast[r]]]
  /\ UNCHANGED <<lrq_type, lrq_owner, lrq_lock, lrq_state, lrq_ast, lblVars, ownVars, prcVars,
                 posting, purge, thread, lck_physical>>

downgrade(r) ==
  LET level == DowngradeLevel(r)
  IN \/ /\ level > LCK_null
        /\ Reduce(r, "downgrade", level, "convert")
        /\ lrq_requested' = [lrq_requested EXCEPT ![r] = level]
        /\ lrq_flags' = [lrq_flags EXCEPT ![r] = @ \ {"blocking_seen"}]
     \/ /\ level <= LCK_null
        /\ Reduce(r, "downgrade", LCK_none, "release")
        /\ UNCHANGED <<lrq_requested, lrq_flags>>

dequeue(r) ==
  /\ Reduce(r, "dequeue", LCK_none, "release")
  /\ UNCHANGED <<lrq_requested, lrq_flags>>
-----------------------------------------------------------------------------
(* Waiting for a request.                                                    *)

\* wait_for_request up to the first post_blockage.
wait_for_request(r) ==
  LET o == lrq_owner[r]
      l == lrq_lock[r]
  IN /\ At(r, "wait")
     /\ own_flags' = [own_flags EXCEPT ![o] = @ \ {"scanned", "wakeup"}]
     /\ own_waits' = [own_waits EXCEPT ![o] = @ + 1]
     /\ lrq_flags' = [lrq_flags EXCEPT ![r] =
          ((@ \ {"rejected"}) \cup {"pending"})
            \cup (IF call[r].wait = "timeout" THEN {"wait_timeout"} ELSE {})]
     /\ lbl_pending_lrq_count' = [lbl_pending_lrq_count EXCEPT ![l] = @ + 1]
     /\ lbl_requests' = [lbl_requests EXCEPT ![l] =
          IF lrq_state[r] = LCK_none THEN Append(RemoveFirst(@, r), r) ELSE @]
     /\ Goto("blockage")
     /\ UNCHANGED <<lrq_type, lrq_owner, lrq_lock, lrq_state, lrq_requested, lrq_ast, lbl_state,
                    lbl_counts, lhb_owners, own_count, own_ast_count, own_blocks, prcVars,
                    threadVars>>

\* post_blockage: the requests that block r and whose owners can be told so.
\* (The loop of the code stops at a request that holds LCK_EX; the others then
\* hold nothing that could block.)
Blockers(r) ==
  {b \in ToSet(lbl_requests[lrq_lock[r]]) :
     /\ b # r
     /\ lrq_owner[b] # lrq_owner[r]
     /\ ~compatibility(lrq_requested[r], lrq_state[b])
     /\ lrq_ast[b]
     /\ "blocking_seen" \notin lrq_flags[b]}

\* post_blockage, first loop: the blockers are queued for their owners.
post_blockage(r) ==
  LET new == {b \in Blockers(r) : "blocking" \notin lrq_flags[b]}
  IN /\ At(r, "blockage")
     /\ lrq_flags' = [b \in Requests |->
          IF b \in new THEN (lrq_flags[b] \cup {"blocking"}) \ {"just_granted"}
                       ELSE lrq_flags[b]]
     /\ own_blocks' = [o \in Owners |-> own_blocks[o] \cup {b \in new : lrq_owner[b] = o}]
     /\ thread' = [thread EXCEPT ![r].rest = {lrq_owner[b] : b \in Blockers(r)}]
     /\ Goto("signal")
     /\ UNCHANGED <<lrq_type, lrq_owner, lrq_lock, lrq_state, lrq_requested, lrq_ast, lblVars,
                    lhb_owners, own_count, own_flags, own_waits, own_ast_count, prcVars, call,
                    lck_physical>>

\* post_blockage, second loop: an owner that is gone or already signalled.
skip_owner(r, b) ==
  /\ At(r, "signal")
  /\ b \in thread[r].rest
  /\ own_count[b] = 0 \/ "signaled" \in own_flags[b]
  /\ thread' = [thread EXCEPT ![r].rest = @ \ {b}]
  /\ UNCHANGED <<lrqVars, lblVars, ownVars, prcVars, tableVars, call, lck_physical>>

\* signal_owner, called for owner b by thread t: an owner of the same process
\* is served by t itself, another one by the blocking thread of its process.
signal_locally(t, b) ==
  /\ Home[b] = ProcessOf(t)
  /\ own_flags' = [own_flags EXCEPT ![b] = @ \cup {"signaled"}]
  /\ thread' = [thread EXCEPT ![t].rest = @ \ {b}, ![t].serving = b]
  /\ UNCHANGED prc_blocking

\* Mutant: the event is not posted.
signal_remotely_silent(t, b) ==
  /\ Home[b] # ProcessOf(t)
  /\ own_flags' = [own_flags EXCEPT ![b] = @ \cup {"signaled"}]
  /\ thread' = [thread EXCEPT ![t].rest = @ \ {b}]
  /\ UNCHANGED prc_blocking

\* eventPost succeeds.  The block of an owner that was purged in the meantime
\* belongs to no process: nobody gets the event.
signal_remotely(t, b) ==
  /\ Home[b] # ProcessOf(t)
  /\ own_flags' = [own_flags EXCEPT ![b] = @ \cup {"signaled"}]
  /\ thread' = [thread EXCEPT ![t].rest = @ \ {b}]
  /\ prc_blocking' = [prc_blocking EXCEPT ![Home[b]] = @ \/ b \in lhb_owners]

\* eventPost fails, which it may do when the process is dead.
signal_fails(t, b) ==
  /\ Home[b] # ProcessOf(t)
  /\ b \in lhb_owners
  /\ Home[b] \in DeadProcesses
  /\ thread' = [thread EXCEPT ![t].rest = @ \ {b}, ![t].dead = @ \cup {Home[b]}]
  /\ UNCHANGED <<own_flags, prc_blocking>>

signal_owner(r, b) ==
  /\ At(r, "signal")
  /\ b \in thread[r].rest
  /\ own_count[b] > 0 /\ "signaled" \notin own_flags[b]
  /\ signal_locally(r, b) \/ signal_remotely(r, b) \/ signal_fails(r, b)
  /\ UNCHANGED <<lrqVars, lblVars, lhb_owners, own_count, own_waits, own_ast_count, own_blocks,
                 lhb_processes, running, tableVars, call, lck_physical>>

\* post_blockage, third loop: processes that could not be signalled are purged.
purge_unreachable(r) ==
  /\ At(r, "signal")
  /\ thread[r].rest = {}
  /\ purge' = thread[r].dead \cap lhb_processes
  /\ thread' = [thread EXCEPT ![r].dead = {}]
  /\ next' = "loop"
  /\ UNCHANGED <<lrqVars, lblVars, ownVars, prcVars, holder, posting, call, lck_physical>>

Pending(r) == "pending" \in lrq_flags[r]

\* wait_for_request, the top of its loop: the request was resolved,
wait_resolved(r) ==
  /\ \E s \in {"loop", "awake", "scan"} : At(r, s)
  /\ ~Pending(r)
  /\ Goto("exit")
  /\ UNCHANGED <<lrqVars, lblVars, ownVars, prcVars, threadVars>>

\* or there is a wakeup to look at,
wait_again(r) ==
  /\ At(r, "loop")
  /\ Pending(r)
  /\ "wakeup" \in own_flags[lrq_owner[r]]
  /\ Goto("awake")
  /\ UNCHANGED <<lrqVars, lblVars, ownVars, prcVars, threadVars>>

\* or the thread leaves the lock table and sleeps in eventWait.
wait_sleep(r) ==
  /\ At(r, "loop")
  /\ Pending(r)
  /\ "wakeup" \notin own_flags[lrq_owner[r]]
  /\ holder' = NoThread /\ next' = "done"
  /\ thread' = [thread EXCEPT ![r].pc = "sleep"]
  /\ UNCHANGED <<lrqVars, lblVars, ownVars, prcVars, posting, purge, call, lck_physical>>

\* Mutant: eventWait knows no timeout.
event_wait_untimed(r) ==
  /\ thread[r].pc = "sleep"
  /\ "wakeup" \in own_flags[lrq_owner[r]]
  /\ acquire_shmem(r, "awake")
  /\ thread' = [thread EXCEPT ![r].pc = "idle"]
  /\ UNCHANGED <<lrqVars, lblVars, ownVars, prcVars, posting, purge, call, lck_physical>>

\* eventWait returns: posted, or the scan interval or the timeout is over.
event_wait(r) ==
  /\ thread[r].pc = "sleep"
  /\ acquire_shmem(r, "awake")
  /\ thread' = [thread EXCEPT ![r].pc = "idle"]
  /\ UNCHANGED <<lrqVars, lblVars, ownVars, prcVars, posting, purge, call, lck_physical>>

\* wait_for_request, the timeout is over or the wait was cancelled: the request
\* is rejected and the processes are probed.
wait_expired(r) ==
  /\ At(r, "awake")
  /\ Pending(r)
  /\ call[r].wait \in {"timeout", "cancel"}
  /\ own_flags' = [own_flags EXCEPT ![lrq_owner[r]] = @ \ {"wakeup"}]
  /\ lrq_flags' = [lrq_flags EXCEPT ![r] = (@ \cup {"rejected"}) \ {"pending"}]
  /\ lbl_pending_lrq_count' = [lbl_pending_lrq_count EXCEPT ![lrq_lock[r]] = @ - 1]
  /\ purge' = DeadProcesses
  /\ next' = "exit"
  /\ UNCHANGED <<lrq_type, lrq_owner, lrq_lock, lrq_state, lrq_requested, lrq_ast, lbl_requests,
                 lbl_state, lbl_counts, lhb_owners, own_count, own_waits, own_ast_count,
                 own_blocks, prcVars, holder, posting, threadVars>>

\* Woken up by someone who did not grant the request: tell who blocks it now.
wait_woken(r) ==
  /\ At(r, "awake")
  /\ Pending(r)
  /\ "wakeup" \in own_flags[lrq_owner[r]]
  /\ own_flags' = [own_flags EXCEPT ![lrq_owner[r]] = @ \ {"wakeup"}]
  /\ Goto("blockage")
  /\ UNCHANGED <<lrqVars, lblVars, lhb_owners, own_count, own_waits, own_ast_count, own_blocks,
                 prcVars, threadVars>>

\* The scan interval is over: look for dead processes, then for a deadlock.
wait_probe(r) ==
  /\ At(r, "awake")
  /\ Pending(r)
  /\ "wakeup" \notin own_flags[lrq_owner[r]]
  /\ purge' = DeadProcesses
  /\ next' = "scan"
  /\ UNCHANGED <<lrqVars, lblVars, ownVars, prcVars, holder, posting, threadVars>>

\* wait_for_request, its end.  A granted request is the client's,
wait_granted(r) ==
  /\ At(r, "exit")
  /\ "rejected" \notin lrq_flags[r]
  /\ own_waits' = [own_waits EXCEPT ![lrq_owner[r]] = @ - 1]
  /\ lrq_flags' = [lrq_flags EXCEPT ![r] = @ \ {"wait_timeout"}]
  /\ lrq_ast' = [lrq_ast EXCEPT ![r] = call[r].ast]
  /\ Succeed(r)
  /\ Goto("done")
  /\ UNCHANGED <<lrq_type, lrq_owner, lrq_lock, lrq_state, lrq_requested, lblVars, lhb_owners,
                 own_count, own_flags, own_ast_count, own_blocks, prcVars, thread>>

\* a rejected one is released (grant_or_que) or undone after post_pending had
\* a look at the requests behind it (internal_convert).
wait_rejected(r) ==
  /\ At(r, "exit")
  /\ "rejected" \in lrq_flags[r]
  /\ own_waits' = [own_waits EXCEPT ![lrq_owner[r]] = @ - 1]
  /\ lrq_flags' = [lrq_flags EXCEPT ![r] = @ \ {"wait_timeout"}]
  /\ posting' = IF call[r].op = "enqueue" THEN NoLock ELSE lrq_lock[r]
  /\ next' = IF call[r].op = "enqueue" THEN "release" ELSE "undo"
  /\ UNCHANGED <<lrq_type, lrq_owner, lrq_lock, lrq_state, lrq_requested, lrq_ast, lblVars,
                 lhb_owners, own_count, own_flags, own_ast_count, own_blocks, prcVars, holder,
                 purge, threadVars>>
-----------------------------------------------------------------------------
(* Deadlock detection.                                                       *)

\* b stands before r in the queue of its lock.
Before(b, r) ==
  LET queue == lbl_requests[lrq_lock[r]]
  IN \E i \in DOMAIN queue, j \in DOMAIN queue : i < j /\ queue[i] = b /\ queue[j] = r

\* deadlock_walk: the requests on the lock of r that it considers to block r.
\* A conversion is held up by what others have been granted, a new request
\* also by what those before it ask for.
WalkBlocks(r) ==
  {b \in ToSet(lbl_requests[lrq_lock[r]]) \ {r} :
     IF lrq_state[r] > LCK_null
     THEN ~compatibility(lrq_requested[r], lrq_state[b])
     ELSE /\ Before(b, r)
          /\ ~compatibility(lrq_requested[r], Max({lrq_state[b], lrq_requested[b]}))}

\* The owner of b may still act on a notice, so there may be no deadlock.
Undecided(b) ==
  \/ own_flags[lrq_owner[b]] \cap {"signaled", "wakeup"} # {}
  \/ own_blocks[lrq_owner[b]] # {}
  \/ "just_granted" \in lrq_flags[b]

\* The pending requests that deadlock_walk pursues from r.
WaitsFor(r) ==
  {q \in Requests : /\ \E b \in WalkBlocks(r) : ~Undecided(b) /\ q \in own_pending(lrq_owner[b])
                    /\ "wait_timeout" \notin lrq_flags[q]}

\* The least set of requests that holds those of S and is closed under WaitsFor.
Pursued(S) ==
  LET pending == {r \in Requests : Pending(r)}
  IN {q \in pending : \A C \in SUBSET pending :
        (S \subseteq C /\ \A c \in C : WaitsFor(c) \subseteq C) => q \in C}

\* deadlock_walk returns a pursued request that it meets again on its way; what
\* it returns is on a cycle (module DeadlockWalk has the walk itself).
Victims(r) == {q \in Pursued({r}) : q \in Pursued(WaitsFor(q))}

\* Mutant: the walk does not remember that it left out an owner.
MaybeDeadlock_forgotten(r) == FALSE

\* deadlock_walk left out an owner that may still act.
MaybeDeadlock(r) == \E q \in Pursued({r}) : \E b \in WalkBlocks(q) : Undecided(b)

\* A scan is done by a thread that waits without a timeout, unless an earlier
\* scan was certain of its result.
ScanDue(r) ==
  /\ At(r, "scan")
  /\ Pending(r)
  /\ "scanned" \notin own_flags[lrq_owner[r]]
  /\ "wait_timeout" \notin lrq_flags[r]

\* The victim v is rejected.
deadlock_found(r, v) ==
  /\ ScanDue(r)
  /\ v \in Victims(r)
  /\ lrq_flags' = [lrq_flags EXCEPT ![v] = (@ \cup {"rejected"}) \ {"pending"}]
  /\ lbl_pending_lrq_count' = [lbl_pending_lrq_count EXCEPT ![lrq_lock[v]] = @ - 1]
  /\ own_flags' = [own_flags EXCEPT ![lrq_owner[v]] =
       (IF v = r THEN @ ELSE post_wakeup(lrq_owner[v])) \ {"scanned"}]
  /\ Goto("loop")
  /\ UNCHANGED <<lrq_type, lrq_owner, lrq_lock, lrq_state, lrq_requested, lrq_ast, lbl_requests,
                 lbl_state, lbl_counts, lhb_owners, own_count, own_waits, own_ast_count,
                 own_blocks, prcVars, threadVars>>

\* No deadlock, or no scan: remind the owners that block the request.
deadlock_not_found(r) ==
  /\ At(r, "scan")
  /\ Pending(r)
  /\ ScanDue(r) => Victims(r) = {}
  /\ own_flags' = [own_flags EXCEPT ![lrq_owner[r]] =
       IF ScanDue(r) /\ ~MaybeDeadlock(r) THEN @ \cup {"scanned"} ELSE @]
  /\ Goto("blockage")
  /\ UNCHANGED <<lrqVars, lblVars, lhb_owners, own_count, own_waits, own_ast_count, own_blocks,
                 prcVars, threadVars>>
-----------------------------------------------------------------------------
(* Delivery of blocking ASTs.                                                *)

\* Thread t runs blocking_action for its owner "serving".
Serving(t) ==
  /\ holder = t
  /\ posting = NoLock
  /\ purge = {}
  /\ thread[t].serving # NoOwner

\* blocking_action: the next block of the owner is taken off its queue and its
\* AST routine, if there is one, is called without the mutex.
blocking_action(t, q) ==
  LET o == thread[t].serving
  IN /\ Serving(t)
     /\ own_count[o] > 0
     /\ q \in own_blocks[o]
     /\ own_blocks' = [own_blocks EXCEPT ![o] = @ \ {q}]
     /\ IF "blocking" \in lrq_flags[q]
        THEN /\ lrq_flags' = [lrq_flags EXCEPT ![q] =
                  (@ \ {"blocking"}) \cup {"blocking_seen"}]
             /\ UNCHANGED <<lrq_type, lrq_owner, lrq_lock, lrq_state, lrq_requested, lrq_ast>>
        ELSE Free(q)
     /\ own_ast_count' = [own_ast_count EXCEPT ![o] = IF lrq_ast[q] THEN @ + 1 ELSE @]
     /\ thread' = [thread EXCEPT ![t].pc = IF lrq_ast[q] THEN "ast" ELSE @]
     /\ holder' = IF lrq_ast[q] THEN NoThread ELSE holder
     /\ next' = IF lrq_ast[q] THEN "done" ELSE next
     /\ UNCHANGED <<lblVars, lhb_owners, own_count, own_flags, own_waits, prcVars, posting, purge, call, lck_physical>>

\* What a thread does after blocking_action, which it may have called in
\* post_blockage, in blocking_action_thread or in repost.
AfterAction(t) == IF t \in Requests THEN "signal" ELSE IF t \in Processes THEN "poll" ELSE "done"

\* The AST routine returns.
ast_return(t) ==
  /\ thread[t].pc = "ast"
  /\ acquire_shmem(t, AfterAction(t))
  /\ own_ast_count' = [own_ast_count EXCEPT ![thread[t].serving] = @ - 1]
  /\ thread' = [thread EXCEPT ![t].pc = "idle"]
  /\ UNCHANGED <<lrqVars, lblVars, lhb_owners, own_count, own_flags, own_waits, own_blocks,
                 prcVars, posting, purge, call, lck_physical>>

\* Mutant: OWN_signaled is not reset.
blocking_action_end_signaled(t) ==
  LET o == thread[t].serving
  IN /\ Serving(t)
     /\ own_count[o] = 0 \/ own_blocks[o] = {}
     /\ thread' = [thread EXCEPT ![t].serving = NoOwner]
     /\ UNCHANGED <<lrqVars, lblVars, ownVars, prcVars, tableVars, call, lck_physical>>

\* blocking_action ends: no block is left or the owner is being shut down.
blocking_action_end(t) ==
  LET o == thread[t].serving
  IN /\ Serving(t)
     /\ own_count[o] = 0 \/ own_blocks[o] = {}
     /\ own_flags' = [own_flags EXCEPT ![o] = @ \ {"signaled"}]
     /\ thread' = [thread EXCEPT ![t].serving = NoOwner]
     /\ UNCHANGED <<lrqVars, lblVars, lhb_owners, own_count, own_waits, own_ast_count, own_blocks,
                    prcVars, tableVars, call, lck_physical>>

\* blocking_action_thread of process p: eventWait returns,
blocking_thread_wake(p) ==
  /\ p \in running
  /\ thread[p].pc = "idle"
  /\ prc_blocking[p]
  /\ acquire_shmem(p, "poll")
  /\ prc_blocking' = [prc_blocking EXCEPT ![p] = FALSE]
  /\ UNCHANGED <<lrqVars, lblVars, ownVars, lhb_processes, running, posting, purge, threadVars>>

\* a signalled owner of the process is served,
blocking_thread_serve(p, o) ==
  /\ At(p, "poll")
  /\ o \in lhb_owners /\ Home[o] = p
  /\ "signaled" \in own_flags[o]
  /\ thread' = [thread EXCEPT ![p].serving = o]
  /\ UNCHANGED <<lrqVars, lblVars, ownVars, prcVars, tableVars, call, lck_physical>>

\* Mutant: one pass over the owners is thought to be enough.
blocking_thread_sleep_once(p) ==
  /\ At(p, "poll")
  /\ Goto("done")
  /\ UNCHANGED <<lrqVars, lblVars, ownVars, prcVars, threadVars>>

\* until there is none left.
blocking_thread_sleep(p) ==
  /\ At(p, "poll")
  /\ \A o \in lhb_owners : Home[o] = p => "signaled" \notin own_flags[o]
  /\ Goto("done")
  /\ UNCHANGED <<lrqVars, lblVars, ownVars, prcVars, threadVars>>

\* repost: an AST that the client could not act upon is queued once more.  The
\* owner is of this process, so the calling thread, named o, serves it.
repost(o, q) ==
  /\ o \in lhb_owners /\ Home[o] \in running
  /\ thread[o] = Idle
  /\ lrq_type[q] = "null" /\ call[q] = NoCall
  /\ acquire_shmem(o, "done")
  /\ lrq_type' = [lrq_type EXCEPT ![q] = "repost"]
  /\ lrq_owner' = [lrq_owner EXCEPT ![q] = o]
  /\ lrq_ast' = [lrq_ast EXCEPT ![q] = TRUE]
  /\ own_blocks' = [own_blocks EXCEPT ![o] = @ \cup {q}]
  /\ own_flags' = [own_flags EXCEPT ![o] = @ \cup {"signaled"}]
  /\ thread' = [thread EXCEPT ![o].serving =
                  IF "signaled" \in own_flags[o] THEN NoOwner ELSE o]
  /\ UNCHANGED <<lrq_lock, lrq_state, lrq_requested, lrq_flags, lblVars, lhb_owners, own_count,
                 own_waits, own_ast_count, prcVars, posting, purge, call, lck_physical>>

\* cancelWait: the owner is woken up to find its wait cancelled.
cancelWait(o) ==
  /\ Usable(o)
  /\ holder = NoThread
  /\ own_flags' = [own_flags EXCEPT ![o] = post_wakeup(o)]
  /\ UNCHANGED <<lrqVars, lblVars, lhb_owners, own_count, own_waits, own_ast_count, own_blocks,
                 prcVars, tableVars, threadVars>>
-----------------------------------------------------------------------------
(* Owners and processes.                                                     *)

\* initializeOwner with an owner that has a block already: nothing is looked at.
initializeOwner_again(o) ==
  /\ o \in lhb_owners /\ Home[o] \in running
  /\ holder = NoThread
  /\ own_count[o] < MaxUse
  /\ own_count' = [own_count EXCEPT ![o] = @ + 1]
  /\ UNCHANGED <<lrqVars, lblVars, lhb_owners, own_flags, own_waits, own_ast_count, own_blocks,
                 prcVars, tableVars, threadVars>>

\* initializeOwner, create_owner, create_process: leftovers of a dead process
\* with the same pid, or of a former instance of the owner, are purged first.
initializeOwner(o) ==
  /\ o \in lhb_owners => Home[o] \notin running
  /\ thread[o] = Idle
  /\ acquire_shmem(o, "create")
  /\ purge' = (IF Home[o] \in running THEN {} ELSE {Home[o]} \cap lhb_processes)
                \cup ({o} \cap lhb_owners)
  /\ UNCHANGED <<lrqVars, lblVars, ownVars, prcVars, posting, threadVars>>

\* create_process and init_owner_block, then probe_processes.
create_owner(o) ==
  /\ At(o, "create")
  /\ lhb_processes' = lhb_processes \cup {Home[o]}
  /\ running' = running \cup {Home[o]}
  /\ UNCHANGED prc_blocking
  /\ lhb_owners' = lhb_owners \cup {o}
  /\ own_count' = [own_count EXCEPT ![o] = 1]
  /\ own_flags' = [own_flags EXCEPT ![o] = {}]
  /\ own_waits' = [own_waits EXCEPT ![o] = 0]
  /\ own_ast_count' = [own_ast_count EXCEPT ![o] = 0]
  /\ own_blocks' = [own_blocks EXCEPT ![o] = {}]
  /\ purge' = DeadProcesses \ {Home[o]}
  /\ next' = "done"
  /\ UNCHANGED <<lrqVars, lblVars, holder, posting, threadVars>>

\* No call of owner o is in the lock manager: what the engine waits for before
\* it shuts the owner down.
Quiet(o) == \A r \in Requests : call[r] # NoCall => call[r].owner # o

\* shutdownOwner: only the last user of the owner shuts it down,
shutdownOwner(o) ==
  /\ Usable(o)
  /\ Quiet(o)
  /\ holder = NoThread
  /\ own_count' = [own_count EXCEPT ![o] = @ - 1]
  /\ IF own_count[o] = 1 /\ own_ast_count[o] = 0
     THEN holder' = o /\ next' = "done" /\ purge' = {o}
     ELSE UNCHANGED <<holder, next, purge>>
  /\ UNCHANGED <<lrqVars, lblVars, lhb_owners, own_flags, own_waits, own_ast_count, own_blocks,
                 prcVars, posting, threadVars>>

\* Mutant: it sleeps once, not as long as own_ast_count says.
shutdownOwner_awake_once(o) ==
  /\ o \in lhb_owners /\ Home[o] \in running
  /\ own_count[o] = 0
  /\ acquire_shmem(o, "done")
  /\ purge' = {o}
  /\ UNCHANGED <<lrqVars, lblVars, ownVars, prcVars, posting, threadVars>>

\* and sleeps as long as AST routines of the owner run.
shutdownOwner_awake(o) ==
  /\ o \in lhb_owners /\ Home[o] \in running
  /\ own_count[o] = 0 /\ own_ast_count[o] = 0
  /\ acquire_shmem(o, "done")
  /\ purge' = {o}
  /\ UNCHANGED <<lrqVars, lblVars, ownVars, prcVars, posting, threadVars>>

\* The owners that the thread in the lock table is purging.
Purging(o) == o \in lhb_owners /\ (o \in purge \/ Home[o] \in purge)

\* purge_owner, first loop: the requests of the owner are released.
purge_owner_request(r) ==
  /\ posting = NoLock
  /\ lrq_type[r] = "lrq"
  /\ Purging(lrq_owner[r])
  /\ release_request(r)
  /\ UNCHANGED <<holder, next, purge, call, thread>>

\* purge_owner, second loop: reposts that nobody will handle any more.
purge_owner_repost(q) ==
  /\ posting = NoLock
  /\ lrq_type[q] = "repost"
  /\ Purging(lrq_owner[q])
  /\ own_requests(lrq_owner[q]) = {}
  /\ Free(q)
  /\ own_blocks' = [own_blocks EXCEPT ![lrq_owner[q]] = @ \ {q}]
  /\ UNCHANGED <<lblVars, lhb_owners, own_count, own_flags, own_waits, own_ast_count, prcVars,
                 tableVars, threadVars>>

\* purge_owner: the owner block is freed.
purge_owner(o) ==
  /\ posting = NoLock
  /\ Purging(o)
  /\ own_requests(o) = {} /\ own_blocks[o] = {}
  /\ lhb_owners' = lhb_owners \ {o}
  /\ own_flags' = [own_flags EXCEPT ![o] = {}]
  /\ purge' = purge \ {o}
  /\ UNCHANGED <<lrqVars, lblVars, own_count, own_waits, own_ast_count, own_blocks, prcVars,
                 holder, next, posting, threadVars>>

\* purge_process: once its owners are gone the process block is freed.
purge_process(p) ==
  /\ posting = NoLock
  /\ p \in purge
  /\ \A o \in lhb_owners : Home[o] # p
  /\ lhb_processes' = lhb_processes \ {p}
  /\ prc_blocking' = [prc_blocking EXCEPT ![p] = FALSE]
  /\ purge' = purge \ {p}
  /\ UNCHANGED <<lrqVars, lblVars, ownVars, running, holder, next, posting, threadVars>>

\* The destructor of LockManager, once the owners of the process are gone, no
\* thread of it is in a call (each holds a reference to the lock manager) and
\* its blocking thread has seen that it is to stop.
destroy(p) ==
  /\ p \in running
  /\ holder = NoThread
  /\ thread[p].pc = "idle"
  /\ \A o \in Owners : Home[o] = p => o \notin lhb_owners /\ thread[o] = Idle /\ Quiet(o)
  /\ running' = running \ {p}
  /\ lhb_processes' = lhb_processes \ {p}
  /\ prc_blocking' = [prc_blocking EXCEPT ![p] = FALSE]
  /\ UNCHANGED <<lrqVars, lblVars, ownVars, tableVars, threadVars>>

\* A process dies outside the lock table, with all its threads.
die(p) ==
  /\ p \in running
  /\ holder = NoThread
  /\ running' = running \ {p}
  /\ call' = [r \in Requests |->
       IF call[r] # NoCall /\ Home[call[r].owner] = p THEN NoCall ELSE call[r]]
  /\ thread' = [t \in Threads |->
       IF \/ t = p
          \/ t \in Owners /\ Home[t] = p
          \/ t \in Requests /\ call[t] # NoCall /\ Home[call[t].owner] = p
       THEN Idle ELSE thread[t]]
  /\ UNCHANGED <<lrqVars, lblVars, ownVars, lhb_processes, prc_blocking, tableVars, lck_physical>>
-----------------------------------------------------------------------------
(* The specification.                                                        *)

\* Calls of the engine.  It initialises an owner again only while it uses it: the
\* owner of a database is made for one that is new and shut down for one that is
\* no longer reusable, and each attachment has a handle of its own.
Client ==
  \/ /\ "enqueue" \in Ops
     /\ \E o \in Owners, l \in Locks, level \in Levels, wait \in Waits, ast \in Asts,
           r \in Requests : enqueue(o, l, level, wait, ast, r)
  \/ /\ "prior" \in Ops
     /\ \E q \in Requests, l \in Locks, level \in Levels, wait \in Waits, ast \in Asts,
           r \in Requests : enqueue_prior(q, l, level, wait, ast, r)
  \/ /\ "convert" \in Ops
     /\ \E r \in Requests, level \in Levels, wait \in Waits, ast \in Asts :
           convert(r, level, wait, ast)
  \/ "downgrade" \in Ops /\ \E r \in Requests : downgrade(r)
  \/ "dequeue" \in Ops /\ \E r \in Requests : dequeue(r)
  \/ "repost" \in Ops /\ \E o \in Owners, q \in Requests : repost(o, q)
  \/ "cancel" \in Ops /\ \E o \in Owners : cancelWait(o)
  \/ "again" \in Ops /\ \E o \in Owners : Usable(o) /\ initializeOwner_again(o)
  \/ \E o \in Owners : initializeOwner(o)
  \/ "shutdown" \in Ops /\ \E o \in Owners : shutdownOwner(o)
  \/ "destroy" \in Ops /\ \E p \in Processes : destroy(p)

\* The continuation of a call by the thread that works on request r.
RequestStep(r) ==
  \/ enqueue_insert(r) \/ enqueue_grant(r) \/ grant_or_que_grant(r)
  \/ grant_or_que_block(r) \/ internal_dequeue(r)
  \/ internal_convert_grant(r) \/ internal_convert_block(r) \/ internal_convert_undo(r)
  \/ wait_for_request(r) \/ post_blockage(r) \/ purge_unreachable(r)
  \/ \E b \in Owners : skip_owner(r, b) \/ signal_owner(r, b)
  \/ wait_resolved(r) \/ wait_again(r) \/ wait_sleep(r) \/ event_wait(r)
  \/ wait_expired(r) \/ wait_woken(r) \/ wait_probe(r)
  \/ wait_granted(r) \/ wait_rejected(r)
  \/ \E v \in Requests : deadlock_found(r, v)
  \/ deadlock_not_found(r)

\* What the thread in the lock table does on behalf of any call.
TableStep ==
  \/ \E r \in Requests : PostPendingGrant(r) \/ purge_owner_request(r) \/ purge_owner_repost(r)
  \/ PostPendingEnd
  \/ \E o \in Owners : purge_owner(o) \/ create_owner(o) \/ shutdownOwner_awake(o)
  \/ \E p \in Processes : purge_process(p)
  \/ \E t \in Threads : release_shmem(t)

\* Delivery of ASTs.
AstStep ==
  \/ \E t \in Threads, q \in Requests : blocking_action(t, q)
  \/ \E t \in Threads : ast_return(t) \/ blocking_action_end(t)
  \/ \E p \in Processes : \/ blocking_thread_wake(p) \/ blocking_thread_sleep(p)
                          \/ \E o \in Owners : blocking_thread_serve(p, o)

Crash == "die" \in Ops /\ \E p \in Processes : die(p)

Next == Client \/ (\E r \in Requests : RequestStep(r)) \/ TableStep \/ AstStep \/ Crash

Spec == Init /\ [][Next]_vars
-----------------------------------------------------------------------------
(* Properties.                                                               *)

\* Every variable has its type.
TypeOK ==
  /\ lrq_type \in [Requests -> {"null", "lrq", "repost"}]
  /\ lrq_owner \in [Requests -> Owners \cup {NoOwner}]
  /\ lrq_lock \in [Requests -> Locks \cup {NoLock}]
  /\ lrq_state \in [Requests -> LckLevels]
  /\ lrq_requested \in [Requests -> LckLevels]
  /\ lrq_flags \in [Requests -> SUBSET LrqFlags]
  /\ lrq_ast \in [Requests -> BOOLEAN]
  /\ lbl_requests \in [Locks -> Seq(Requests)]
  /\ lbl_state \in [Locks -> LckLevels]
  /\ lbl_counts \in [Locks -> [LckLevels -> Int]]
  /\ lbl_pending_lrq_count \in [Locks -> Int]
  /\ lhb_owners \subseteq Owners
  /\ own_count \in [Owners -> Nat]
  /\ own_flags \in [Owners -> SUBSET OwnFlags]
  /\ own_waits \in [Owners -> Int]
  /\ own_ast_count \in [Owners -> Int]
  /\ own_blocks \in [Owners -> SUBSET Requests]
  /\ lhb_processes \subseteq Processes
  /\ running \subseteq Processes
  /\ prc_blocking \in [Processes -> BOOLEAN]
  /\ holder \in Threads \cup {NoThread}
  /\ next \in Labels
  /\ posting \in Locks \cup {NoLock}
  /\ purge \subseteq Owners \cup Processes
  /\ call \in [Requests -> Calls \cup {NoCall}]
  /\ thread \in [Threads -> Contexts]
  /\ lck_physical \in [Requests -> LckLevels]

\* The granted requests of lock l at level s.
Holders(l, s) ==
  {r \in Requests : lrq_type[r] = "lrq" /\ lrq_lock[r] = l /\ lrq_state[r] = s}

\* What the lock manager is for: two requests for one lock never hold
\* incompatible levels, whoever granted them and in whatever order conversions,
\* purges and releases came (grant, post_pending, internal_convert).
GrantedCompatible ==
  \A r1, r2 \in Requests :
    /\ r1 # r2
    /\ lrq_type[r1] = "lrq" /\ lrq_type[r2] = "lrq"
    /\ lrq_lock[r1] = lrq_lock[r2]
    => compatibility(lrq_state[r1], lrq_state[r2])

\* The counters that the code maintains step by step (lbl_counts,
\* lbl_pending_lrq_count, lbl_state) are what a recount gives: validate_lock.
CountersMatch ==
  \A l \in Locks :
    /\ \A s \in LCK_null .. LCK_EX : lbl_counts[l][s] = Cardinality(Holders(l, s))
    /\ lbl_pending_lrq_count[l] =
         Cardinality({r \in ToSet(lbl_requests[l]) : "pending" \in lrq_flags[r]})
    /\ holder = NoThread => lbl_state[l] = lock_state(lbl_counts[l])

\* No grant is forgotten: when nobody is in the table, the first request that
\* waits for a lock is held up by what others hold, a conversion not by what it
\* holds itself (post_pending is called wherever something is given up).  Only
\* the victim of a deadlock, which another thread rejected, may still have to
\* call it.
PendingJustified ==
  holder = NoThread =>
    \A l \in Locks, r \in Requests : FirstPending(l, r) =>
      \E b \in ToSet(lbl_requests[l]) \ {r} :
        \/ ~compatibility(lrq_requested[r], lrq_state[b])
        \/ "rejected" \in lrq_flags[b] /\ (call[b] # NoCall \/ Home[lrq_owner[b]] \notin running)

\* The blocking queue of an owner holds the requests flagged as blocking and
\* the reposts, each exactly as long as its AST is due (validate_owner); a
\* request that is released or purged leaves nothing behind.
BlocksMatchFlags ==
  \A o \in Owners :
    own_blocks[o] = {r \in Requests : /\ lrq_owner[r] = o
                                      /\ lrq_type[r] = "repost" \/ "blocking" \in lrq_flags[r]}

\* A signalled owner of a live process is served: someone runs blocking_action
\* for it, or the blocking thread of its process will look at it.  The event is
\* cleared before the owners are looked at, so no signal is lost in between.
SignalServed ==
  \A o \in lhb_owners :
    "signaled" \in own_flags[o] /\ own_count[o] > 0 /\ Home[o] \in running =>
      \/ \E t \in Threads : thread[t].serving = o
      \/ prc_blocking[Home[o]]
      \/ holder = Home[o] \/ thread[Home[o]].pc = "ast"

\* An owner block is not freed under an AST routine that runs for it:
\* shutdownOwner waits for own_ast_count, which several threads maintain.
AstOwnerPresent ==
  \A t \in Threads : thread[t].pc = "ast" =>
    thread[t].serving \in lhb_owners /\ own_ast_count[thread[t].serving] > 0

\* A thread that sleeps for a request that was granted or rejected meanwhile
\* has been woken up (post_wakeup sees its own_waits).
NoLostWakeup ==
  \A r \in Requests :
    thread[r].pc = "sleep" /\ ~Pending(r) =>
      "wakeup" \in own_flags[lrq_owner[r]] \/ lrq_owner[r] \in Shared

\* What lck.cpp records of a lock is the level the lock table has granted.
PhysicalMatches ==
  \A r \in Requests :
    lrq_type[r] = "lrq" /\ call[r] = NoCall /\ Home[lrq_owner[r]] \in running =>
      lck_physical[r] = lrq_state[r]

\* No process takes a granted level away from an owner of another live process:
\* purging is for the dead, and a grant to one is no loss to another.
LiveLocksKept ==
  [][\A r \in Requests :
       /\ lrq_type[r] = "lrq" /\ ~Pending(r)
       /\ Home[lrq_owner[r]] \in running
       /\ lrq_type'[r] # "lrq" \/ lrq_state'[r] < lrq_state[r]
       => Home[lrq_owner[r]] = (IF holder = NoThread THEN ProcessOf(holder)' ELSE ProcessOf(holder))]_vars

\* A thread whose call may wait is in it.
Waiting(r) == call[r] # NoCall /\ Pending(r)

\* q is held up by what b has been granted.
HeldUp(q, b) ==
  /\ b \in ToSet(lbl_requests[lrq_lock[q]]) \ {q}
  /\ ~compatibility(lrq_requested[q], lrq_state[b])

\* The requests whose threads wait without a timeout.
Patient == {r \in Requests : Waiting(r) /\ "wait_timeout" \notin lrq_flags[r]}

\* r is caught in a deadlock: it belongs to a set of requests, all waiting
\* without a timeout, each held up by what the owner of another one holds.
Deadlocked(r) ==
  \E S \in SUBSET Patient :
    r \in S /\ \A q \in S : \E b \in Requests : HeldUp(q, b) /\ \E s \in S : lrq_owner[s] = lrq_owner[b]

\* A deadlock does not escape the scans: of the owners of the requests on it one
\* is yet to scan (deadlock_scan marks an owner as scanned only when it is
\* certain, and whoever starts to wait afterwards is not marked).
DeadlockStillScanned ==
  \A r \in Requests : Deadlocked(r) =>
    \E q \in Requests : Deadlocked(q) /\ "scanned" \notin own_flags[lrq_owner[q]]

\* Thread t comes back into the lock table: from eventWait, from an AST routine
\* or from the sleep of shutdownOwner.
Enter(t) ==
  \/ t \in Requests /\ event_wait(t)
  \/ ast_return(t)
  \/ t \in Processes /\ blocking_thread_wake(t)
  \/ t \in Owners /\ shutdownOwner_awake(t)

\* The thread in the lock table goes on.
Inside ==
  /\ holder # NoThread
  /\ (\E r \in Requests : RequestStep(r)) \/ TableStep \/ AstStep

\* Threads run, AST routines return, and a thread that waits for the mutex of
\* the table after its sleep (whose length the scan interval bounds) gets it.
Fairness == WF_vars(Inside) /\ \A t \in Threads : SF_vars(Enter(t))

FairSpec == Spec /\ Fairness

\* Time passes: a wait with a timeout is over at some point.
TimedSpec == FairSpec /\ \A r \in Requests : SF_vars(wait_expired(r))

\* Every deadlock of threads that would wait forever is found by the periodic
\* scans and broken, whoever scans first and whatever earlier scans concluded:
\* what makes a scan uncertain (an AST under way, LRQ_just_granted) passes.
DeadlocksBroken == \A r \in Requests : Deadlocked(r) ~> ~Deadlocked(r)

\* Whoever blocks a waiting request and can be told so is told, if it does not
\* give way before: by the waiter itself, by the blocking thread of its process
\* or, when a signal met a thread on its way out, by a later reminder
\* (post_blockage, signal_owner, blocking_action).
BlockersTold ==
  \A r, b \in Requests :
    Waiting(r) /\ b \in Blockers(r) ~> ~(Waiting(r) /\ b \in Blockers(r))

\* A call with a timeout returns, granted or not, and leaves no request pending,
\* unless its process dies.
TimeoutsReturn ==
  \A r \in Requests :
    (call[r] # NoCall /\ call[r].wait = "timeout") ~>
      (call[r] = NoCall /\ (Pending(r) => Home[lrq_owner[r]] \notin running))

\* deadlock_walk follows a pending conversion to granted requests only, for the
\* fairness of the queue does not apply to it: so a conversion is pending only
\* because of what another request has been granted (or while a request that
\* was rejected has not been cleaned up yet).
ConversionsFollowGrants ==
  holder = NoThread =>
    \A r \in Requests : Pending(r) /\ lrq_state[r] > LCK_null =>
      \E b \in ToSet(lbl_requests[lrq_lock[r]]) \ {r} :
        \/ ~compatibility(lrq_requested[r], lrq_state[b])
        \/ "rejected" \in lrq_flags[b] /\ call[b] # NoCall

\* The owners that post_blockage is going to signal are owners of the table.
SignalsKnownOwners ==
  \A r \in Requests : \A b \in thread[r].rest : b \in lhb_owners \/ own_count[b] = 0

\* No two threads run blocking_action for one owner.
SingleDelivery ==
  \A t1, t2 \in Threads : thread[t1].serving # NoOwner /\ t1 # t2 =>
    thread[t1].serving # thread[t2].serving
=============================================================================
