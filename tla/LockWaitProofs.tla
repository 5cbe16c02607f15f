--------------------------- MODULE LockWaitProofs ---------------------------
(* Proofs about those who wait in LockManager, for any number of owners,     *)
(* processes, locks and requests: no grant is forgotten; and if each owner   *)
(* waits for one request at a time, no deadlock escapes the scans.           *)
EXTENDS LockManagerProofs

-----------------------------------------------------------------------------
(* No grant is forgotten.                                                    *)

\* What request b has been granted is incompatible with what r asks for.
Blocks(b, r) == ~compatibility(lrq_requested[r], lrq_state[b])

\* Another request for the lock of r.
Rival(b, r) == b # r /\ lrq_type[b] = "lrq" /\ lrq_lock[b] = lrq_lock[r]

\* While a post_pending is due, its thread stays in the table, and a request
\* is neither decided on nor left waiting.  A request that is to wait is held up;
\* a new one perhaps only by those before it.  A call that is not in the table has
\* given it up to sleep or for an AST routine.
PostInv ==
  /\ holder = NoThread => posting = NoLock
  /\ holder \in Requests /\ next \in {"grant", "grant_or_que", "wait"} => posting = NoLock /\ purge = {}
  /\ holder \in Requests /\ next = "wait" =>
       \E b \in Requests : /\ Rival(b, holder)
                           /\ \/ Blocks(b, holder)
                              \/ lrq_state[holder] = LCK_none /\ Pending(b)
  /\ holder \in Requests /\ next = "done" => call[holder] = NoCall
  /\ \A r \in Requests : call[r] # NoCall => holder = r \/ thread[r].pc # "idle"

\* A level that is incompatible with the highest level of the others is
\* incompatible with what one of them holds.
LEMMA BlockedByOther ==
  ASSUME LrqOK, NEW l, NEW r \in Requests, NEW counts, CountOthers(counts, l, r),
         NEW a \in LckLevels, ~compatibility(a, lock_state(counts))
  PROVE  \E b \in Requests : /\ b # r /\ lrq_type[b] = "lrq" /\ lrq_lock[b] = l
                             /\ ~compatibility(a, lrq_state[b])
<1> DEFINE m == lock_state(counts)
<1>1. m # LCK_none
  BY Compatible
<1>2. m \in LCK_null .. LCK_EX /\ counts[m] # 0
  BY <1>1, LockState
<1>3. Holders(l, m) \ {r} # {}
  BY <1>2, FS_EmptySet DEF CountOthers
<1> QED
  BY <1>3 DEF Holders

\* A conversion that internal_convert or post_pending does not grant is held up by another
\* request, and so is a new request that is incompatible with the state of the lock.
LEMMA HeldUpByOther ==
  ASSUME LrqOK, LblOK, NEW r \in Requests, lrq_type[r] = "lrq", lrq_lock[r] \in Locks,
         CountsRight(lrq_lock[r]),
         \/ ~compatibility(lrq_requested[r], lock_state(CountsWithout(r)))
         \/ /\ lrq_state[r] = LCK_none /\ StateRight(lrq_lock[r])
            /\ ~compatibility(lrq_requested[r], lbl_state[lrq_lock[r]])
  PROVE  \E b \in Requests : Rival(b, r) /\ Blocks(b, r)
<1>1. CountOthers(CountsWithout(r), lrq_lock[r], r)
  BY OthersCounted
<1>2. lrq_state[r] = LCK_none => CountOthers(lbl_counts[lrq_lock[r]], lrq_lock[r], r)
  BY OthersCounted
<1>3. lrq_requested[r] \in LckLevels
  BY DEF LrqOK
<1>4. CASE ~compatibility(lrq_requested[r], lock_state(CountsWithout(r)))
  BY <1>1, <1>3, <1>4, BlockedByOther DEF Rival, Blocks
<1>5. CASE /\ lrq_state[r] = LCK_none /\ StateRight(lrq_lock[r])
           /\ ~compatibility(lrq_requested[r], lbl_state[lrq_lock[r]])
  BY <1>2, <1>3, <1>5, BlockedByOther DEF Rival, Blocks, StateRight
<1> QED
  BY <1>4, <1>5

\* Every step keeps it.
LEMMA PostStep ==
  ASSUME LrqOK, LblOK, OwnOK, PrcOK, TableOK, CallOK, ThreadInv, UseInv, QueueInv,
         BlockInv, OwnerInv, PendInv, GrantInv,
         \A m \in Locks : PendingRight(m), PostInv, Next
  PROVE  PostInv'
<1> USE ConstantsAssumption DEF ConstantsAssumption, Threads, NoCall, lrqVars, lblVars, ownVars, prcVars,
       tableVars, threadVars, CallOK, TableOK, PostInv, ThreadInv, Pending
<1>1. ASSUME NEW o \in Owners, NEW l \in Locks, NEW level \in Levels, NEW wait \in Waits,
             NEW ast \in Asts, NEW r \in Requests, enqueue(o, l, level, wait, ast, r)
       PROVE  PostInv'
  BY <1>1 DEF enqueue, acquire_shmem, Usable
<1>2. ASSUME NEW q \in Requests, NEW l \in Locks, NEW level \in Levels, NEW wait \in Waits,
             NEW ast \in Asts, NEW r \in Requests, enqueue_prior(q, l, level, wait, ast, r)
       PROVE  PostInv'
  BY <1>2 DEF enqueue_prior, acquire_shmem, Known, Usable, release_request, Free
<1>3. ASSUME NEW r \in Requests, NEW level \in Levels, NEW wait \in Waits,
             NEW ast \in Asts, convert(r, level, wait, ast)
       PROVE  PostInv'
  BY <1>3 DEF convert, acquire_shmem, Known, Usable
<1>4. ASSUME NEW r \in Requests, downgrade(r)
       PROVE  PostInv'
  BY <1>4 DEF downgrade, Reduce, acquire_shmem, Known, Usable
<1>5. ASSUME NEW r \in Requests, dequeue(r)
       PROVE  PostInv'
  BY <1>5 DEF dequeue, Reduce, acquire_shmem, Known, Usable
<1>6. ASSUME NEW o \in Owners, NEW q \in Requests, repost(o, q)
       PROVE  PostInv'
  BY <1>6 DEF repost, acquire_shmem
<1>7. ASSUME NEW o \in Owners, cancelWait(o)
       PROVE  PostInv'
  BY <1>7 DEF cancelWait
<1>8. ASSUME NEW o \in Owners, Usable(o), initializeOwner_again(o)
       PROVE  PostInv'
  BY <1>8 DEF initializeOwner_again
<1>9. ASSUME NEW o \in Owners, initializeOwner(o)
       PROVE  PostInv'
  BY <1>9 DEF initializeOwner, acquire_shmem
<1>10. ASSUME NEW o \in Owners, shutdownOwner(o)
       PROVE  PostInv'
  BY <1>10 DEF shutdownOwner, Usable, Quiet
<1>11. ASSUME NEW p \in Processes, destroy(p)
       PROVE  PostInv'
  BY <1>11 DEF destroy, Quiet
<1>12. ASSUME NEW r \in Requests, enqueue_insert(r)
       PROVE  PostInv'
  BY <1>12 DEF enqueue_insert, At, Goto
<1>13. ASSUME NEW r \in Requests, enqueue_grant(r)
       PROVE  PostInv'
  BY <1>13 DEF enqueue_grant, Succeed, At, Goto, grant
<1>14. ASSUME NEW r \in Requests, grant_or_que_grant(r)
       PROVE  PostInv'
  BY <1>14 DEF grant_or_que_grant, Succeed, At, grant
<1>15. ASSUME NEW r \in Requests, grant_or_que_block(r)
       PROVE  PostInv'
  <2>1. /\ call[r] # NoCall /\ At(r, "grant_or_que") /\ ~GrantNow(r)
        /\ lrq_type[r] = "lrq" /\ lrq_lock[r] \in Locks /\ lrq_state[r] = LCK_none
    BY <1>15 DEF grant_or_que_block, At, UseInv, QueueInv, GrantInv, NewInv
  <2>2. CountsRight(lrq_lock[r]) /\ StateRight(lrq_lock[r])
    BY <2>1 DEF GrantInv, CountInv, SetUp, At
  <2>3. \E b \in Requests : Rival(b, r) /\ (Blocks(b, r) \/ Pending(b))
    <3>1. CASE ~compatibility(lrq_requested[r], lbl_state[lrq_lock[r]])
      BY <2>1, <2>2, <3>1, HeldUpByOther
    <3>2. CASE lbl_pending_lrq_count[lrq_lock[r]] # 0
      <4>1. PendingAt(lrq_lock[r]) # {}
        BY <2>1, <3>2, FS_EmptySet DEF PendingRight
      <4>2. PICK b \in Requests : lrq_lock[b] = lrq_lock[r] /\ Pending(b)
        BY <4>1 DEF PendingAt
      <4>3. lrq_type[b] = "lrq" /\ b # r
        BY <2>1, <4>2 DEF BlockInv, PendInv, At
      <4> QED
        BY <4>2, <4>3 DEF Rival
    <3> QED
      BY <2>1, <3>1, <3>2 DEF GrantNow
  <2>4. /\ \A b \in Requests : (Rival(b, r)' <=> Rival(b, r)) /\ (Blocks(b, r)' <=> Blocks(b, r))
        /\ lrq_state' = lrq_state /\ lrq_flags' = lrq_flags
    BY <1>15 DEF grant_or_que_block, Rival, Blocks
  <2>5. /\ holder' = holder /\ holder = r /\ posting = NoLock /\ purge = {} /\ next' \in {"release", "wait"}
        /\ posting' = posting /\ purge' = purge /\ call' = call /\ thread' = thread
    BY <1>15 DEF grant_or_que_block, At, Goto
  <2> HIDE DEF Threads, ConstantsAssumption, CallOK, TableOK, ThreadInv, NoCall
  <2> QED
    BY <2>1, <2>3, <2>4, <2>5
<1>16. ASSUME NEW r \in Requests, internal_dequeue(r)
       PROVE  PostInv'
  BY <1>16 DEF internal_dequeue, At, release_request, Free
<1>17. ASSUME NEW r \in Requests, internal_convert_grant(r)
       PROVE  PostInv'
  BY <1>17 DEF internal_convert_grant, Succeed, At, grant
<1>18. ASSUME NEW r \in Requests, internal_convert_block(r)
       PROVE  PostInv'
  <2>1. /\ call[r] # NoCall /\ At(r, "convert")
        /\ ~compatibility(lrq_requested[r], lock_state(CountsWithout(r)))
        /\ lrq_type[r] = "lrq" /\ lrq_lock[r] \in Locks
    BY <1>18 DEF internal_convert_block, At, UseInv, QueueInv
  <2>2. CountsRight(lrq_lock[r])
    BY <2>1 DEF GrantInv, CountInv
  <2>3. \E b \in Requests : Rival(b, r) /\ Blocks(b, r)
    BY <2>1, <2>2, HeldUpByOther
  <2>4. \A b \in Requests : (Rival(b, r)' <=> Rival(b, r)) /\ (Blocks(b, r)' <=> Blocks(b, r))
    BY <1>18 DEF internal_convert_block, Rival, Blocks
  <2>5. /\ holder' = holder /\ holder = r /\ posting = NoLock /\ purge = {} /\ next' \in {"undo", "wait"}
        /\ posting' = posting /\ purge' = purge /\ call' = call /\ thread' = thread
    BY <1>18 DEF internal_convert_block, At, Goto
  <2> HIDE DEF Threads, ConstantsAssumption, CallOK, TableOK, ThreadInv, NoCall
  <2> QED
    BY <2>1, <2>3, <2>4, <2>5
<1>19. ASSUME NEW r \in Requests, internal_convert_undo(r)
       PROVE  PostInv'
  BY <1>19 DEF internal_convert_undo, Fail, At, Goto
<1>20. ASSUME NEW r \in Requests, wait_for_request(r)
       PROVE  PostInv'
  BY <1>20 DEF wait_for_request, At, Goto
<1>21. ASSUME NEW r \in Requests, post_blockage(r)
       PROVE  PostInv'
  BY <1>21 DEF post_blockage, At, Goto
<1>22. ASSUME NEW r \in Requests, purge_unreachable(r)
       PROVE  PostInv'
  BY <1>22 DEF purge_unreachable, At
<1>23. ASSUME NEW r \in Requests, NEW b \in Owners, skip_owner(r, b)
       PROVE  PostInv'
  BY <1>23 DEF skip_owner, At
<1>24. ASSUME NEW r \in Requests, NEW b \in Owners, signal_owner(r, b)
       PROVE  PostInv'
  BY <1>24 DEF signal_owner, signal_locally, signal_remotely, signal_fails, At
<1>25. ASSUME NEW r \in Requests, wait_resolved(r)
       PROVE  PostInv'
  BY <1>25 DEF wait_resolved, At, Goto
<1>26. ASSUME NEW r \in Requests, wait_again(r)
       PROVE  PostInv'
  BY <1>26 DEF wait_again, At, Goto
<1>27. ASSUME NEW r \in Requests, wait_sleep(r)
       PROVE  PostInv'
  BY <1>27 DEF wait_sleep, At
<1>28. ASSUME NEW r \in Requests, event_wait(r)
       PROVE  PostInv'
  BY <1>28 DEF event_wait, acquire_shmem
<1>29. ASSUME NEW r \in Requests, wait_expired(r)
       PROVE  PostInv'
  BY <1>29 DEF wait_expired, At
<1>30. ASSUME NEW r \in Requests, wait_woken(r)
       PROVE  PostInv'
  BY <1>30 DEF wait_woken, At, Goto
<1>31. ASSUME NEW r \in Requests, wait_probe(r)
       PROVE  PostInv'
  BY <1>31 DEF wait_probe, At
<1>32. ASSUME NEW r \in Requests, wait_granted(r)
       PROVE  PostInv'
  BY <1>32 DEF wait_granted, Succeed, At, Goto
<1>33. ASSUME NEW r \in Requests, wait_rejected(r)
       PROVE  PostInv'
  BY <1>33 DEF wait_rejected, At
<1>34. ASSUME NEW r \in Requests, NEW v \in Requests, deadlock_found(r, v)
       PROVE  PostInv'
  BY <1>34 DEF deadlock_found, ScanDue, At, Goto
<1>35. ASSUME NEW r \in Requests, deadlock_not_found(r)
       PROVE  PostInv'
  BY <1>35 DEF deadlock_not_found, At, Goto
<1>36. ASSUME NEW r \in Requests, PostPendingGrant(r)
       PROVE  PostInv'
  BY <1>36 DEF PostPendingGrant, grant
<1>37. ASSUME NEW r \in Requests, purge_owner_request(r)
       PROVE  PostInv'
  BY <1>37 DEF purge_owner_request, release_request, Free, Purging, OwnerInv, UseInv
<1>38. ASSUME NEW r \in Requests, purge_owner_repost(r)
       PROVE  PostInv'
  BY <1>38 DEF purge_owner_repost, Free, Purging, OwnerInv, UseInv
<1>39. CASE PostPendingEnd
  BY <1>39 DEF PostPendingEnd
<1>40. ASSUME NEW o \in Owners, purge_owner(o)
       PROVE  PostInv'
  BY <1>40 DEF purge_owner, Purging, OwnerInv, UseInv
<1>41. ASSUME NEW o \in Owners, create_owner(o)
       PROVE  PostInv'
  BY <1>41 DEF create_owner, At
<1>42. ASSUME NEW o \in Owners, shutdownOwner_awake(o)
       PROVE  PostInv'
  BY <1>42 DEF shutdownOwner_awake, acquire_shmem
<1>43. ASSUME NEW p \in Processes, purge_process(p)
       PROVE  PostInv'
  BY <1>43 DEF purge_process, UseInv
<1>44. ASSUME NEW t \in Threads, release_shmem(t)
       PROVE  PostInv'
  BY <1>44 DEF release_shmem, At
<1>45. ASSUME NEW t \in Threads, NEW q \in Requests, blocking_action(t, q)
       PROVE  PostInv'
  BY <1>45 DEF blocking_action, Serving
<1>46. ASSUME NEW t \in Threads, ast_return(t)
       PROVE  PostInv'
  BY <1>46 DEF ast_return, acquire_shmem, AfterAction
<1>47. ASSUME NEW t \in Threads, blocking_action_end(t)
       PROVE  PostInv'
  BY <1>47 DEF blocking_action_end, Serving
<1>48. ASSUME NEW p \in Processes, blocking_thread_wake(p)
       PROVE  PostInv'
  BY <1>48 DEF blocking_thread_wake, acquire_shmem
<1>49. ASSUME NEW p \in Processes, blocking_thread_sleep(p)
       PROVE  PostInv'
  BY <1>49 DEF blocking_thread_sleep, At, Goto
<1>50. ASSUME NEW p \in Processes, NEW o \in Owners, blocking_thread_serve(p, o)
       PROVE  PostInv'
  BY <1>50 DEF blocking_thread_serve, At
<1>51. ASSUME NEW p \in Processes, die(p)
       PROVE  PostInv'
  BY <1>51 DEF die, Idle
<1> QED
  BY <1>1, <1>2, <1>3, <1>4, <1>5, <1>6, <1>7, <1>8, <1>9, <1>10, <1>11, <1>12, <1>13, <1>14, <1>15,
     <1>16, <1>17, <1>18, <1>19, <1>20, <1>21, <1>22, <1>23, <1>24, <1>25, <1>26, <1>27, <1>28,
     <1>29, <1>30, <1>31, <1>32, <1>33, <1>34, <1>35, <1>36, <1>37, <1>38, <1>39, <1>40, <1>41,
     <1>42, <1>43, <1>44, <1>45, <1>46, <1>47, <1>48, <1>49, <1>50, <1>51
     DEF Next, Client, RequestStep, TableStep, AstStep, Crash
\* A request that was rejected, whose thread is still going to call post_pending; if
\* the process of the owner died before it could, whoever purges the owner will.
Leaving(b) ==
  /\ "rejected" \in lrq_flags[b]
  /\ \/ InWait(b)
     \/ holder = b /\ next = "release"
     \/ call[b] = NoCall /\ Home[lrq_owner[b]] \notin running

\* It stays so until post_pending is due on its lock, if only because it is released.
Left(b) == Leaving(b)' \/ posting' = lrq_lock[b] \/ lrq_type'[b] # "lrq"

\* So no rejected request is forgotten.
LEMMA LeavingStep ==
  ASSUME LrqOK, LblOK, OwnOK, PrcOK, TableOK, CallOK, ThreadInv, UseInv, QueueInv,
         BlockInv, OwnerInv, PostInv, Next,
         NEW x \in Requests, lrq_type[x] = "lrq", Leaving(x)
  PROVE  Left(x)
<1> USE ConstantsAssumption DEF ConstantsAssumption, Threads, NoCall, Idle, lrqVars, lblVars, ownVars, prcVars,
       tableVars, threadVars, CallOK, TableOK, LrqOK, PostInv, ThreadInv, Leaving, InWait, Left
<1>1. ASSUME NEW o \in Owners, NEW l \in Locks, NEW level \in Levels, NEW wait \in Waits,
             NEW ast \in Asts, NEW r \in Requests, enqueue(o, l, level, wait, ast, r)
       PROVE  Left(x)
  BY <1>1 DEF enqueue, acquire_shmem, Usable
<1>2. ASSUME NEW q \in Requests, NEW l \in Locks, NEW level \in Levels, NEW wait \in Waits,
             NEW ast \in Asts, NEW r \in Requests, enqueue_prior(q, l, level, wait, ast, r)
       PROVE  Left(x)
  BY <1>2 DEF enqueue_prior, acquire_shmem, Known, Usable, release_request, Free, UseInv
<1>3. ASSUME NEW r \in Requests, NEW level \in Levels, NEW wait \in Waits,
             NEW ast \in Asts, convert(r, level, wait, ast)
       PROVE  Left(x)
  BY <1>3 DEF convert, acquire_shmem, Known, Usable, UseInv
<1>4. ASSUME NEW r \in Requests, downgrade(r)
       PROVE  Left(x)
  BY <1>4 DEF downgrade, Reduce, acquire_shmem, Known, Usable
<1>5. ASSUME NEW r \in Requests, dequeue(r)
       PROVE  Left(x)
  BY <1>5 DEF dequeue, Reduce, acquire_shmem, Known, Usable
<1>6. ASSUME NEW o \in Owners, NEW q \in Requests, repost(o, q)
       PROVE  Left(x)
  BY <1>6 DEF repost, acquire_shmem
<1>7. ASSUME NEW o \in Owners, cancelWait(o)
       PROVE  Left(x)
  BY <1>7 DEF cancelWait
<1>8. ASSUME NEW o \in Owners, Usable(o), initializeOwner_again(o)
       PROVE  Left(x)
  BY <1>8 DEF initializeOwner_again
<1>9. ASSUME NEW o \in Owners, initializeOwner(o)
       PROVE  Left(x)
  BY <1>9 DEF initializeOwner, acquire_shmem
<1>10. ASSUME NEW o \in Owners, shutdownOwner(o)
       PROVE  Left(x)
  BY <1>10 DEF shutdownOwner, Usable, Quiet
<1>11. ASSUME NEW p \in Processes, destroy(p)
       PROVE  Left(x)
  BY <1>11 DEF destroy, Quiet
<1>12. ASSUME NEW r \in Requests, enqueue_insert(r)
       PROVE  Left(x)
  BY <1>12 DEF enqueue_insert, At, Goto
<1>13. ASSUME NEW r \in Requests, enqueue_grant(r)
       PROVE  Left(x)
  BY <1>13 DEF enqueue_grant, Succeed, At, Goto, grant
<1>14. ASSUME NEW r \in Requests, grant_or_que_grant(r)
       PROVE  Left(x)
  BY <1>14 DEF grant_or_que_grant, Succeed, At, grant
<1>15. ASSUME NEW r \in Requests, grant_or_que_block(r)
       PROVE  Left(x)
  BY <1>15 DEF grant_or_que_block, At, Goto
<1>16. ASSUME NEW r \in Requests, internal_dequeue(r)
       PROVE  Left(x)
  BY <1>16 DEF internal_dequeue, At, release_request, Free
<1>17. ASSUME NEW r \in Requests, internal_convert_grant(r)
       PROVE  Left(x)
  BY <1>17 DEF internal_convert_grant, Succeed, At, grant
<1>18. ASSUME NEW r \in Requests, internal_convert_block(r)
       PROVE  Left(x)
  BY <1>18 DEF internal_convert_block, At, Goto
<1>19. ASSUME NEW r \in Requests, internal_convert_undo(r)
       PROVE  Left(x)
  BY <1>19 DEF internal_convert_undo, Fail, At, Goto
<1>20. ASSUME NEW r \in Requests, wait_for_request(r)
       PROVE  Left(x)
  BY <1>20 DEF wait_for_request, At, Goto
<1>21. ASSUME NEW r \in Requests, post_blockage(r)
       PROVE  Left(x)
  BY <1>21 DEF post_blockage, At, Goto
<1>22. ASSUME NEW r \in Requests, purge_unreachable(r)
       PROVE  Left(x)
  BY <1>22 DEF purge_unreachable, At
<1>23. ASSUME NEW r \in Requests, NEW b \in Owners, skip_owner(r, b)
       PROVE  Left(x)
  BY <1>23 DEF skip_owner, At
<1>24. ASSUME NEW r \in Requests, NEW b \in Owners, signal_owner(r, b)
       PROVE  Left(x)
  <2>1. /\ lrq_owner' = lrq_owner /\ lrq_flags' = lrq_flags /\ running' = running /\ call' = call
        /\ holder' = holder /\ next' = next
    BY <1>24 DEF signal_owner
  <2>2. thread'[x].pc = thread[x].pc
    <3>1. CASE signal_locally(r, b)
      BY <3>1 DEF signal_locally
    <3>2. CASE signal_remotely(r, b)
      BY <3>2 DEF signal_remotely
    <3>3. CASE signal_fails(r, b)
      BY <3>3 DEF signal_fails
    <3> QED
      BY <1>24, <3>1, <3>2, <3>3 DEF signal_owner
  <2> QED
    BY <2>1, <2>2
<1>25. ASSUME NEW r \in Requests, wait_resolved(r)
       PROVE  Left(x)
  BY <1>25 DEF wait_resolved, At, Goto
<1>26. ASSUME NEW r \in Requests, wait_again(r)
       PROVE  Left(x)
  BY <1>26 DEF wait_again, At, Goto
<1>27. ASSUME NEW r \in Requests, wait_sleep(r)
       PROVE  Left(x)
  BY <1>27 DEF wait_sleep, At
<1>28. ASSUME NEW r \in Requests, event_wait(r)
       PROVE  Left(x)
  BY <1>28 DEF event_wait, acquire_shmem
<1>29. ASSUME NEW r \in Requests, wait_expired(r)
       PROVE  Left(x)
  BY <1>29 DEF wait_expired, At
<1>30. ASSUME NEW r \in Requests, wait_woken(r)
       PROVE  Left(x)
  BY <1>30 DEF wait_woken, At, Goto
<1>31. ASSUME NEW r \in Requests, wait_probe(r)
       PROVE  Left(x)
  BY <1>31 DEF wait_probe, At
<1>32. ASSUME NEW r \in Requests, wait_granted(r)
       PROVE  Left(x)
  BY <1>32 DEF wait_granted, Succeed, At, Goto
<1>33. ASSUME NEW r \in Requests, wait_rejected(r)
       PROVE  Left(x)
  BY <1>33 DEF wait_rejected, At
<1>34. ASSUME NEW r \in Requests, NEW v \in Requests, deadlock_found(r, v)
       PROVE  Left(x)
  BY <1>34 DEF deadlock_found, ScanDue, At, Goto
<1>35. ASSUME NEW r \in Requests, deadlock_not_found(r)
       PROVE  Left(x)
  BY <1>35 DEF deadlock_not_found, At, Goto
<1>36. ASSUME NEW r \in Requests, PostPendingGrant(r)
       PROVE  Left(x)
  BY <1>36 DEF PostPendingGrant, grant
<1>37. ASSUME NEW r \in Requests, purge_owner_request(r)
       PROVE  Left(x)
  BY <1>37 DEF purge_owner_request, release_request, Free
<1>38. ASSUME NEW r \in Requests, purge_owner_repost(r)
       PROVE  Left(x)
  BY <1>38 DEF purge_owner_repost, Free
<1>39. CASE PostPendingEnd
  BY <1>39 DEF PostPendingEnd
<1>40. ASSUME NEW o \in Owners, purge_owner(o)
       PROVE  Left(x)
  BY <1>40 DEF purge_owner
<1>41. ASSUME NEW o \in Owners, create_owner(o)
       PROVE  Left(x)
  BY <1>41 DEF create_owner, At, OwnerInv, BlockInv
<1>42. ASSUME NEW o \in Owners, shutdownOwner_awake(o)
       PROVE  Left(x)
  BY <1>42 DEF shutdownOwner_awake, acquire_shmem
<1>43. ASSUME NEW p \in Processes, purge_process(p)
       PROVE  Left(x)
  BY <1>43 DEF purge_process
<1>44. ASSUME NEW t \in Threads, release_shmem(t)
       PROVE  Left(x)
  BY <1>44 DEF release_shmem, At
<1>45. ASSUME NEW t \in Threads, NEW q \in Requests, blocking_action(t, q)
       PROVE  Left(x)
  <2>1. /\ running' = running /\ call' = call /\ holder = t /\ thread[t].serving # NoOwner
        /\ \/ holder' = holder /\ next' = next /\ thread'[x].pc = thread[x].pc
           \/ thread'[t].pc = "ast" /\ (x # t => thread'[x].pc = thread[x].pc)
    BY <1>45 DEF blocking_action, Serving
  <2>2. \/ lrq_type'[x] # "lrq"
        \/ lrq_owner'[x] = lrq_owner[x] /\ ("rejected" \in lrq_flags[x] => "rejected" \in lrq_flags'[x])
    BY <1>45 DEF blocking_action, Free
  <2>3. holder = x => next = "signal"
    BY <2>1
  <2> QED
    BY <2>1, <2>2, <2>3
<1>46. ASSUME NEW t \in Threads, ast_return(t)
       PROVE  Left(x)
  BY <1>46 DEF ast_return, acquire_shmem, AfterAction
<1>47. ASSUME NEW t \in Threads, blocking_action_end(t)
       PROVE  Left(x)
  BY <1>47 DEF blocking_action_end, Serving
<1>48. ASSUME NEW p \in Processes, blocking_thread_wake(p)
       PROVE  Left(x)
  BY <1>48 DEF blocking_thread_wake, acquire_shmem
<1>49. ASSUME NEW p \in Processes, blocking_thread_sleep(p)
       PROVE  Left(x)
  BY <1>49 DEF blocking_thread_sleep, At, Goto
<1>50. ASSUME NEW p \in Processes, NEW o \in Owners, blocking_thread_serve(p, o)
       PROVE  Left(x)
  BY <1>50 DEF blocking_thread_serve, At
<1>51. ASSUME NEW p \in Processes, die(p)
       PROVE  Left(x)
  <2>1. /\ lrq_owner' = lrq_owner /\ lrq_flags' = lrq_flags /\ running' = running \ {p}
        /\ holder = NoThread /\ holder' = holder
        /\ \/ call'[x] = call[x] /\ (thread'[x] = thread[x] \/ call[x] = NoCall)
           \/ call'[x] = NoCall /\ call[x] # NoCall /\ Home[call[x].owner] = p
    BY <1>51 DEF die
  <2>2. call[x] # NoCall => lrq_owner[x] = call[x].owner
    BY <2>1 DEF UseInv
  <2> QED
    BY <2>1, <2>2
<1> QED
  BY <1>1, <1>2, <1>3, <1>4, <1>5, <1>6, <1>7, <1>8, <1>9, <1>10, <1>11, <1>12, <1>13, <1>14, <1>15,
     <1>16, <1>17, <1>18, <1>19, <1>20, <1>21, <1>22, <1>23, <1>24, <1>25, <1>26, <1>27, <1>28,
     <1>29, <1>30, <1>31, <1>32, <1>33, <1>34, <1>35, <1>36, <1>37, <1>38, <1>39, <1>40, <1>41,
     <1>42, <1>43, <1>44, <1>45, <1>46, <1>47, <1>48, <1>49, <1>50, <1>51
     DEF Next, Client, RequestStep, TableStep, AstStep, Crash
\* The first pending request for lock l, if there is one, is held up by what another has been granted,
\* or by one that was rejected and whose thread will call post_pending.
Justified(l) ==
  \A r \in Requests : FirstPending(l, r) =>
    \E b \in Requests : Rival(b, r) /\ (Blocks(b, r) \/ Leaving(b))

\* The lock whose post_pending is under way may be an exception.
JustInv == \A l \in Locks \ {posting} : Justified(l)

\* The first pending request is in the queue.
LEMMA FirstTyped ==
  ASSUME LblOK, QueueInv, NEW l \in Locks, NEW r, FirstPending(l, r)
  PROVE  r \in Requests /\ lrq_type[r] = "lrq" /\ lrq_lock[r] = l /\ Pending(r)
<1>1. PICK i \in DOMAIN lbl_requests[l] : lbl_requests[l][i] = r /\ Pending(r)
  BY DEF FirstPending, Pending
<1>2. i \in 1 .. Len(lbl_requests[l]) /\ In(r, lbl_requests[l])
  BY <1>1, QueueMembers
<1>3. r \in Requests
  BY <1>1, <1>2, ElementOfSeq DEF LblOK
<1> QED
  BY <1>1, <1>2, <1>3 DEF QueueInv

\* Lock l stays justified if no other request becomes the first, and those that hold it up
\* keep what they hold.
LEMMA JustKept ==
  ASSUME LblOK, QueueInv, NEW l \in Locks, Justified(l), posting' # l,
         \A r \in Requests : FirstPending(l, r)' =>
           FirstPending(l, r) /\ lrq_requested'[r] = lrq_requested[r] /\ lrq_lock'[r] = l,
         \A b \in Requests : lrq_type[b] = "lrq" /\ lrq_lock[b] = l =>
           /\ lrq_type'[b] = "lrq" /\ lrq_lock'[b] = l /\ lrq_state'[b] = lrq_state[b]
           /\ Leaving(b) => Left(b)
  PROVE  Justified(l)'
<1> SUFFICES ASSUME NEW r \in Requests, FirstPending(l, r)'
             PROVE  \E b \in Requests : Rival(b, r)' /\ (Blocks(b, r)' \/ Leaving(b)')
  BY DEF Justified
<1>1. FirstPending(l, r) /\ lrq_requested'[r] = lrq_requested[r] /\ lrq_lock'[r] = l /\ lrq_lock[r] = l
  BY FirstTyped
<1>2. PICK b \in Requests : Rival(b, r) /\ (Blocks(b, r) \/ Leaving(b))
  BY <1>1 DEF Justified
<1>3. lrq_type[b] = "lrq" /\ lrq_lock[b] = l /\ b # r
  BY <1>1, <1>2 DEF Rival
<1>4. Rival(b, r)'
  BY <1>1, <1>3 DEF Rival
<1>5. Blocks(b, r) => Blocks(b, r)'
  BY <1>1, <1>3 DEF Blocks
<1>6. Leaving(b) => Leaving(b)'
  BY <1>3 DEF Left
<1> QED
  BY <1>2, <1>4, <1>5, <1>6

\* A step has no part in lock l: no request for it comes or goes, gets or loses a level or starts
\* or stops to wait.
SameAt(l) ==
  /\ lbl_requests'[l] = lbl_requests[l]
  /\ \A q \in Requests : lrq_type[q] = "lrq" /\ lrq_lock[q] = l =>
       /\ lrq_type'[q] = "lrq" /\ lrq_lock'[q] = l /\ lrq_state'[q] = lrq_state[q]
       /\ Pending(q)' <=> Pending(q)
       /\ Pending(q) => lrq_requested'[q] = lrq_requested[q]

\* Then the same request is first.
LEMMA FirstSame ==
  ASSUME LblOK, QueueInv, NEW l \in Locks, lbl_requests'[l] = lbl_requests[l],
         \A q \in Requests : lrq_type[q] = "lrq" /\ lrq_lock[q] = l => (Pending(q)' <=> Pending(q)),
         NEW r, FirstPending(l, r)'
  PROVE  FirstPending(l, r)
<1> DEFINE s == lbl_requests[l]
<1>1. \A i \in DOMAIN s : s[i] \in Requests /\ lrq_type[s[i]] = "lrq" /\ lrq_lock[s[i]] = l
  BY QueueMembers DEF ToSet
<1>2. DOMAIN s = 1 .. Len(s) /\ Len(s) \in Nat
  BY QueueMembers DEF LblOK
<1>3. PICK i \in DOMAIN s : /\ s[i] = r /\ "pending" \in lrq_flags'[r]
                            /\ \A j \in 1 .. i - 1 : "pending" \notin lrq_flags'[s[j]]
  BY DEF FirstPending
<1>4. \A j \in 1 .. i - 1 : j \in DOMAIN s
  BY <1>2, <1>3
<1> HIDE DEF s
<1>5. "pending" \in lrq_flags[r] /\ \A j \in 1 .. i - 1 : "pending" \notin lrq_flags[s[j]]
  BY <1>1, <1>3, <1>4 DEF Pending
<1> QED
  BY <1>3, <1>5 DEF FirstPending, s

\* A step that has no part in l keeps it justified.
LEMMA JustSame ==
  ASSUME LblOK, QueueInv, ConstantsAssumption, NEW l \in Locks, posting # l => Justified(l), posting' # l,
         posting' = posting \/ posting = NoLock, SameAt(l),
         \A b \in Requests : lrq_type[b] = "lrq" /\ Leaving(b) => Left(b)
  PROVE  Justified(l)'
<1>1. Justified(l)
  BY DEF ConstantsAssumption
<1>2. \A r \in Requests : FirstPending(l, r)' => FirstPending(l, r)
  BY FirstSame DEF SameAt
<1>3. \A r \in Requests : FirstPending(l, r)' => lrq_requested'[r] = lrq_requested[r] /\ lrq_lock'[r] = l
  BY <1>2, FirstTyped DEF SameAt
<1> QED
  BY <1>1, <1>2, <1>3, JustKept DEF SameAt

\* release_request keeps every lock justified but the one whose post_pending it calls.
LEMMA JustReleased ==
  ASSUME LrqOK, LblOK, QueueInv, ConstantsAssumption, NEW l \in Locks, posting # l => Justified(l), posting' # l,
         posting = NoLock, NEW r \in Requests, release_request(r),
         \A b \in Requests : lrq_type[b] = "lrq" /\ Leaving(b) => Left(b)
  PROVE  Justified(l)'
<1>1. CASE lrq_lock[r] = l
  <2>1. RemoveFirst(lbl_requests[l], r) = <<>>
    BY <1>1 DEF release_request
  <2>2. lbl_requests'[l] = <<>>
    BY <1>1, <2>1 DEF release_request, LblOK
  <2> QED
    BY <2>2 DEF Justified, FirstPending
<1>2. CASE lrq_lock[r] # l
  <2>1. SameAt(l)
    BY <1>2 DEF release_request, Free, SameAt, Pending, LrqOK, LblOK
  <2> QED
    BY <2>1, JustSame
<1> QED
  BY <1>1, <1>2

\* A rejected request justifies those behind it, until its thread calls post_pending.
LEMMA JustRejected ==
  ASSUME LblOK, QueueInv, NEW l \in Locks, NEW v \in Requests, lrq_type[v] = "lrq", lrq_lock[v] = l, Leaving(v)',
         lbl_requests' = lbl_requests, lrq_type' = lrq_type, lrq_lock' = lrq_lock, ~Pending(v)'
  PROVE  Justified(l)'
<1> SUFFICES ASSUME NEW r \in Requests, FirstPending(l, r)' PROVE Rival(v, r)'
  BY DEF Justified
<1>1. Pending(r)' /\ In(r, lbl_requests[l])
  <2>1. PICK i \in DOMAIN lbl_requests[l] : lbl_requests[l][i] = r /\ Pending(r)'
    BY DEF FirstPending, Pending
  <2> QED
    BY <2>1, QueueMembers
<1>2. lrq_lock[r] = l
  BY <1>1 DEF QueueInv
<1> QED
  BY <1>1, <1>2 DEF Rival
\* A request that starts to wait is held up by a rival, or stands behind one that waits.
LEMMA JustWaiting ==
  ASSUME LrqOK, LblOK, QueueInv, ConstantsAssumption, NEW l \in Locks, Justified(l), PostInv,
         NEW r \in Requests, lrq_type[r] = "lrq", lrq_lock[r] = l, ~Pending(r), wait_for_request(r),
         \A b \in Requests : lrq_type[b] = "lrq" /\ Leaving(b) => Left(b)
  PROVE  Justified(l)'
<1> DEFINE s == lbl_requests[l]
           t == lbl_requests'[l]
<1>1. /\ lrq_type' = lrq_type /\ lrq_lock' = lrq_lock /\ lrq_state' = lrq_state
      /\ lrq_requested' = lrq_requested /\ posting' = NoLock
      /\ t = IF lrq_state[r] = LCK_none THEN ToEnd(s, r) ELSE s
  BY DEF wait_for_request, At, Goto, LblOK, ToEnd
<1>2. Pending(r)' /\ \A q \in Requests \ {r} : Pending(q)' <=> Pending(q)
  BY DEF wait_for_request, Pending, LrqOK
<1>3. \E b \in Requests : Rival(b, r) /\ (Blocks(b, r) \/ (lrq_state[r] = LCK_none /\ Pending(b)))
  BY DEF wait_for_request, At, PostInv
<1>4. \A b \in Requests : lrq_type[b] = "lrq" /\ lrq_lock[b] = l /\ Leaving(b) => Leaving(b)'
  BY <1>1 DEF Left, ConstantsAssumption
<1>5. \A a, b \in Requests : (Rival(a, b)' <=> Rival(a, b)) /\ (Blocks(a, b)' <=> Blocks(a, b))
  BY <1>1 DEF Rival, Blocks
<1>6. /\ s \in Seq(Requests) /\ Distinct(s) /\ In(r, s) /\ DOMAIN s = 1 .. Len(s) /\ Len(s) \in Nat
      /\ \A q \in Requests : In(q, s) <=> lrq_type[q] = "lrq" /\ lrq_lock[q] = l
  BY DEF LblOK, QueueInv
<1>7. \A i \in 1 .. Len(s) : s[i] \in Requests
  BY <1>6, ElementOfSeq
<1> HIDE DEF s, t
<1>8. lrq_state[r] = LCK_none =>
        /\ t \in Seq(Requests) /\ Distinct(t) /\ Len(t) = Len(s) /\ t[Len(s)] = r
        /\ \A x : In(x, t) <=> In(x, s)
        /\ \A i, j \in 1 .. Len(s) : i < j /\ s[i] # r /\ s[j] # r =>
             \E a, b \in 1 .. Len(s) : a < b /\ t[a] = s[i] /\ t[b] = s[j]
  <2> DEFINE e == ToEnd(s, r)
  <2>0. s \in Seq(Requests) /\ r \in Requests /\ Distinct(s) /\ In(r, s)
    BY <1>6
  <2>1. e \in Seq(Requests) /\ Distinct(e) /\ Len(e) = Len(s) /\ e[Len(s)] = r
    BY <2>0, MovedToEnd
  <2>2. \A x : In(x, e) <=> In(x, s)
    BY <2>0, MovedToEnd
  <2>3. \A i, j \in 1 .. Len(s) : i < j /\ s[i] # r /\ s[j] # r =>
          \E a, b \in 1 .. Len(s) : a < b /\ e[a] = s[i] /\ e[b] = s[j]
    BY <2>0, MovedToEnd
  <2>4. lrq_state[r] = LCK_none => t = e
    BY <1>1
  <2> HIDE DEF e
  <2> QED
    BY <2>1, <2>2, <2>3, <2>4
<1>9. ASSUME NEW q \in Requests, q # r, FirstPending(l, q)' PROVE FirstPending(l, q)
  <2>1. PICK i \in DOMAIN t : /\ t[i] = q /\ "pending" \in lrq_flags'[q]
                              /\ \A j \in 1 .. i - 1 : "pending" \notin lrq_flags'[t[j]]
    BY <1>9 DEF FirstPending, t
  <2>2. CASE lrq_state[r] # LCK_none
    <3>1. t = s
      BY <1>1, <2>2
    <3>2. \A j \in 1 .. i - 1 : "pending" \notin lrq_flags[s[j]]
      BY <1>2, <1>6, <1>7, <2>1, <3>1 DEF Pending
    <3> QED
      BY <1>2, <1>9, <2>1, <3>1, <3>2 DEF Pending, FirstPending, s
  <2>3. CASE lrq_state[r] = LCK_none
    <3>1. DOMAIN t = 1 .. Len(t) /\ Len(t) \in Nat
      BY <1>6, <1>8, <2>3
    <3>2. In(q, s)
      BY <1>8, <2>1, <2>3, <3>1 DEF In
    <3>3. PICK k \in 1 .. Len(s) : s[k] = q
      BY <3>2 DEF In
    <3>4. ASSUME NEW j \in 1 .. k - 1 PROVE "pending" \notin lrq_flags[s[j]]
      <4>1. j \in 1 .. Len(s) /\ j < k
        BY <1>6, <3>3
      <4>2. CASE s[j] = r
        BY <4>2 DEF Pending
      <4>3. CASE s[j] # r
        <5>1. PICK a, b \in 1 .. Len(t) : a < b /\ t[a] = s[j] /\ t[b] = s[k]
          BY <1>8, <1>9, <2>3, <3>3, <4>1, <4>3
        <5>2. b = i
          BY <1>8, <2>1, <2>3, <3>1, <3>3, <5>1 DEF Distinct
        <5>3. a \in 1 .. i - 1
          BY <3>1, <5>1, <5>2
        <5>4. PICK y \in Requests : y = s[j]
          BY <1>7, <4>1
        <5>5. ~Pending(y)'
          BY <2>1, <5>1, <5>3, <5>4 DEF Pending
        <5> QED
          BY <1>2, <4>3, <5>4, <5>5 DEF Pending
      <4> QED
        BY <4>2, <4>3
    <3>5. "pending" \in lrq_flags[q]
      BY <1>2, <1>9, <2>1 DEF Pending
    <3> QED
      BY <1>6, <3>3, <3>4, <3>5 DEF FirstPending, s
  <2> QED
    BY <2>2, <2>3
<1>10. ASSUME FirstPending(l, r)' PROVE \E b \in Requests : Rival(b, r) /\ Blocks(b, r)
  <2>1. PICK b \in Requests : Rival(b, r) /\ (Blocks(b, r) \/ (lrq_state[r] = LCK_none /\ Pending(b)))
    BY <1>3
  <2>2. ASSUME lrq_state[r] = LCK_none, Pending(b) PROVE FALSE
    <3>1. In(b, t) /\ b # r
      BY <1>6, <1>8, <2>1, <2>2 DEF Rival
    <3>2. PICK a \in 1 .. Len(t) : t[a] = b
      BY <3>1 DEF In
    <3>3. DOMAIN t = 1 .. Len(t) /\ Len(t) \in Nat
      BY <1>6, <1>8, <2>2
    <3>4. PICK i \in DOMAIN t : t[i] = r /\ \A j \in 1 .. i - 1 : "pending" \notin lrq_flags'[t[j]]
      BY <1>10 DEF FirstPending, t
    <3>5. i = Len(t)
      <4>1. Len(t) \in 1 .. Len(t)
        BY <3>2, <3>3
      <4> QED
        BY <1>8, <2>2, <3>3, <3>4, <4>1 DEF Distinct
    <3>6. a \in 1 .. i - 1
      <4>1. a # Len(t)
        BY <1>8, <2>2, <3>1, <3>2
      <4>2. i \in Nat /\ a \in 1 .. i /\ a # i
        BY <3>2, <3>3, <3>5, <4>1
      <4> QED
        BY <4>2
    <3> QED
      BY <1>2, <2>2, <3>1, <3>2, <3>4, <3>6 DEF Pending
  <2> QED
    BY <2>1, <2>2
<1> SUFFICES ASSUME NEW q \in Requests, FirstPending(l, q)'
             PROVE  \E b \in Requests : Rival(b, q)' /\ (Blocks(b, q)' \/ Leaving(b)')
  BY DEF Justified
<1>11. CASE q = r
  BY <1>5, <1>10, <1>11
<1>12. CASE q # r
  <2>1. FirstPending(l, q)
    BY <1>9, <1>12
  <2>2. PICK b \in Requests : Rival(b, q) /\ (Blocks(b, q) \/ Leaving(b))
    BY <2>1 DEF Justified
  <2>3. lrq_type[b] = "lrq" /\ lrq_lock[b] = l
    BY <2>1, <2>2, FirstTyped DEF Rival
  <2> QED
    BY <1>4, <1>5, <2>2, <2>3
<1> QED
  BY <1>11, <1>12

\* post_pending ends when the first pending request is held up, or none is left.
LEMMA JustPosted ==
  ASSUME LrqOK, LblOK, QueueInv, ConstantsAssumption, NEW l \in Locks, posting = l, PostPendingEnd,
         PostInv, GrantInv
  PROVE  Justified(l)'
<1>1. /\ lrq_type' = lrq_type /\ lrq_lock' = lrq_lock /\ lrq_state' = lrq_state
      /\ lrq_requested' = lrq_requested /\ lbl_requests' = lbl_requests
      /\ \A q \in Requests : Pending(q)' <=> Pending(q)
      /\ \A q \in Requests : FirstPending(l, q) => ~Grantable(q)
  BY DEF PostPendingEnd, lblVars, Pending
<1>2. CountsRight(l) /\ StateRight(l)
  BY DEF GrantInv, CountInv, SetUp, PostInv, ConstantsAssumption
<1> SUFFICES ASSUME NEW q \in Requests, FirstPending(l, q)'
             PROVE  \E b \in Requests : Rival(b, q)' /\ Blocks(b, q)'
  BY DEF Justified
<1>3. FirstPending(l, q)
  BY <1>1, FirstSame
<1>4. lrq_type[q] = "lrq" /\ lrq_lock[q] = l
  BY <1>3, FirstTyped
<1>5. \/ ~compatibility(lrq_requested[q], lock_state(CountsWithout(q)))
      \/ lrq_state[q] = LCK_none /\ ~compatibility(lrq_requested[q], lbl_state[lrq_lock[q]])
  BY <1>1, <1>3 DEF Grantable
<1>6. \E b \in Requests : Rival(b, q) /\ Blocks(b, q)
  BY <1>2, <1>4, <1>5, HeldUpByOther
<1> QED
  BY <1>1, <1>6 DEF Rival, Blocks
\* Every step keeps all locks justified, but the one whose post_pending it calls.
LEMMA JustStep ==
  ASSUME LrqOK, LblOK, OwnOK, PrcOK, TableOK, CallOK, ThreadInv, UseInv, QueueInv,
         BlockInv, OwnerInv, PendInv, GrantInv, PostInv, Next,
         NEW m \in Locks, m # posting => Justified(m), m # posting'
  PROVE  Justified(m)'
<1> USE ConstantsAssumption DEF ConstantsAssumption, Threads, NoCall, Idle, lrqVars, lblVars, ownVars, prcVars,
       tableVars, threadVars, CallOK, TableOK, LrqOK, LblOK, PostInv, Pending
<1>0. \A b \in Requests : lrq_type[b] = "lrq" /\ Leaving(b) => Left(b)
  BY LeavingStep
<1> HIDE DEF CallOK, TableOK, LrqOK, LblOK
<1>1. ASSUME NEW o \in Owners, NEW l \in Locks, NEW level \in Levels, NEW wait \in Waits,
             NEW ast \in Asts, NEW r \in Requests, enqueue(o, l, level, wait, ast, r)
       PROVE  Justified(m)'
  BY <1>1, <1>0, JustSame DEF SameAt, enqueue, acquire_shmem, Usable
<1>2. ASSUME NEW q \in Requests, NEW l \in Locks, NEW level \in Levels, NEW wait \in Waits,
             NEW ast \in Asts, NEW r \in Requests, enqueue_prior(q, l, level, wait, ast, r)
       PROVE  Justified(m)'
  BY <1>2, <1>0, JustReleased DEF enqueue_prior, acquire_shmem
<1>3. ASSUME NEW r \in Requests, NEW level \in Levels, NEW wait \in Waits,
             NEW ast \in Asts, convert(r, level, wait, ast)
       PROVE  Justified(m)'
  BY <1>3, <1>0, JustSame DEF SameAt, convert, acquire_shmem, Known, Usable, Known, Usable, PendInv,
     LrqOK
<1>4. ASSUME NEW r \in Requests, downgrade(r)
       PROVE  Justified(m)'
  BY <1>4, <1>0, JustSame DEF SameAt, downgrade, Reduce, acquire_shmem, Known, Usable, Known,
     Usable, PendInv, LrqOK
<1>5. ASSUME NEW r \in Requests, dequeue(r)
       PROVE  Justified(m)'
  BY <1>5, <1>0, JustSame DEF SameAt, dequeue, Reduce, acquire_shmem, Known, Usable, Known, Usable
<1>6. ASSUME NEW o \in Owners, NEW q \in Requests, repost(o, q)
       PROVE  Justified(m)'
  BY <1>6, <1>0, JustSame DEF SameAt, repost, acquire_shmem, BlockInv, LrqOK
<1>7. ASSUME NEW o \in Owners, cancelWait(o)
       PROVE  Justified(m)'
  BY <1>7, <1>0, JustSame DEF SameAt, cancelWait
<1>8. ASSUME NEW o \in Owners, Usable(o), initializeOwner_again(o)
       PROVE  Justified(m)'
  BY <1>8, <1>0, JustSame DEF SameAt, initializeOwner_again
<1>9. ASSUME NEW o \in Owners, initializeOwner(o)
       PROVE  Justified(m)'
  BY <1>9, <1>0, JustSame DEF SameAt, initializeOwner, acquire_shmem
<1>10. ASSUME NEW o \in Owners, shutdownOwner(o)
       PROVE  Justified(m)'
  BY <1>10, <1>0, JustSame DEF SameAt, shutdownOwner, Usable, Quiet
<1>11. ASSUME NEW p \in Processes, destroy(p)
       PROVE  Justified(m)'
  BY <1>11, <1>0, JustSame DEF SameAt, destroy, Quiet
<1>12. ASSUME NEW r \in Requests, enqueue_insert(r)
       PROVE  Justified(m)'
  <2> DEFINE l == call[r].lock
             s == lbl_requests[m]
  <2>1. /\ l \in Locks /\ posting = NoLock /\ posting' = posting /\ lrq_type[r] = "null" /\ "pending" \notin lrq_flags'[r]
        /\ lbl_requests' = [lbl_requests EXCEPT ![l] = Append(@, r)]
        /\ \A q \in Requests \ {r} :
             /\ lrq_type'[q] = lrq_type[q] /\ lrq_lock'[q] = lrq_lock[q] /\ lrq_state'[q] = lrq_state[q]
             /\ lrq_requested'[q] = lrq_requested[q] /\ lrq_flags'[q] = lrq_flags[q]
    <3>1. call[r] \in Calls
      BY <1>12, AtCall DEF enqueue_insert, At
    <3>2. lrq_type[r] = "null"
      BY <1>12, <3>1 DEF enqueue_insert, At, UseInv, ThreadInv
    <3> QED
      BY <1>12, <3>1, <3>2 DEF enqueue_insert, At, Goto, Calls, LrqOK
  <2>2. CASE l # m
    <3>1. SameAt(m)
      BY <2>1, <2>2 DEF SameAt, LblOK
    <3> QED
      BY <1>0, <2>1, <3>1, JustSame
  <2>3. CASE l = m
    <3>1. /\ s \in Seq(Requests) /\ DOMAIN s = 1 .. Len(s) /\ Len(s) \in Nat
          /\ \A i \in DOMAIN s : s[i] \in Requests /\ s[i] # r
      <4>1. \A i \in DOMAIN s : s[i] \in Requests /\ lrq_type[s[i]] = "lrq"
        BY QueueMembers DEF ToSet
      <4>2. s \in Seq(Requests) /\ DOMAIN s = 1 .. Len(s) /\ Len(s) \in Nat
        BY QueueMembers DEF LblOK
      <4> QED
        BY <2>1, <4>1, <4>2
    <3>2. lbl_requests'[m] = Append(s, r)
      BY <2>1, <2>3 DEF LblOK
    <3> HIDE DEF l, s
    <3>3. ASSUME NEW q \in Requests, FirstPending(m, q)' PROVE q # r /\ FirstPending(m, q)
      <4> DEFINE t == Append(s, r)
      <4>1. PICK i \in DOMAIN t : /\ t[i] = q /\ "pending" \in lrq_flags'[q]
                                  /\ \A j \in 1 .. i - 1 : "pending" \notin lrq_flags'[t[j]]
        BY <3>2, <3>3 DEF FirstPending
      <4>2. DOMAIN t = 1 .. Len(s) + 1 /\ t[Len(s) + 1] = r /\ \A j \in 1 .. Len(s) : t[j] = s[j]
        BY <3>1, AppendProperties
      <4> HIDE DEF t
      <4>3. q # r
        BY <2>1, <4>1
      <4>4. i \in 1 .. Len(s) /\ s[i] = q
        BY <3>1, <4>1, <4>2, <4>3
      <4>5. \A j \in 1 .. i - 1 : j \in DOMAIN s /\ t[j] = s[j]
        BY <3>1, <4>2, <4>4
      <4>6. \A j \in 1 .. i - 1 : "pending" \notin lrq_flags[s[j]]
        BY <2>1, <3>1, <4>1, <4>5
      <4>7. "pending" \in lrq_flags[q]
        BY <2>1, <4>1, <4>3
      <4> QED
        BY <3>1, <4>3, <4>4, <4>6, <4>7 DEF FirstPending, s
    <3>4. \A q \in Requests : FirstPending(m, q)' =>
            FirstPending(m, q) /\ lrq_requested'[q] = lrq_requested[q] /\ lrq_lock'[q] = m
      BY <2>1, <3>3, FirstTyped
    <3>5. Justified(m)
      BY <2>1
    <3> QED
      BY <1>0, <2>1, <3>4, <3>5, JustKept
  <2> QED
    BY <2>2, <2>3
<1>13. ASSUME NEW r \in Requests, enqueue_grant(r)
       PROVE  Justified(m)'
  <2>1. posting = NoLock /\ posting' = posting /\ lbl_requests' = lbl_requests
    BY <1>13 DEF enqueue_grant, At, Goto, grant
  <2>2. CASE lrq_lock[r] # m
    <3>1. SameAt(m)
      BY <1>13, <2>2 DEF enqueue_grant, grant, SameAt, LrqOK
    <3> QED
      BY <1>0, <2>1, <3>1, JustSame
  <2>3. CASE lrq_lock[r] = m
    <3>1. \A q \in Requests : lrq_type[q] = "lrq" /\ lrq_lock[q] = m => q = r
      BY <1>13, <2>3 DEF enqueue_grant, At, GrantInv, NewInv
    <3>2. "pending" \notin lrq_flags'[r]
      BY <1>13 DEF enqueue_grant, grant, LrqOK
    <3>3. \A q \in Requests : ~FirstPending(m, q)'
      BY <2>1, <3>1, <3>2, QueueMembers DEF FirstPending, ToSet
    <3> QED
      BY <3>3 DEF Justified
  <2> QED
    BY <2>2, <2>3
<1>14. ASSUME NEW r \in Requests, grant_or_que_grant(r)
       PROVE  Justified(m)'
  <2>1. SameAt(m) /\ posting = NoLock
    BY <1>14 DEF grant_or_que_grant, At, grant, SameAt, LrqOK
  <2> QED
    BY <1>0, <2>1, JustSame
<1>15. ASSUME NEW r \in Requests, grant_or_que_block(r)
       PROVE  Justified(m)'
  BY <1>15, <1>0, JustSame DEF SameAt, grant_or_que_block, At, Goto
<1>16. ASSUME NEW r \in Requests, internal_dequeue(r)
       PROVE  Justified(m)'
  BY <1>16, <1>0, JustReleased DEF internal_dequeue, At
<1>17. ASSUME NEW r \in Requests, internal_convert_grant(r)
       PROVE  Justified(m)'
  <2>1. SameAt(m) /\ posting = NoLock
    BY <1>17 DEF internal_convert_grant, At, grant, SameAt, LrqOK
  <2> QED
    BY <1>0, <2>1, JustSame
<1>18. ASSUME NEW r \in Requests, internal_convert_block(r)
       PROVE  Justified(m)'
  BY <1>18, <1>0, JustSame DEF SameAt, internal_convert_block, At, Goto
<1>19. ASSUME NEW r \in Requests, internal_convert_undo(r)
       PROVE  Justified(m)'
  BY <1>19, <1>0, JustSame DEF SameAt, internal_convert_undo, Fail, At, Goto, LrqOK, PendInv
<1>20. ASSUME NEW r \in Requests, wait_for_request(r)
       PROVE  Justified(m)'
  <2>1. /\ posting = NoLock /\ posting' = posting /\ ~Pending(r) /\ lrq_type[r] = "lrq"
    BY <1>20 DEF wait_for_request, At, Goto, PendInv, UseInv, ThreadInv
  <2>2. CASE lrq_lock[r] = m
    <3>1. Justified(m)
      BY <2>1
    <3> QED
      BY <1>0, <1>20, <2>1, <2>2, <3>1, JustWaiting
  <2>3. CASE lrq_lock[r] # m
    <3>1. SameAt(m)
      BY <1>20, <2>3 DEF wait_for_request, SameAt, LrqOK, LblOK
    <3> QED
      BY <1>0, <2>1, <3>1, JustSame
  <2> QED
    BY <2>2, <2>3
<1>21. ASSUME NEW r \in Requests, post_blockage(r)
       PROVE  Justified(m)'
  BY <1>21, <1>0, JustSame DEF SameAt, post_blockage, At, Goto, LrqOK
<1>22. ASSUME NEW r \in Requests, purge_unreachable(r)
       PROVE  Justified(m)'
  BY <1>22, <1>0, JustSame DEF SameAt, purge_unreachable, At
<1>23. ASSUME NEW r \in Requests, NEW b \in Owners, skip_owner(r, b)
       PROVE  Justified(m)'
  BY <1>23, <1>0, JustSame DEF SameAt, skip_owner, At
<1>24. ASSUME NEW r \in Requests, NEW b \in Owners, signal_owner(r, b)
       PROVE  Justified(m)'
  BY <1>24, <1>0, JustSame DEF SameAt, signal_owner, signal_locally, signal_remotely, signal_fails,
     At
<1>25. ASSUME NEW r \in Requests, wait_resolved(r)
       PROVE  Justified(m)'
  BY <1>25, <1>0, JustSame DEF SameAt, wait_resolved, At, Goto
<1>26. ASSUME NEW r \in Requests, wait_again(r)
       PROVE  Justified(m)'
  BY <1>26, <1>0, JustSame DEF SameAt, wait_again, At, Goto
<1>27. ASSUME NEW r \in Requests, wait_sleep(r)
       PROVE  Justified(m)'
  BY <1>27, <1>0, JustSame DEF SameAt, wait_sleep, At
<1>28. ASSUME NEW r \in Requests, event_wait(r)
       PROVE  Justified(m)'
  BY <1>28, <1>0, JustSame DEF SameAt, event_wait, acquire_shmem
<1>29. ASSUME NEW r \in Requests, wait_expired(r)
       PROVE  Justified(m)'
  <2>1. /\ posting = NoLock /\ posting' = posting /\ lrq_type' = lrq_type /\ lrq_lock' = lrq_lock
        /\ lbl_requests' = lbl_requests /\ lrq_owner' = lrq_owner /\ lrq_state' = lrq_state
        /\ lrq_requested' = lrq_requested /\ call' = call /\ thread' = thread /\ running' = running /\ holder' = holder
        /\ lrq_flags' = [lrq_flags EXCEPT ![r] = (@ \cup {"rejected"}) \ {"pending"}]
    BY <1>29 DEF wait_expired, At
  <2>2. Pending(r) /\ lrq_type[r] = "lrq"
    BY <1>29 DEF wait_expired, BlockInv
  <2>3. ~Pending(r)' /\ "rejected" \in lrq_flags'[r]
    BY <2>1 DEF LrqOK
  <2>4. Leaving(r)'
    BY <1>29, <2>3 DEF wait_expired, At, Leaving, InWait
  <2>5. CASE lrq_lock[r] = m
    BY <2>1, <2>2, <2>3, <2>4, <2>5, JustRejected
  <2>6. CASE lrq_lock[r] # m
    <3>1. SameAt(m)
      BY <2>1, <2>6 DEF SameAt, LrqOK
    <3> QED
      BY <1>0, <2>1, <3>1, JustSame
  <2> QED
    BY <2>5, <2>6
<1>30. ASSUME NEW r \in Requests, wait_woken(r)
       PROVE  Justified(m)'
  BY <1>30, <1>0, JustSame DEF SameAt, wait_woken, At, Goto, LrqOK
<1>31. ASSUME NEW r \in Requests, wait_probe(r)
       PROVE  Justified(m)'
  BY <1>31, <1>0, JustSame DEF SameAt, wait_probe, At
<1>32. ASSUME NEW r \in Requests, wait_granted(r)
       PROVE  Justified(m)'
  BY <1>32, <1>0, JustSame DEF SameAt, wait_granted, Succeed, At, Goto, LrqOK
<1>33. ASSUME NEW r \in Requests, wait_rejected(r)
       PROVE  Justified(m)'
  BY <1>33, <1>0, JustSame DEF SameAt, wait_rejected, At, LrqOK
<1>34. ASSUME NEW r \in Requests, NEW v \in Requests, deadlock_found(r, v)
       PROVE  Justified(m)'
  <2>1. /\ posting = NoLock /\ posting' = posting /\ lrq_type' = lrq_type /\ lrq_lock' = lrq_lock
        /\ lbl_requests' = lbl_requests /\ lrq_owner' = lrq_owner /\ lrq_state' = lrq_state
        /\ lrq_requested' = lrq_requested /\ call' = call /\ thread' = thread /\ running' = running /\ holder' = holder
        /\ lrq_flags' = [lrq_flags EXCEPT ![v] = (@ \cup {"rejected"}) \ {"pending"}]
    BY <1>34 DEF deadlock_found, ScanDue, At, Goto
  <2>2. Pending(v) /\ lrq_type[v] = "lrq"
    BY <1>34 DEF deadlock_found, Victims, Pursued, BlockInv
  <2>3. ~Pending(v)' /\ "rejected" \in lrq_flags'[v]
    BY <2>1 DEF LrqOK
  <2>4. Leaving(v)'
    <3>1. holder = r /\ next' = "loop"
      BY <1>34 DEF deadlock_found, ScanDue, At, Goto
    <3>2. call[v] # NoCall \/ Home[lrq_owner[v]] \notin running
      BY <2>2 DEF PendInv
    <3>3. call[v] # NoCall => Home[lrq_owner[v]] \in running
      BY <2>2 DEF UseInv
    <3>4. call[v] # NoCall => v = r \/ thread[v].pc # "idle"
      BY <3>1
    <3> QED
      BY <2>1, <2>3, <3>1, <3>2, <3>3, <3>4 DEF Leaving, InWait
  <2>5. CASE lrq_lock[v] = m
    BY <2>1, <2>2, <2>3, <2>4, <2>5, JustRejected
  <2>6. CASE lrq_lock[v] # m
    <3>1. SameAt(m)
      BY <2>1, <2>6 DEF SameAt, LrqOK
    <3> QED
      BY <1>0, <2>1, <3>1, JustSame
  <2> QED
    BY <2>5, <2>6
<1>35. ASSUME NEW r \in Requests, deadlock_not_found(r)
       PROVE  Justified(m)'
  BY <1>35, <1>0, JustSame DEF SameAt, deadlock_not_found, At, Goto, LrqOK
<1>36. ASSUME NEW r \in Requests, PostPendingGrant(r)
       PROVE  Justified(m)'
  <2>1. lrq_lock[r] # m /\ posting' = posting
    BY <1>36, FirstTyped DEF PostPendingGrant
  <2>2. SameAt(m)
    BY <1>36, <2>1 DEF PostPendingGrant, grant, SameAt, LrqOK
  <2> QED
    BY <1>0, <2>1, <2>2, JustSame
<1>37. ASSUME NEW r \in Requests, purge_owner_request(r)
       PROVE  Justified(m)'
  BY <1>37, <1>0, JustReleased DEF purge_owner_request
<1>38. ASSUME NEW r \in Requests, purge_owner_repost(r)
       PROVE  Justified(m)'
  BY <1>38, <1>0, JustSame DEF SameAt, purge_owner_repost, Free, LrqOK, BlockInv
<1>39. CASE PostPendingEnd
  <2>1. CASE m = posting
    BY <1>39, <2>1, JustPosted
  <2>2. CASE m # posting
    <3>1. /\ lbl_requests' = lbl_requests /\ lrq_type' = lrq_type /\ lrq_lock' = lrq_lock /\ lrq_state' = lrq_state
          /\ lrq_requested' = lrq_requested /\ \A q \in Requests : Pending(q)' <=> Pending(q)
      BY <1>39 DEF PostPendingEnd
    <3>2. SameAt(m)
      BY <3>1 DEF SameAt
    <3>3. \A q \in Requests : FirstPending(m, q)' => FirstPending(m, q)
      BY <3>1, FirstSame
    <3>4. Justified(m)
      BY <2>2
    <3>5. \A q \in Requests : FirstPending(m, q) => lrq_requested'[q] = lrq_requested[q] /\ lrq_lock'[q] = m
      BY <3>1, FirstTyped
    <3> QED
      BY <1>0, <3>1, <3>3, <3>4, <3>5, JustKept
  <2> QED
    BY <2>1, <2>2
<1>40. ASSUME NEW o \in Owners, purge_owner(o)
       PROVE  Justified(m)'
  BY <1>40, <1>0, JustSame DEF SameAt, purge_owner
<1>41. ASSUME NEW o \in Owners, create_owner(o)
       PROVE  Justified(m)'
  BY <1>41, <1>0, JustSame DEF SameAt, create_owner, At
<1>42. ASSUME NEW o \in Owners, shutdownOwner_awake(o)
       PROVE  Justified(m)'
  BY <1>42, <1>0, JustSame DEF SameAt, shutdownOwner_awake, acquire_shmem
<1>43. ASSUME NEW p \in Processes, purge_process(p)
       PROVE  Justified(m)'
  BY <1>43, <1>0, JustSame DEF SameAt, purge_process
<1>44. ASSUME NEW t \in Threads, release_shmem(t)
       PROVE  Justified(m)'
  BY <1>44, <1>0, JustSame DEF SameAt, release_shmem, At
<1>45. ASSUME NEW t \in Threads, NEW q \in Requests, blocking_action(t, q)
       PROVE  Justified(m)'
  <2>1. /\ lbl_requests' = lbl_requests /\ posting' = posting
        /\ \/ /\ lrq_type' = lrq_type /\ lrq_lock' = lrq_lock /\ lrq_state' = lrq_state
              /\ lrq_requested' = lrq_requested
              /\ \A x \in Requests : Pending(x)' <=> Pending(x)
           \/ Free(q) /\ lrq_type[q] = "repost"
    <3>1. CASE "blocking" \in lrq_flags[q]
      BY <1>45, <3>1 DEF blocking_action, LrqOK
    <3>2. CASE "blocking" \notin lrq_flags[q]
      <4>1. Free(q) /\ lbl_requests' = lbl_requests /\ posting' = posting
        BY <1>45, <3>2 DEF blocking_action
      <4>2. thread[t].serving \in Owners
        BY <1>45 DEF blocking_action, Serving, CallOK, Contexts
      <4>3. lrq_type[q] = "repost"
        BY <1>45, <3>2, <4>2 DEF blocking_action, BlockInv
      <4> QED
        BY <4>1, <4>3
    <3> QED
      BY <3>1, <3>2
  <2>2. SameAt(m)
    BY <2>1 DEF SameAt, Free, LrqOK
  <2> QED
    BY <1>0, <2>1, <2>2, JustSame
<1>46. ASSUME NEW t \in Threads, ast_return(t)
       PROVE  Justified(m)'
  BY <1>46, <1>0, JustSame DEF SameAt, ast_return, acquire_shmem, AfterAction
<1>47. ASSUME NEW t \in Threads, blocking_action_end(t)
       PROVE  Justified(m)'
  BY <1>47, <1>0, JustSame DEF SameAt, blocking_action_end, Serving
<1>48. ASSUME NEW p \in Processes, blocking_thread_wake(p)
       PROVE  Justified(m)'
  BY <1>48, <1>0, JustSame DEF SameAt, blocking_thread_wake, acquire_shmem
<1>49. ASSUME NEW p \in Processes, blocking_thread_sleep(p)
       PROVE  Justified(m)'
  BY <1>49, <1>0, JustSame DEF SameAt, blocking_thread_sleep, At, Goto
<1>50. ASSUME NEW p \in Processes, NEW o \in Owners, blocking_thread_serve(p, o)
       PROVE  Justified(m)'
  BY <1>50, <1>0, JustSame DEF SameAt, blocking_thread_serve, At
<1>51. ASSUME NEW p \in Processes, die(p)
       PROVE  Justified(m)'
  BY <1>51, <1>0, JustSame DEF SameAt, die, Idle
<1> QED
  BY <1>1, <1>2, <1>3, <1>4, <1>5, <1>6, <1>7, <1>8, <1>9, <1>10, <1>11, <1>12, <1>13, <1>14, <1>15,
     <1>16, <1>17, <1>18, <1>19, <1>20, <1>21, <1>22, <1>23, <1>24, <1>25, <1>26, <1>27, <1>28,
     <1>29, <1>30, <1>31, <1>32, <1>33, <1>34, <1>35, <1>36, <1>37, <1>38, <1>39, <1>40, <1>41,
     <1>42, <1>43, <1>44, <1>45, <1>46, <1>47, <1>48, <1>49, <1>50, <1>51
     DEF Next, Client, RequestStep, TableStep, AstStep, Crash
\* An empty lock table satisfies both.
LEMMA JustInit ==
  ASSUME Init
  PROVE  PostInv /\ JustInv
<1>1. PostInv
  BY ConstantsAssumption DEF ConstantsAssumption, Init, PostInv, Threads
<1>2. \A l \in Locks, r \in Requests : ~FirstPending(l, r)
  BY DEF Init, FirstPending
<1> QED
  BY <1>1, <1>2 DEF JustInv, Justified

\* Every step keeps both.
LEMMA JustInvStep ==
  KeptInv /\ GrantInv /\ RecountInv /\ PostInv /\ JustInv /\ [Next]_vars => PostInv' /\ JustInv'
<1> SUFFICES ASSUME KeptInv, GrantInv, RecountInv, PostInv, JustInv, [Next]_vars PROVE PostInv' /\ JustInv'
  OBVIOUS
<1>1. LrqOK /\ LblOK /\ OwnOK /\ PrcOK /\ TableOK /\ CallOK
  BY TypeParts DEF KeptInv, TableInv
<1>2. /\ ThreadInv /\ UseInv /\ QueueInv /\ BlockInv /\ OwnerInv
      /\ PendInv /\ \A m \in Locks : PendingRight(m)
  BY DEF KeptInv, TableInv, PresenceInv, RecountInv
<1>3. CASE Next
  <2>1. PostInv'
    BY <1>1, <1>2, <1>3, PostStep
  <2>2. ASSUME NEW m \in Locks, m # posting' PROVE Justified(m)'
    BY <1>1, <1>2, <1>3, <2>2, JustStep DEF JustInv
  <2> QED
    BY <2>1, <2>2 DEF JustInv
<1>4. CASE UNCHANGED vars
  BY <1>4 DEF vars, lrqVars, lblVars, ownVars, prcVars, tableVars, threadVars, PostInv, JustInv, Justified,
     FirstPending, Rival, Blocks, Leaving, InWait, Pending
<1> QED
  BY <1>3, <1>4

\* No grant is forgotten: when nobody is in the table the first waiting request
\* of a lock is held up by what another has been granted, or by the victim of a deadlock scan or
\* a timeout whose thread has still to call post_pending.
THEOREM GrantsRemembered == Spec => []PendingJustified
<1>1. Init => TableInv /\ GrantInv /\ RecountInv /\ PostInv /\ JustInv
  BY TableInvInit, GrantInvInit, RecountInit, JustInit
<1>2. KeptInv /\ GrantInv /\ RecountInv /\ PostInv /\ JustInv /\ [Next]_vars =>
        GrantInv' /\ RecountInv' /\ PostInv' /\ JustInv'
  BY GrantInvStep, RecountStep, JustInvStep DEF KeptInv
<1>3. KeptInv /\ PostInv /\ JustInv => PendingJustified
  <2> SUFFICES ASSUME KeptInv, PostInv, JustInv, holder = NoThread,
                      NEW l \in Locks, NEW r \in Requests, FirstPending(l, r)
               PROVE  \E b \in ToSet(lbl_requests[l]) \ {r} :
                        \/ ~compatibility(lrq_requested[r], lrq_state[b])
                        \/ "rejected" \in lrq_flags[b] /\ (call[b] # NoCall \/ Home[lrq_owner[b]] \notin running)
    BY DEF PendingJustified
  <2>1. LblOK /\ QueueInv /\ ThreadInv
    BY TypeParts DEF KeptInv, TableInv
  <2>2. lrq_lock[r] = l
    BY <2>1, FirstTyped
  <2>3. Justified(l)
    BY ConstantsAssumption DEF ConstantsAssumption, PostInv, JustInv
  <2>4. PICK b \in Requests : Rival(b, r) /\ (Blocks(b, r) \/ Leaving(b))
    BY <2>3 DEF Justified
  <2>5. In(b, lbl_requests[l])
    BY <2>1, <2>2, <2>4 DEF Rival, QueueInv
  <2>6. b \in ToSet(lbl_requests[l]) \ {r}
    BY <2>1, <2>4, <2>5, QueueMembers DEF In, ToSet, Rival
  <2>7. Leaving(b) => /\ "rejected" \in lrq_flags[b]
                      /\ call[b] # NoCall \/ Home[lrq_owner[b]] \notin running
    BY <2>1, ConstantsAssumption DEF ConstantsAssumption, Leaving, InWait, ThreadInv, Threads
  <2> QED
    BY <2>4, <2>6, <2>7 DEF Blocks
<1> QED
  BY <1>1, <1>2, <1>3, KeptInvHolds, PTL DEF Spec
-----------------------------------------------------------------------------
(* No deadlock escapes the scans.                                            *)

\* What is known of the call on r and of its place in the table: only new requests and
\* conversions wait, and who gives something back does not.
Claim(r) ==
  /\ call[r] # NoCall =>
       IF call[r].op \in {"enqueue", "convert"} THEN call[r].level > LCK_null
                                                ELSE call[r].wait = "nowait"
  /\ InWait(r) \/ (holder = r /\ next = "wait") \/ (Pending(r) /\ call[r] # NoCall) =>
       call[r].op \in {"enqueue", "convert"}
  /\ holder = r /\ next \in {"insert", "grant", "grant_or_que"} => call[r].op = "enqueue"
  /\ holder = r /\ next \in {"convert", "undo"} => call[r].op \in {"convert", "downgrade"}

\* Every step keeps it, if nobody asks for LCK_null.
LEMMA ClaimStep ==
  ASSUME LrqOK, LblOK, OwnOK, PrcOK, TableOK, CallOK, ThreadInv, UseInv, QueueInv,
         BlockInv, OwnerInv, PostInv, PendInv, LCK_null \notin Levels, Next,
         NEW x \in Requests, Claim(x)
  PROVE  Claim(x)'
<1> USE ConstantsAssumption DEF ConstantsAssumption, Threads, NoCall, Idle, lrqVars, lblVars, ownVars, prcVars,
       tableVars, threadVars, CallOK, TableOK, LrqOK, PostInv, ThreadInv, Claim, InWait, Pending, LCK_null, LCK_EX
<1>1. ASSUME NEW o \in Owners, NEW l \in Locks, NEW level \in Levels, NEW wait \in Waits,
             NEW ast \in Asts, NEW r \in Requests, enqueue(o, l, level, wait, ast, r)
       PROVE  Claim(x)'
  <2>1. /\ call' = [call EXCEPT ![r] = [op |-> "enqueue", owner |-> o, lock |-> l, level |-> level, wait |-> wait, ast |-> ast]]
        /\ holder = NoThread /\ holder' = r /\ next' = "insert" /\ thread' = thread /\ lrq_flags' = lrq_flags
        /\ call[r] = NoCall
    BY <1>1 DEF enqueue, acquire_shmem
  <2>2. level > LCK_null
    BY <1>1
  <2>3. CASE x = r
    BY <2>1, <2>2, <2>3
  <2>4. CASE x # r
    BY <2>1, <2>4
  <2> QED
    BY <2>3, <2>4
<1>2. ASSUME NEW q \in Requests, NEW l \in Locks, NEW level \in Levels, NEW wait \in Waits,
             NEW ast \in Asts, NEW r \in Requests, enqueue_prior(q, l, level, wait, ast, r)
       PROVE  Claim(x)'
  BY <1>2 DEF enqueue_prior, acquire_shmem, Known, Usable, release_request, Free, UseInv, PendInv
<1>3. ASSUME NEW r \in Requests, NEW level \in Levels, NEW wait \in Waits,
             NEW ast \in Asts, convert(r, level, wait, ast)
       PROVE  Claim(x)'
  <2>1. /\ call' = [call EXCEPT ![r] = [op |-> "convert", owner |-> lrq_owner[r], lock |-> lrq_lock[r],
                                       level |-> level, wait |-> wait, ast |-> ast]]
        /\ holder = NoThread /\ holder' = r /\ next' = "convert" /\ thread' = thread
        /\ lrq_flags' = [lrq_flags EXCEPT ![r] = @ \ {"blocking_seen"}]
        /\ call[r] = NoCall
    BY <1>3 DEF convert, acquire_shmem, Known
  <2>2. level > LCK_null
    BY <1>3
  <2>3. CASE x = r
    BY <2>1, <2>2, <2>3
  <2>4. CASE x # r
    BY <2>1, <2>4
  <2> QED
    BY <2>3, <2>4
<1>4. ASSUME NEW r \in Requests, downgrade(r)
       PROVE  Claim(x)'
  BY <1>4 DEF downgrade, Reduce, acquire_shmem, Known, Usable, UseInv, PendInv
<1>5. ASSUME NEW r \in Requests, dequeue(r)
       PROVE  Claim(x)'
  BY <1>5 DEF dequeue, Reduce, acquire_shmem, Known, Usable, UseInv, PendInv
<1>6. ASSUME NEW o \in Owners, NEW q \in Requests, repost(o, q)
       PROVE  Claim(x)'
  BY <1>6 DEF repost, acquire_shmem
<1>7. ASSUME NEW o \in Owners, cancelWait(o)
       PROVE  Claim(x)'
  BY <1>7 DEF cancelWait
<1>8. ASSUME NEW o \in Owners, Usable(o), initializeOwner_again(o)
       PROVE  Claim(x)'
  BY <1>8 DEF initializeOwner_again
<1>9. ASSUME NEW o \in Owners, initializeOwner(o)
       PROVE  Claim(x)'
  BY <1>9 DEF initializeOwner, acquire_shmem
<1>10. ASSUME NEW o \in Owners, shutdownOwner(o)
       PROVE  Claim(x)'
  BY <1>10 DEF shutdownOwner, Usable, Quiet
<1>11. ASSUME NEW p \in Processes, destroy(p)
       PROVE  Claim(x)'
  BY <1>11 DEF destroy, Quiet
<1>12. ASSUME NEW r \in Requests, enqueue_insert(r)
       PROVE  Claim(x)'
  BY <1>12 DEF enqueue_insert, At, Goto
<1>13. ASSUME NEW r \in Requests, enqueue_grant(r)
       PROVE  Claim(x)'
  BY <1>13 DEF enqueue_grant, Succeed, At, Goto, grant
<1>14. ASSUME NEW r \in Requests, grant_or_que_grant(r)
       PROVE  Claim(x)'
  BY <1>14 DEF grant_or_que_grant, Succeed, At, grant
<1>15. ASSUME NEW r \in Requests, grant_or_que_block(r)
       PROVE  Claim(x)'
  BY <1>15 DEF grant_or_que_block, At, Goto
<1>16. ASSUME NEW r \in Requests, internal_dequeue(r)
       PROVE  Claim(x)'
  BY <1>16 DEF internal_dequeue, At, release_request, Free
<1>17. ASSUME NEW r \in Requests, internal_convert_grant(r)
       PROVE  Claim(x)'
  BY <1>17 DEF internal_convert_grant, Succeed, At, grant
<1>18. ASSUME NEW r \in Requests, internal_convert_block(r)
       PROVE  Claim(x)'
  BY <1>18 DEF internal_convert_block, At, Goto
<1>19. ASSUME NEW r \in Requests, internal_convert_undo(r)
       PROVE  Claim(x)'
  BY <1>19 DEF internal_convert_undo, Fail, At, Goto
<1>20. ASSUME NEW r \in Requests, wait_for_request(r)
       PROVE  Claim(x)'
  BY <1>20 DEF wait_for_request, At, Goto
<1>21. ASSUME NEW r \in Requests, post_blockage(r)
       PROVE  Claim(x)'
  BY <1>21 DEF post_blockage, At, Goto
<1>22. ASSUME NEW r \in Requests, purge_unreachable(r)
       PROVE  Claim(x)'
  BY <1>22 DEF purge_unreachable, At
<1>23. ASSUME NEW r \in Requests, NEW b \in Owners, skip_owner(r, b)
       PROVE  Claim(x)'
  BY <1>23 DEF skip_owner, At
<1>24. ASSUME NEW r \in Requests, NEW b \in Owners, signal_owner(r, b)
       PROVE  Claim(x)'
  BY <1>24 DEF signal_owner, signal_locally, signal_remotely, signal_fails, At
<1>25. ASSUME NEW r \in Requests, wait_resolved(r)
       PROVE  Claim(x)'
  BY <1>25 DEF wait_resolved, At, Goto
<1>26. ASSUME NEW r \in Requests, wait_again(r)
       PROVE  Claim(x)'
  BY <1>26 DEF wait_again, At, Goto
<1>27. ASSUME NEW r \in Requests, wait_sleep(r)
       PROVE  Claim(x)'
  BY <1>27 DEF wait_sleep, At
<1>28. ASSUME NEW r \in Requests, event_wait(r)
       PROVE  Claim(x)'
  BY <1>28 DEF event_wait, acquire_shmem
<1>29. ASSUME NEW r \in Requests, wait_expired(r)
       PROVE  Claim(x)'
  BY <1>29 DEF wait_expired, At
<1>30. ASSUME NEW r \in Requests, wait_woken(r)
       PROVE  Claim(x)'
  BY <1>30 DEF wait_woken, At, Goto
<1>31. ASSUME NEW r \in Requests, wait_probe(r)
       PROVE  Claim(x)'
  BY <1>31 DEF wait_probe, At
<1>32. ASSUME NEW r \in Requests, wait_granted(r)
       PROVE  Claim(x)'
  BY <1>32 DEF wait_granted, Succeed, At, Goto
<1>33. ASSUME NEW r \in Requests, wait_rejected(r)
       PROVE  Claim(x)'
  BY <1>33 DEF wait_rejected, At
<1>34. ASSUME NEW r \in Requests, NEW v \in Requests, deadlock_found(r, v)
       PROVE  Claim(x)'
  BY <1>34 DEF deadlock_found, ScanDue, At, Goto
<1>35. ASSUME NEW r \in Requests, deadlock_not_found(r)
       PROVE  Claim(x)'
  BY <1>35 DEF deadlock_not_found, At, Goto
<1>36. ASSUME NEW r \in Requests, PostPendingGrant(r)
       PROVE  Claim(x)'
  BY <1>36 DEF PostPendingGrant, grant
<1>37. ASSUME NEW r \in Requests, purge_owner_request(r)
       PROVE  Claim(x)'
  BY <1>37 DEF purge_owner_request, release_request, Free
<1>38. ASSUME NEW r \in Requests, purge_owner_repost(r)
       PROVE  Claim(x)'
  BY <1>38 DEF purge_owner_repost, Free
<1>39. CASE PostPendingEnd
  BY <1>39 DEF PostPendingEnd
<1>40. ASSUME NEW o \in Owners, purge_owner(o)
       PROVE  Claim(x)'
  BY <1>40 DEF purge_owner
<1>41. ASSUME NEW o \in Owners, create_owner(o)
       PROVE  Claim(x)'
  BY <1>41 DEF create_owner, At
<1>42. ASSUME NEW o \in Owners, shutdownOwner_awake(o)
       PROVE  Claim(x)'
  BY <1>42 DEF shutdownOwner_awake, acquire_shmem
<1>43. ASSUME NEW p \in Processes, purge_process(p)
       PROVE  Claim(x)'
  BY <1>43 DEF purge_process
<1>44. ASSUME NEW t \in Threads, release_shmem(t)
       PROVE  Claim(x)'
  BY <1>44 DEF release_shmem, At
<1>45. ASSUME NEW t \in Threads, NEW q \in Requests, blocking_action(t, q)
       PROVE  Claim(x)'
  BY <1>45 DEF blocking_action, Serving
<1>46. ASSUME NEW t \in Threads, ast_return(t)
       PROVE  Claim(x)'
  BY <1>46 DEF ast_return, acquire_shmem, AfterAction
<1>47. ASSUME NEW t \in Threads, blocking_action_end(t)
       PROVE  Claim(x)'
  BY <1>47 DEF blocking_action_end, Serving
<1>48. ASSUME NEW p \in Processes, blocking_thread_wake(p)
       PROVE  Claim(x)'
  BY <1>48 DEF blocking_thread_wake, acquire_shmem
<1>49. ASSUME NEW p \in Processes, blocking_thread_sleep(p)
       PROVE  Claim(x)'
  BY <1>49 DEF blocking_thread_sleep, At, Goto
<1>50. ASSUME NEW p \in Processes, NEW o \in Owners, blocking_thread_serve(p, o)
       PROVE  Claim(x)'
  BY <1>50 DEF blocking_thread_serve, At
<1>51. ASSUME NEW p \in Processes, die(p)
       PROVE  Claim(x)'
  BY <1>51 DEF die, Idle
<1> QED
  BY <1>1, <1>2, <1>3, <1>4, <1>5, <1>6, <1>7, <1>8, <1>9, <1>10, <1>11, <1>12, <1>13, <1>14, <1>15,
     <1>16, <1>17, <1>18, <1>19, <1>20, <1>21, <1>22, <1>23, <1>24, <1>25, <1>26, <1>27, <1>28,
     <1>29, <1>30, <1>31, <1>32, <1>33, <1>34, <1>35, <1>36, <1>37, <1>38, <1>39, <1>40, <1>41,
     <1>42, <1>43, <1>44, <1>45, <1>46, <1>47, <1>48, <1>49, <1>50, <1>51
     DEF Next, Client, RequestStep, TableStep, AstStep, Crash
\* r holds what it asked for.
Settled(r) == lrq_state[r] > LCK_null /\ lrq_requested[r] = lrq_state[r]

\* What is known of the levels of r: LCK_null is neither asked for nor held, and a request that is not
\* settled waits, has been rejected or is being worked on; one that holds nothing is new.
Asked(r) ==
  /\ lrq_state[r] # LCK_null
  /\ Pending(r) \/ (holder = r /\ next \in {"grant", "grant_or_que", "convert", "wait"}) =>
       lrq_requested[r] > LCK_null
  /\ lrq_type[r] = "lrq" /\ Home[lrq_owner[r]] \in running /\ ~Settled(r) =>
       /\ call[r] # NoCall
       /\ lrq_state[r] = LCK_none => call[r].op = "enqueue"
       /\ \/ Pending(r) \/ "rejected" \in lrq_flags[r]
          \/ holder = r /\ next \in {"grant", "grant_or_que", "convert", "wait", "undo", "release"}

\* Every step keeps it, if nobody asks for LCK_null.
LEMMA AskedStep ==
  ASSUME LrqOK, LblOK, OwnOK, PrcOK, TableOK, CallOK, ThreadInv, UseInv, QueueInv,
         BlockInv, OwnerInv, PostInv, PendInv, LCK_null \notin Levels, Next,
         NEW x \in Requests, Claim(x), Asked(x)
  PROVE  Asked(x)'
<1> USE ConstantsAssumption DEF ConstantsAssumption, Threads, NoCall, Idle, lrqVars, lblVars, ownVars, prcVars,
       tableVars, threadVars, CallOK, TableOK, LrqOK, PostInv, ThreadInv, Claim, InWait, Pending, Asked, Settled,
       LCK_none, LCK_null, LCK_EX, LckLevels
<1>1. ASSUME NEW o \in Owners, NEW l \in Locks, NEW level \in Levels, NEW wait \in Waits,
             NEW ast \in Asts, NEW r \in Requests, enqueue(o, l, level, wait, ast, r)
       PROVE  Asked(x)'
  BY <1>1 DEF enqueue, acquire_shmem, Usable, UseInv, PendInv
<1>2. ASSUME NEW q \in Requests, NEW l \in Locks, NEW level \in Levels, NEW wait \in Waits,
             NEW ast \in Asts, NEW r \in Requests, enqueue_prior(q, l, level, wait, ast, r)
       PROVE  Asked(x)'
  BY <1>2 DEF enqueue_prior, acquire_shmem, Known, Usable, release_request, Free, UseInv, PendInv
<1>3. ASSUME NEW r \in Requests, NEW level \in Levels, NEW wait \in Waits,
             NEW ast \in Asts, convert(r, level, wait, ast)
       PROVE  Asked(x)'
  <2>1. /\ call' = [call EXCEPT ![r] = [op |-> "convert", owner |-> lrq_owner[r], lock |-> lrq_lock[r],
                                       level |-> level, wait |-> wait, ast |-> ast]]
        /\ holder = NoThread /\ holder' = r /\ next' = "convert" /\ running' = running
        /\ lrq_type' = lrq_type /\ lrq_owner' = lrq_owner /\ lrq_state' = lrq_state
        /\ lrq_requested' = [lrq_requested EXCEPT ![r] = level]
        /\ lrq_flags' = [lrq_flags EXCEPT ![r] = @ \ {"blocking_seen"}]
    BY <1>3 DEF convert, acquire_shmem
  <2>2. level > LCK_null /\ call[r] = NoCall /\ lrq_type[r] = "lrq" /\ Home[lrq_owner[r]] \in running
    BY <1>3 DEF convert, Known, Usable
  <2>3. CASE x = r
    <3>1. lrq_state[r] > LCK_null
      BY <2>2, <2>3
    <3> QED
      BY <2>1, <2>2, <2>3, <3>1
  <2>4. CASE x # r
    BY <2>1, <2>4
  <2> QED
    BY <2>3, <2>4
<1>4. ASSUME NEW r \in Requests, downgrade(r)
       PROVE  Asked(x)'
  BY <1>4 DEF downgrade, Reduce, acquire_shmem, Known, Usable, UseInv, PendInv
<1>5. ASSUME NEW r \in Requests, dequeue(r)
       PROVE  Asked(x)'
  BY <1>5 DEF dequeue, Reduce, acquire_shmem, Known, Usable, UseInv, PendInv
<1>6. ASSUME NEW o \in Owners, NEW q \in Requests, repost(o, q)
       PROVE  Asked(x)'
  BY <1>6 DEF repost, acquire_shmem
<1>7. ASSUME NEW o \in Owners, cancelWait(o)
       PROVE  Asked(x)'
  BY <1>7 DEF cancelWait
<1>8. ASSUME NEW o \in Owners, Usable(o), initializeOwner_again(o)
       PROVE  Asked(x)'
  BY <1>8 DEF initializeOwner_again
<1>9. ASSUME NEW o \in Owners, initializeOwner(o)
       PROVE  Asked(x)'
  BY <1>9 DEF initializeOwner, acquire_shmem
<1>10. ASSUME NEW o \in Owners, shutdownOwner(o)
       PROVE  Asked(x)'
  BY <1>10 DEF shutdownOwner, Usable, Quiet
<1>11. ASSUME NEW p \in Processes, destroy(p)
       PROVE  Asked(x)'
  BY <1>11 DEF destroy, Quiet
<1>12. ASSUME NEW r \in Requests, enqueue_insert(r)
       PROVE  Asked(x)'
  BY <1>12 DEF enqueue_insert, At, Goto, UseInv
<1>13. ASSUME NEW r \in Requests, enqueue_grant(r)
       PROVE  Asked(x)'
  BY <1>13 DEF enqueue_grant, Succeed, At, Goto, grant
<1>14. ASSUME NEW r \in Requests, grant_or_que_grant(r)
       PROVE  Asked(x)'
  BY <1>14 DEF grant_or_que_grant, Succeed, At, grant
<1>15. ASSUME NEW r \in Requests, grant_or_que_block(r)
       PROVE  Asked(x)'
  BY <1>15 DEF grant_or_que_block, At, Goto
<1>16. ASSUME NEW r \in Requests, internal_dequeue(r)
       PROVE  Asked(x)'
  BY <1>16 DEF internal_dequeue, At, release_request, Free
<1>17. ASSUME NEW r \in Requests, internal_convert_grant(r)
       PROVE  Asked(x)'
  BY <1>17 DEF internal_convert_grant, Succeed, At, grant
<1>18. ASSUME NEW r \in Requests, internal_convert_block(r)
       PROVE  Asked(x)'
  BY <1>18 DEF internal_convert_block, At, Goto
<1>19. ASSUME NEW r \in Requests, internal_convert_undo(r)
       PROVE  Asked(x)'
  <2>1. /\ call' = [call EXCEPT ![r] = NoCall] /\ holder = r /\ next = "undo" /\ holder' = holder /\ next' = "done"
        /\ running' = running /\ lrq_type' = lrq_type /\ lrq_owner' = lrq_owner /\ lrq_state' = lrq_state
        /\ lrq_requested' = [lrq_requested EXCEPT ![r] = lrq_state[r]] /\ lrq_flags' = lrq_flags
    BY <1>19 DEF internal_convert_undo, Fail, At, Goto
  <2>2. CASE x = r
    <3>1. ~Pending(r)
      BY <2>1 DEF PendInv
    <3>2. lrq_type[r] = "lrq" /\ Home[lrq_owner[r]] \in running => lrq_state[r] > LCK_null
      BY <2>1, <2>2
    <3> QED
      BY <2>1, <2>2, <3>1, <3>2
  <2>3. CASE x # r
    BY <2>1, <2>3
  <2> QED
    BY <2>2, <2>3
<1>20. ASSUME NEW r \in Requests, wait_for_request(r)
       PROVE  Asked(x)'
  BY <1>20 DEF wait_for_request, At, Goto
<1>21. ASSUME NEW r \in Requests, post_blockage(r)
       PROVE  Asked(x)'
  BY <1>21 DEF post_blockage, At, Goto
<1>22. ASSUME NEW r \in Requests, purge_unreachable(r)
       PROVE  Asked(x)'
  BY <1>22 DEF purge_unreachable, At
<1>23. ASSUME NEW r \in Requests, NEW b \in Owners, skip_owner(r, b)
       PROVE  Asked(x)'
  BY <1>23 DEF skip_owner, At
<1>24. ASSUME NEW r \in Requests, NEW b \in Owners, signal_owner(r, b)
       PROVE  Asked(x)'
  BY <1>24 DEF signal_owner, signal_locally, signal_remotely, signal_fails, At
<1>25. ASSUME NEW r \in Requests, wait_resolved(r)
       PROVE  Asked(x)'
  BY <1>25 DEF wait_resolved, At, Goto
<1>26. ASSUME NEW r \in Requests, wait_again(r)
       PROVE  Asked(x)'
  BY <1>26 DEF wait_again, At, Goto
<1>27. ASSUME NEW r \in Requests, wait_sleep(r)
       PROVE  Asked(x)'
  BY <1>27 DEF wait_sleep, At
<1>28. ASSUME NEW r \in Requests, event_wait(r)
       PROVE  Asked(x)'
  BY <1>28 DEF event_wait, acquire_shmem
<1>29. ASSUME NEW r \in Requests, wait_expired(r)
       PROVE  Asked(x)'
  BY <1>29 DEF wait_expired, At
<1>30. ASSUME NEW r \in Requests, wait_woken(r)
       PROVE  Asked(x)'
  BY <1>30 DEF wait_woken, At, Goto
<1>31. ASSUME NEW r \in Requests, wait_probe(r)
       PROVE  Asked(x)'
  BY <1>31 DEF wait_probe, At
<1>32. ASSUME NEW r \in Requests, wait_granted(r)
       PROVE  Asked(x)'
  <2>1. /\ call' = [call EXCEPT ![r] = NoCall] /\ holder = r /\ next = "exit" /\ holder' = holder /\ next' = "done"
        /\ running' = running /\ lrq_type' = lrq_type /\ lrq_owner' = lrq_owner /\ lrq_state' = lrq_state
        /\ lrq_requested' = lrq_requested /\ "rejected" \notin lrq_flags[r]
        /\ lrq_flags' = [lrq_flags EXCEPT ![r] = @ \ {"wait_timeout"}]
    BY <1>32 DEF wait_granted, Succeed, At, Goto
  <2>2. CASE x = r
    <3>1. ~Pending(r)
      BY <2>1 DEF PendInv
    <3> QED
      BY <2>1, <2>2, <3>1
  <2>3. CASE x # r
    BY <2>1, <2>3
  <2> QED
    BY <2>2, <2>3
<1>33. ASSUME NEW r \in Requests, wait_rejected(r)
       PROVE  Asked(x)'
  BY <1>33 DEF wait_rejected, At
<1>34. ASSUME NEW r \in Requests, NEW v \in Requests, deadlock_found(r, v)
       PROVE  Asked(x)'
  BY <1>34 DEF deadlock_found, ScanDue, At, Goto
<1>35. ASSUME NEW r \in Requests, deadlock_not_found(r)
       PROVE  Asked(x)'
  BY <1>35 DEF deadlock_not_found, At, Goto
<1>36. ASSUME NEW r \in Requests, PostPendingGrant(r)
       PROVE  Asked(x)'
  <2>1. /\ call' = call /\ holder' = holder /\ next' = next
        /\ running' = running /\ lrq_type' = lrq_type /\ lrq_owner' = lrq_owner
        /\ lrq_requested' = lrq_requested /\ lrq_state' = [lrq_state EXCEPT ![r] = lrq_requested[r]]
        /\ lrq_flags' = [lrq_flags EXCEPT ![r] = @ \ {"pending"}]
    BY <1>36 DEF PostPendingGrant, grant
  <2>2. Pending(r)
    BY <1>36 DEF PostPendingGrant, FirstPending
  <2>3. CASE x = r
    BY <2>1, <2>2, <2>3
  <2>4. CASE x # r
    BY <2>1, <2>4
  <2> QED
    BY <2>3, <2>4
<1>37. ASSUME NEW r \in Requests, purge_owner_request(r)
       PROVE  Asked(x)'
  <2>1. /\ call' = call /\ running' = running /\ holder' = holder /\ next' = next /\ posting = NoLock
        /\ \A y \in Requests \ {r} :
             /\ lrq_type'[y] = lrq_type[y] /\ lrq_owner'[y] = lrq_owner[y] /\ lrq_requested'[y] = lrq_requested[y]
             /\ lrq_state'[y] = lrq_state[y] /\ lrq_flags'[y] = lrq_flags[y]
        /\ lrq_type'[r] = "null" /\ lrq_state'[r] = LCK_none /\ lrq_flags'[r] = {}
    BY <1>37 DEF purge_owner_request, release_request, Free
  <2>2. CASE x # r
    BY <2>1, <2>2
  <2>3. CASE x = r
    <3>1. lrq_type[r] = "lrq" /\ Purging(lrq_owner[r])
      BY <1>37 DEF purge_owner_request
    <3>2. ~(holder = r /\ next \in {"grant", "grant_or_que", "convert", "wait"})
      BY <3>1 DEF UseInv, Purging
    <3> QED
      BY <2>1, <2>3, <3>2
  <2> QED
    BY <2>2, <2>3
<1>38. ASSUME NEW r \in Requests, purge_owner_repost(r)
       PROVE  Asked(x)'
  <2>1. /\ call' = call /\ running' = running /\ holder' = holder /\ next' = next
        /\ \A y \in Requests \ {r} :
             /\ lrq_type'[y] = lrq_type[y] /\ lrq_owner'[y] = lrq_owner[y] /\ lrq_requested'[y] = lrq_requested[y]
             /\ lrq_state'[y] = lrq_state[y] /\ lrq_flags'[y] = lrq_flags[y]
        /\ lrq_type'[r] = "null" /\ lrq_state'[r] = LCK_none /\ lrq_flags'[r] = {}
    BY <1>38 DEF purge_owner_repost, Free
  <2>2. CASE x # r
    BY <2>1, <2>2
  <2>3. CASE x = r
    <3>1. lrq_type[r] = "repost"
      BY <1>38 DEF purge_owner_repost
    <3>2. ~(holder = r /\ next \in {"grant", "grant_or_que", "convert", "wait"})
      BY <3>1 DEF UseInv
    <3> QED
      BY <2>1, <2>3, <3>2
  <2> QED
    BY <2>2, <2>3
<1>39. CASE PostPendingEnd
  BY <1>39 DEF PostPendingEnd
<1>40. ASSUME NEW o \in Owners, purge_owner(o)
       PROVE  Asked(x)'
  BY <1>40 DEF purge_owner
<1>41. ASSUME NEW o \in Owners, create_owner(o)
       PROVE  Asked(x)'
  BY <1>41 DEF create_owner, At, OwnerInv, BlockInv
<1>42. ASSUME NEW o \in Owners, shutdownOwner_awake(o)
       PROVE  Asked(x)'
  BY <1>42 DEF shutdownOwner_awake, acquire_shmem
<1>43. ASSUME NEW p \in Processes, purge_process(p)
       PROVE  Asked(x)'
  BY <1>43 DEF purge_process
<1>44. ASSUME NEW t \in Threads, release_shmem(t)
       PROVE  Asked(x)'
  BY <1>44 DEF release_shmem, At
<1>45. ASSUME NEW t \in Threads, NEW q \in Requests, blocking_action(t, q)
       PROVE  Asked(x)'
  <2>1. /\ call' = call /\ running' = running /\ holder = t /\ thread[t].serving # NoOwner
        /\ (holder' = holder /\ next' = next) \/ holder' = NoThread
        /\ \A y \in Requests \ {q} :
             /\ lrq_type'[y] = lrq_type[y] /\ lrq_owner'[y] = lrq_owner[y] /\ lrq_requested'[y] = lrq_requested[y]
             /\ lrq_state'[y] = lrq_state[y] /\ lrq_flags'[y] = lrq_flags[y]
    BY <1>45 DEF blocking_action, Serving, Free
  <2>2. \/ /\ lrq_type'[q] = lrq_type[q] /\ lrq_owner'[q] = lrq_owner[q] /\ lrq_requested'[q] = lrq_requested[q]
           /\ lrq_state'[q] = lrq_state[q]
           /\ lrq_flags'[q] = (lrq_flags[q] \ {"blocking"}) \cup {"blocking_seen"}
        \/ lrq_type'[q] = "null" /\ lrq_state'[q] = LCK_none /\ lrq_flags'[q] = {}
    BY <1>45 DEF blocking_action, Free
  <2>3. holder = x => next = "signal"
    BY <2>1
  <2>4. CASE x = q
    BY <2>1, <2>2, <2>3, <2>4
  <2>5. CASE x # q
    BY <2>1, <2>3, <2>5
  <2> QED
    BY <2>4, <2>5
<1>46. ASSUME NEW t \in Threads, ast_return(t)
       PROVE  Asked(x)'
  BY <1>46 DEF ast_return, acquire_shmem, AfterAction
<1>47. ASSUME NEW t \in Threads, blocking_action_end(t)
       PROVE  Asked(x)'
  BY <1>47 DEF blocking_action_end, Serving
<1>48. ASSUME NEW p \in Processes, blocking_thread_wake(p)
       PROVE  Asked(x)'
  BY <1>48 DEF blocking_thread_wake, acquire_shmem
<1>49. ASSUME NEW p \in Processes, blocking_thread_sleep(p)
       PROVE  Asked(x)'
  BY <1>49 DEF blocking_thread_sleep, At, Goto
<1>50. ASSUME NEW p \in Processes, NEW o \in Owners, blocking_thread_serve(p, o)
       PROVE  Asked(x)'
  BY <1>50 DEF blocking_thread_serve, At
<1>51. ASSUME NEW p \in Processes, die(p)
       PROVE  Asked(x)'
  <2>1. /\ lrq_type' = lrq_type /\ lrq_owner' = lrq_owner /\ lrq_state' = lrq_state /\ lrq_requested' = lrq_requested
        /\ lrq_flags' = lrq_flags /\ running' = running \ {p} /\ holder = NoThread /\ holder' = holder
        /\ call'[x] = call[x] \/ (call'[x] = NoCall /\ call[x] # NoCall /\ Home[call[x].owner] = p)
    BY <1>51 DEF die
  <2>2. call[x] # NoCall /\ lrq_type[x] = "lrq" => lrq_owner[x] = call[x].owner
    BY <2>1 DEF UseInv
  <2> QED
    BY <2>1, <2>2
<1> QED
  BY <1>1, <1>2, <1>3, <1>4, <1>5, <1>6, <1>7, <1>8, <1>9, <1>10, <1>11, <1>12, <1>13, <1>14, <1>15,
     <1>16, <1>17, <1>18, <1>19, <1>20, <1>21, <1>22, <1>23, <1>24, <1>25, <1>26, <1>27, <1>28,
     <1>29, <1>30, <1>31, <1>32, <1>33, <1>34, <1>35, <1>36, <1>37, <1>38, <1>39, <1>40, <1>41,
     <1>42, <1>43, <1>44, <1>45, <1>46, <1>47, <1>48, <1>49, <1>50, <1>51
     DEF Next, Client, RequestStep, TableStep, AstStep, Crash
\* The table of compatible levels, row by row.
Row(a, b) == \/ a \in {0, 1} \/ b \in {0, 1}
             \/ (a = 2 /\ b # 6) \/ (b = 2 /\ a # 6)
             \/ (a = 3 /\ b = 3) \/ (a = 4 /\ b = 4)

LEMMA Rows == \A a, b \in LckLevels : compatibility(a, b) <=> Row(a, b)
<1> TAKE a, b \in LckLevels
<1> USE DEF compatibility, Row, LckLevels, LCK_none, LCK_null, LCK_SR, LCK_PR, LCK_SW, LCK_PW, LCK_EX
<1>0. CASE a = 0
  BY <1>0
<1>1. CASE a = 1
  BY <1>1
<1>2. CASE a = 2
  BY <1>2
<1>3. CASE a = 3
  BY <1>3
<1>4. CASE a = 4
  BY <1>4
<1>5. CASE a = 5
  BY <1>5
<1>6. CASE a = 6
  BY <1>6
<1>7. a \in {0, 1, 2, 3, 4, 5, 6}
  OBVIOUS
<1> HIDE DEF compatibility, Row
<1> QED
  BY <1>0, <1>1, <1>2, <1>3, <1>4, <1>5, <1>6, <1>7

\* The level that downgrade chooses blocks no waiting request which the
\* level held did not block.
LEMMA DowngradeFrees ==
  ASSUME LrqOK, LblOK, QueueInv, NEW r \in Requests, lrq_lock[r] \in Locks,
         NEW q \in ToSet(lbl_requests[lrq_lock[r]]) \ {r}, Pending(q),
         ~compatibility(lrq_requested[q], DowngradeLevel(r))
  PROVE  Blocks(r, q)
<1> DEFINE E == {lrq_requested[x] : x \in {y \in ToSet(lbl_requests[lrq_lock[r]]) \ {r} :
                                             "pending" \in lrq_flags[y]}}
           P == Max({LCK_none} \cup E)
           S == {s \in LCK_none .. lrq_state[r] : s = LCK_none \/ compatibility(P, s)}
           a == lrq_requested[q]
           h == lrq_state[r]
           d == DowngradeLevel(r)
<1>1. \A x \in ToSet(lbl_requests[lrq_lock[r]]) : x \in Requests
  BY QueueMembers
<1>2. a \in LckLevels /\ h \in LckLevels /\ {LCK_none} \cup E \in SUBSET LckLevels
  BY <1>1 DEF LrqOK, LckLevels, LCK_none, LCK_EX
<1>3. P \in LckLevels /\ a <= P
  <2>1. a \in E
    BY DEF Pending
  <2> HIDE DEF E
  <2> QED
    BY <1>2, <2>1, MaxLevel
<1>4. d = Max(S)
  BY DEF DowngradeLevel
<1> HIDE DEF P, d
<1>5. S \in SUBSET LckLevels /\ LCK_none \in S
  BY <1>2 DEF LckLevels, LCK_none, LCK_EX
<1>6. d \in S /\ d \in LckLevels /\ \A s \in S : s <= d
  <2> HIDE DEF S
  <2> QED
    BY <1>4, <1>5, MaxLevel
<1>7. /\ d <= h /\ (d = 0 \/ Row(P, d))
      /\ \A s \in 0 .. 6 : s <= h /\ Row(P, s) => s <= d
  BY <1>2, <1>3, <1>6, Rows DEF LckLevels, LCK_none, LCK_EX
<1>8. ~Row(a, d)
  BY <1>2, <1>6, Rows DEF d
<1> HIDE DEF S, a, h
<1>9. a \in 0 .. 6 /\ h \in 0 .. 6 /\ d \in 0 .. 6 /\ P \in 0 .. 6
  BY <1>2, <1>3, <1>6 DEF LckLevels, LCK_none, LCK_EX
<1>10. ~Row(a, h)
  <2>1. d # h => ~Row(P, h) /\ d < h
    BY <1>7, <1>9
  <2> QED
    BY <1>3, <1>7, <1>8, <1>9, <2>1 DEF Row
<1> QED
  BY <1>2, <1>10, Rows DEF Blocks, a, h

\* A downgrade under way will block no waiting request that the level held does not block.
Lowers(r, q) ==
  /\ holder = r /\ next = "convert" /\ call[r].op = "downgrade"
  /\ Pending(q) /\ q # r /\ lrq_lock[q] = lrq_lock[r]
  /\ ~compatibility(lrq_requested[q], lrq_requested[r])
  => Blocks(r, q)

\* Every step keeps it.
LEMMA LowersStep ==
  ASSUME LrqOK, LblOK, OwnOK, PrcOK, TableOK, CallOK, ThreadInv, UseInv, QueueInv,
         BlockInv, OwnerInv, PostInv, PendInv, Next,
         NEW x \in Requests, NEW y \in Requests, Lowers(x, y)
  PROVE  Lowers(x, y)'
<1> USE ConstantsAssumption DEF ConstantsAssumption, Threads, NoCall, Idle, lrqVars, lblVars, ownVars, prcVars,
       tableVars, threadVars, CallOK, TableOK, LrqOK, PostInv, ThreadInv, Pending, Lowers, Blocks
<1>1. ASSUME NEW o \in Owners, NEW l \in Locks, NEW level \in Levels, NEW wait \in Waits,
             NEW ast \in Asts, NEW r \in Requests, enqueue(o, l, level, wait, ast, r)
       PROVE  Lowers(x, y)'
  BY <1>1 DEF enqueue, acquire_shmem, Usable
<1>2. ASSUME NEW q \in Requests, NEW l \in Locks, NEW level \in Levels, NEW wait \in Waits,
             NEW ast \in Asts, NEW r \in Requests, enqueue_prior(q, l, level, wait, ast, r)
       PROVE  Lowers(x, y)'
  BY <1>2 DEF enqueue_prior, acquire_shmem, Known, Usable, release_request, Free
<1>3. ASSUME NEW r \in Requests, NEW level \in Levels, NEW wait \in Waits,
             NEW ast \in Asts, convert(r, level, wait, ast)
       PROVE  Lowers(x, y)'
  BY <1>3 DEF convert, acquire_shmem, Known, Usable
<1>4. ASSUME NEW r \in Requests, downgrade(r)
       PROVE  Lowers(x, y)'
  <2> DEFINE l == DowngradeLevel(r)
  <2>1. /\ holder = NoThread
        /\ lrq_flags' = lrq_flags \/ lrq_flags' = [lrq_flags EXCEPT ![r] = @ \ {"blocking_seen"}]
        /\ holder' = r /\ lrq_lock' = lrq_lock /\ lrq_state' = lrq_state /\ lrq_type[r] = "lrq"
        /\ next' = "release" \/ lrq_requested' = [lrq_requested EXCEPT ![r] = l]
    BY <1>4 DEF downgrade, Reduce, acquire_shmem, Known
  <2> SUFFICES ASSUME x = r, next' = "convert", Pending(y)', y # r, lrq_lock'[y] = lrq_lock'[r],
                      ~compatibility(lrq_requested'[y], lrq_requested'[r])
               PROVE  Blocks(r, y)'
    BY <2>1
  <2>2. Pending(y) /\ lrq_lock[y] = lrq_lock[r] /\ lrq_requested'[y] = lrq_requested[y] /\ lrq_requested'[r] = l
    <3> HIDE DEF l
    <3> QED
      BY <2>1, DowngradeType DEF l, LckLevels
  <2>3. lrq_type[y] = "lrq"
    BY <2>2 DEF BlockInv
  <2>4. y \in ToSet(lbl_requests[lrq_lock[r]]) \ {r} /\ lrq_lock[r] \in Locks
    BY <2>1, <2>2, <2>3 DEF QueueInv, In, ToSet
  <2> HIDE DEF Blocks, l
  <2>5. Blocks(r, y)
    BY <2>2, <2>4, DowngradeFrees DEF l
  <2> QED
    BY <2>1, <2>2, <2>5 DEF Blocks
<1>5. ASSUME NEW r \in Requests, dequeue(r)
       PROVE  Lowers(x, y)'
  BY <1>5 DEF dequeue, Reduce, acquire_shmem, Known, Usable
<1>6. ASSUME NEW o \in Owners, NEW q \in Requests, repost(o, q)
       PROVE  Lowers(x, y)'
  BY <1>6 DEF repost, acquire_shmem
<1>7. ASSUME NEW o \in Owners, cancelWait(o)
       PROVE  Lowers(x, y)'
  BY <1>7 DEF cancelWait
<1>8. ASSUME NEW o \in Owners, Usable(o), initializeOwner_again(o)
       PROVE  Lowers(x, y)'
  BY <1>8 DEF initializeOwner_again
<1>9. ASSUME NEW o \in Owners, initializeOwner(o)
       PROVE  Lowers(x, y)'
  BY <1>9 DEF initializeOwner, acquire_shmem
<1>10. ASSUME NEW o \in Owners, shutdownOwner(o)
       PROVE  Lowers(x, y)'
  BY <1>10 DEF shutdownOwner, Usable, Quiet
<1>11. ASSUME NEW p \in Processes, destroy(p)
       PROVE  Lowers(x, y)'
  BY <1>11 DEF destroy, Quiet
<1>12. ASSUME NEW r \in Requests, enqueue_insert(r)
       PROVE  Lowers(x, y)'
  BY <1>12 DEF enqueue_insert, At, Goto
<1>13. ASSUME NEW r \in Requests, enqueue_grant(r)
       PROVE  Lowers(x, y)'
  BY <1>13 DEF enqueue_grant, Succeed, At, Goto, grant
<1>14. ASSUME NEW r \in Requests, grant_or_que_grant(r)
       PROVE  Lowers(x, y)'
  BY <1>14 DEF grant_or_que_grant, Succeed, At, grant
<1>15. ASSUME NEW r \in Requests, grant_or_que_block(r)
       PROVE  Lowers(x, y)'
  BY <1>15 DEF grant_or_que_block, At, Goto
<1>16. ASSUME NEW r \in Requests, internal_dequeue(r)
       PROVE  Lowers(x, y)'
  BY <1>16 DEF internal_dequeue, At, release_request, Free
<1>17. ASSUME NEW r \in Requests, internal_convert_grant(r)
       PROVE  Lowers(x, y)'
  BY <1>17 DEF internal_convert_grant, Succeed, At, grant
<1>18. ASSUME NEW r \in Requests, internal_convert_block(r)
       PROVE  Lowers(x, y)'
  BY <1>18 DEF internal_convert_block, At, Goto
<1>19. ASSUME NEW r \in Requests, internal_convert_undo(r)
       PROVE  Lowers(x, y)'
  BY <1>19 DEF internal_convert_undo, Fail, At, Goto
<1>20. ASSUME NEW r \in Requests, wait_for_request(r)
       PROVE  Lowers(x, y)'
  BY <1>20 DEF wait_for_request, At, Goto
<1>21. ASSUME NEW r \in Requests, post_blockage(r)
       PROVE  Lowers(x, y)'
  BY <1>21 DEF post_blockage, At, Goto
<1>22. ASSUME NEW r \in Requests, purge_unreachable(r)
       PROVE  Lowers(x, y)'
  BY <1>22 DEF purge_unreachable, At
<1>23. ASSUME NEW r \in Requests, NEW b \in Owners, skip_owner(r, b)
       PROVE  Lowers(x, y)'
  BY <1>23 DEF skip_owner, At
<1>24. ASSUME NEW r \in Requests, NEW b \in Owners, signal_owner(r, b)
       PROVE  Lowers(x, y)'
  BY <1>24 DEF signal_owner, signal_locally, signal_remotely, signal_fails, At
<1>25. ASSUME NEW r \in Requests, wait_resolved(r)
       PROVE  Lowers(x, y)'
  BY <1>25 DEF wait_resolved, At, Goto
<1>26. ASSUME NEW r \in Requests, wait_again(r)
       PROVE  Lowers(x, y)'
  BY <1>26 DEF wait_again, At, Goto
<1>27. ASSUME NEW r \in Requests, wait_sleep(r)
       PROVE  Lowers(x, y)'
  BY <1>27 DEF wait_sleep, At
<1>28. ASSUME NEW r \in Requests, event_wait(r)
       PROVE  Lowers(x, y)'
  BY <1>28 DEF event_wait, acquire_shmem
<1>29. ASSUME NEW r \in Requests, wait_expired(r)
       PROVE  Lowers(x, y)'
  BY <1>29 DEF wait_expired, At
<1>30. ASSUME NEW r \in Requests, wait_woken(r)
       PROVE  Lowers(x, y)'
  BY <1>30 DEF wait_woken, At, Goto
<1>31. ASSUME NEW r \in Requests, wait_probe(r)
       PROVE  Lowers(x, y)'
  BY <1>31 DEF wait_probe, At
<1>32. ASSUME NEW r \in Requests, wait_granted(r)
       PROVE  Lowers(x, y)'
  BY <1>32 DEF wait_granted, Succeed, At, Goto
<1>33. ASSUME NEW r \in Requests, wait_rejected(r)
       PROVE  Lowers(x, y)'
  BY <1>33 DEF wait_rejected, At
<1>34. ASSUME NEW r \in Requests, NEW v \in Requests, deadlock_found(r, v)
       PROVE  Lowers(x, y)'
  BY <1>34 DEF deadlock_found, ScanDue, At, Goto
<1>35. ASSUME NEW r \in Requests, deadlock_not_found(r)
       PROVE  Lowers(x, y)'
  BY <1>35 DEF deadlock_not_found, At, Goto
<1>36. ASSUME NEW r \in Requests, PostPendingGrant(r)
       PROVE  Lowers(x, y)'
  BY <1>36 DEF PostPendingGrant, grant
<1>37. ASSUME NEW r \in Requests, purge_owner_request(r)
       PROVE  Lowers(x, y)'
  BY <1>37 DEF purge_owner_request, release_request, Free
<1>38. ASSUME NEW r \in Requests, purge_owner_repost(r)
       PROVE  Lowers(x, y)'
  BY <1>38 DEF purge_owner_repost, Free
<1>39. CASE PostPendingEnd
  BY <1>39 DEF PostPendingEnd
<1>40. ASSUME NEW o \in Owners, purge_owner(o)
       PROVE  Lowers(x, y)'
  BY <1>40 DEF purge_owner
<1>41. ASSUME NEW o \in Owners, create_owner(o)
       PROVE  Lowers(x, y)'
  BY <1>41 DEF create_owner, At
<1>42. ASSUME NEW o \in Owners, shutdownOwner_awake(o)
       PROVE  Lowers(x, y)'
  BY <1>42 DEF shutdownOwner_awake, acquire_shmem
<1>43. ASSUME NEW p \in Processes, purge_process(p)
       PROVE  Lowers(x, y)'
  BY <1>43 DEF purge_process
<1>44. ASSUME NEW t \in Threads, release_shmem(t)
       PROVE  Lowers(x, y)'
  BY <1>44 DEF release_shmem, At
<1>45. ASSUME NEW t \in Threads, NEW q \in Requests, blocking_action(t, q)
       PROVE  Lowers(x, y)'
  BY <1>45 DEF blocking_action, Serving
<1>46. ASSUME NEW t \in Threads, ast_return(t)
       PROVE  Lowers(x, y)'
  BY <1>46 DEF ast_return, acquire_shmem, AfterAction
<1>47. ASSUME NEW t \in Threads, blocking_action_end(t)
       PROVE  Lowers(x, y)'
  BY <1>47 DEF blocking_action_end, Serving
<1>48. ASSUME NEW p \in Processes, blocking_thread_wake(p)
       PROVE  Lowers(x, y)'
  BY <1>48 DEF blocking_thread_wake, acquire_shmem
<1>49. ASSUME NEW p \in Processes, blocking_thread_sleep(p)
       PROVE  Lowers(x, y)'
  BY <1>49 DEF blocking_thread_sleep, At, Goto
<1>50. ASSUME NEW p \in Processes, NEW o \in Owners, blocking_thread_serve(p, o)
       PROVE  Lowers(x, y)'
  BY <1>50 DEF blocking_thread_serve, At
<1>51. ASSUME NEW p \in Processes, die(p)
       PROVE  Lowers(x, y)'
  BY <1>51 DEF die, Idle
<1> QED
  BY <1>1, <1>2, <1>3, <1>4, <1>5, <1>6, <1>7, <1>8, <1>9, <1>10, <1>11, <1>12, <1>13, <1>14, <1>15,
     <1>16, <1>17, <1>18, <1>19, <1>20, <1>21, <1>22, <1>23, <1>24, <1>25, <1>26, <1>27, <1>28,
     <1>29, <1>30, <1>31, <1>32, <1>33, <1>34, <1>35, <1>36, <1>37, <1>38, <1>39, <1>40, <1>41,
     <1>42, <1>43, <1>44, <1>45, <1>46, <1>47, <1>48, <1>49, <1>50, <1>51
     DEF Next, Client, RequestStep, TableStep, AstStep, Crash
\* Whoever stands behind a new request that waits holds nothing, as lock ordering is in effect.
Ordered(x, y) ==
  \A l \in Locks :
    Ahead(lbl_requests[l], x, y) /\ Pending(x) /\ lrq_state[x] = LCK_none => lrq_state[y] = LCK_none

\* So it stays when queues only lose requests and nobody behind is granted anything.
LEMMA OrderedKept ==
  ASSUME NEW x, NEW y, Ordered(x, y),
         \A l \in Locks : Ahead(lbl_requests'[l], x, y) => Ahead(lbl_requests[l], x, y),
         Pending(x)' => Pending(x) /\ lrq_state'[x] = lrq_state[x],
         lrq_state'[y] \in {lrq_state[y], LCK_none}
  PROVE  Ordered(x, y)'
BY DEF Ordered

\* So it stays when r is released.
LEMMA OrderedReleased ==
  ASSUME LrqOK, LblOK, QueueInv, NEW x \in Requests, NEW y \in Requests, Ordered(x, y),
         NEW r \in Requests, release_request(r), lrq_type[r] = "lrq"
  PROVE  Ordered(x, y)'
<1> DEFINE k == lrq_lock[r]
<1>1. k \in Locks /\ In(r, lbl_requests[k]) /\ Distinct(lbl_requests[k]) /\ lbl_requests[k] \in Seq(Requests)
  BY DEF QueueInv, LblOK
<1>2. /\ lbl_requests' = [lbl_requests EXCEPT ![k] = RemoveFirst(lbl_requests[k], r)]
      /\ lrq_state' = [lrq_state EXCEPT ![r] = LCK_none]
      /\ lrq_flags' = [lrq_flags EXCEPT ![r] = {}]
  BY DEF release_request, Free
<1>3. \A l \in Locks : Ahead(lbl_requests'[l], x, y) => Ahead(lbl_requests[l], x, y)
  BY <1>1, <1>2, RemovedAhead DEF LblOK
<1>4. Pending(x)' => Pending(x) /\ lrq_state'[x] = lrq_state[x]
  BY <1>2 DEF LrqOK, Pending
<1>5. lrq_state'[y] \in {lrq_state[y], LCK_none}
  BY <1>2 DEF LrqOK
<1> QED
  BY <1>3, <1>4, <1>5, OrderedKept

\* Every step keeps it, if nobody asks for LCK_null.
LEMMA OrderStep ==
  ASSUME LrqOK, LblOK, OwnOK, PrcOK, TableOK, CallOK, ThreadInv, UseInv, QueueInv,
         BlockInv, OwnerInv, PostInv, GrantInv, RecountInv, Next,
         \A r \in Requests : Claim(r) /\ Asked(r),
         NEW x \in Requests, NEW y \in Requests, Ordered(x, y)
  PROVE  Ordered(x, y)'
<1> USE ConstantsAssumption DEF ConstantsAssumption, lrqVars, lblVars, ownVars, prcVars,
       tableVars, threadVars, Pending
<1>0. /\ lbl_requests' = lbl_requests
      /\ Pending(x)' => Pending(x) /\ lrq_state'[x] = lrq_state[x]
      /\ lrq_state'[y] \in {lrq_state[y], LCK_none}
      => Ordered(x, y)'
  BY OrderedKept
<1>1. ASSUME NEW o \in Owners, NEW l \in Locks, NEW level \in Levels, NEW wait \in Waits,
             NEW ast \in Asts, NEW r \in Requests, enqueue(o, l, level, wait, ast, r)
       PROVE  Ordered(x, y)'
  BY <1>1, <1>0 DEF LrqOK, enqueue, acquire_shmem, Usable
<1>2. ASSUME NEW q \in Requests, NEW l \in Locks, NEW level \in Levels, NEW wait \in Waits,
             NEW ast \in Asts, NEW r \in Requests, enqueue_prior(q, l, level, wait, ast, r)
       PROVE  Ordered(x, y)'
  <2>1. lrq_type[q] = "lrq" /\ release_request(q)
    BY <1>2 DEF enqueue_prior, Known
  <2> QED
    BY <2>1, OrderedReleased
<1>3. ASSUME NEW r \in Requests, NEW level \in Levels, NEW wait \in Waits,
             NEW ast \in Asts, convert(r, level, wait, ast)
       PROVE  Ordered(x, y)'
  BY <1>3, <1>0 DEF LrqOK, convert, acquire_shmem, Known, Usable
<1>4. ASSUME NEW r \in Requests, downgrade(r)
       PROVE  Ordered(x, y)'
  BY <1>4, <1>0 DEF LrqOK, downgrade, Reduce
<1>5. ASSUME NEW r \in Requests, dequeue(r)
       PROVE  Ordered(x, y)'
  BY <1>5, <1>0 DEF LrqOK, dequeue, Reduce, acquire_shmem, Known, Usable
<1>6. ASSUME NEW o \in Owners, NEW q \in Requests, repost(o, q)
       PROVE  Ordered(x, y)'
  BY <1>6, <1>0 DEF LrqOK, repost, acquire_shmem
<1>7. ASSUME NEW o \in Owners, cancelWait(o)
       PROVE  Ordered(x, y)'
  BY <1>7, <1>0 DEF LrqOK, cancelWait
<1>8. ASSUME NEW o \in Owners, Usable(o), initializeOwner_again(o)
       PROVE  Ordered(x, y)'
  BY <1>8, <1>0 DEF LrqOK, initializeOwner_again
<1>9. ASSUME NEW o \in Owners, initializeOwner(o)
       PROVE  Ordered(x, y)'
  BY <1>9, <1>0 DEF LrqOK, initializeOwner, acquire_shmem
<1>10. ASSUME NEW o \in Owners, shutdownOwner(o)
       PROVE  Ordered(x, y)'
  BY <1>10, <1>0 DEF LrqOK, shutdownOwner, Usable, Quiet
<1>11. ASSUME NEW p \in Processes, destroy(p)
       PROVE  Ordered(x, y)'
  BY <1>11, <1>0 DEF LrqOK, destroy, Quiet
<1>12. ASSUME NEW r \in Requests, enqueue_insert(r)
       PROVE  Ordered(x, y)'
  <2> DEFINE l == call[r].lock
  <2>1. /\ l \in Locks /\ lrq_type[r] = "null"
        /\ lbl_requests' = [lbl_requests EXCEPT ![l] = Append(@, r)]
        /\ lrq_state' = [lrq_state EXCEPT ![r] = LCK_none]
        /\ lrq_flags' = [lrq_flags EXCEPT ![r] = {}]
    <3>1. call[r] \in Calls
      BY <1>12, AtCall DEF enqueue_insert, At
    <3>2. lrq_type[r] = "null"
      BY <1>12, <3>1 DEF enqueue_insert, At, UseInv, ThreadInv
    <3> QED
      BY <1>12, <3>1, <3>2 DEF enqueue_insert, Calls
  <2>2. lbl_requests[l] \in Seq(Requests) /\ ~In(r, lbl_requests[l])
    BY <2>1 DEF LblOK, QueueInv
  <2> HIDE DEF l
  <2>3. CASE y = r
    BY <2>1, <2>3 DEF LrqOK, Ordered
  <2>4. CASE y # r
    <3>1. \A m \in Locks : Ahead(lbl_requests'[m], x, y) => Ahead(lbl_requests[m], x, y)
      BY <2>1, <2>2, <2>4, AppendAhead DEF LblOK
    <3>2. Pending(x)' => Pending(x) /\ lrq_state'[x] = lrq_state[x]
      BY <2>1 DEF LrqOK
    <3>3. lrq_state'[y] \in {lrq_state[y], LCK_none}
      BY <2>1 DEF LrqOK
    <3> QED
      BY <3>1, <3>2, <3>3, OrderedKept
  <2> QED
    BY <2>3, <2>4
<1>13. ASSUME NEW r \in Requests, enqueue_grant(r)
       PROVE  Ordered(x, y)'
  <2>1. /\ lbl_requests' = lbl_requests
        /\ lrq_flags' = [lrq_flags EXCEPT ![r] = @ \ {"pending"}]
        /\ lrq_state' = [lrq_state EXCEPT ![r] = lrq_requested[r]]
    BY <1>13 DEF enqueue_grant, grant
  <2>2. Pending(x)' => Pending(x) /\ x # r /\ lrq_state'[x] = lrq_state[x]
    BY <2>1 DEF LrqOK
  <2>3. CASE y # r
    BY <1>0, <2>1, <2>2, <2>3 DEF LrqOK
  <2>4. CASE y = r
    <3>1. \A q \in Requests : lrq_type[q] = "lrq" /\ lrq_lock[q] = lrq_lock[r] => q = r
      BY <1>13 DEF enqueue_grant, At, GrantInv, NewInv
    <3>2. \A l \in Locks : Ahead(lbl_requests[l], x, r) => x = r
      BY <3>1 DEF Ahead, QueueInv, In
    <3> QED
      BY <2>1, <2>2, <2>4, <3>2 DEF Ordered
  <2> QED
    BY <2>3, <2>4
<1>14. ASSUME NEW r \in Requests, grant_or_que_grant(r)
       PROVE  Ordered(x, y)'
  <2>1. /\ lbl_requests' = lbl_requests
        /\ lrq_flags' = [lrq_flags EXCEPT ![r] = @ \ {"pending"}]
        /\ lrq_state' = [lrq_state EXCEPT ![r] = lrq_requested[r]]
    BY <1>14 DEF grant_or_que_grant, grant
  <2>2. Pending(x)' => Pending(x) /\ x # r /\ lrq_state'[x] = lrq_state[x]
    BY <2>1 DEF LrqOK
  <2>3. CASE y # r
    BY <1>0, <2>1, <2>2, <2>3 DEF LrqOK
  <2>4. CASE y = r
    <3>1. At(r, "grant_or_que") /\ GrantNow(r) /\ lrq_type[r] = "lrq"
      BY <1>14 DEF grant_or_que_grant, At, UseInv, ThreadInv
    <3>2. lrq_lock[r] \in Locks /\ lrq_requested[r] # LCK_null
      BY <3>1 DEF QueueInv, At, Asked, LCK_null
    <3>3. PendingAt(lrq_lock[r]) = {}
      <4>1. Cardinality(PendingAt(lrq_lock[r])) = 0
        BY <3>1, <3>2 DEF GrantNow, PendingRight, RecountInv
      <4> QED
        BY <4>1, PendingFinite, FS_EmptySet
    <3>4. \A l \in Locks : Ahead(lbl_requests[l], x, r) => ~Pending(x)
      BY <3>1, <3>3 DEF Ahead, QueueInv, In, PendingAt
    <3> QED
      BY <2>1, <2>2, <2>4, <3>4 DEF Ordered
  <2> QED
    BY <2>3, <2>4
<1>15. ASSUME NEW r \in Requests, grant_or_que_block(r)
       PROVE  Ordered(x, y)'
  BY <1>15, <1>0 DEF LrqOK, grant_or_que_block, At, Goto
<1>16. ASSUME NEW r \in Requests, internal_dequeue(r)
       PROVE  Ordered(x, y)'
  <2>1. lrq_type[r] = "lrq" /\ release_request(r)
    BY <1>16 DEF internal_dequeue, At, UseInv, ThreadInv
  <2> QED
    BY <2>1, OrderedReleased
<1>17. ASSUME NEW r \in Requests, internal_convert_grant(r)
       PROVE  Ordered(x, y)'
  <2>1. /\ lbl_requests' = lbl_requests
        /\ lrq_flags' = [lrq_flags EXCEPT ![r] = @ \ {"pending"}]
        /\ lrq_state' = [lrq_state EXCEPT ![r] = lrq_requested[r]]
    BY <1>17 DEF internal_convert_grant, grant
  <2>2. Pending(x)' => Pending(x) /\ x # r /\ lrq_state'[x] = lrq_state[x]
    BY <2>1 DEF LrqOK
  <2>3. CASE y # r
    BY <1>0, <2>1, <2>2, <2>3 DEF LrqOK
  <2>4. CASE y = r
    <3>1. lrq_type[r] = "lrq" /\ At(r, "convert") /\ Home[lrq_owner[r]] \in running
      BY <1>17 DEF internal_convert_grant, At, UseInv, ThreadInv
    <3>2. lrq_state[r] # LCK_none
      BY <3>1 DEF At, Asked, Claim, Settled, LCK_none, LCK_null
    <3> QED
      BY <2>1, <2>2, <2>4, <3>2 DEF Ordered
  <2> QED
    BY <2>3, <2>4
<1>18. ASSUME NEW r \in Requests, internal_convert_block(r)
       PROVE  Ordered(x, y)'
  BY <1>18, <1>0 DEF LrqOK, internal_convert_block, At, Goto
<1>19. ASSUME NEW r \in Requests, internal_convert_undo(r)
       PROVE  Ordered(x, y)'
  BY <1>19, <1>0 DEF LrqOK, internal_convert_undo, Fail, At, Goto
<1>20. ASSUME NEW r \in Requests, wait_for_request(r)
       PROVE  Ordered(x, y)'
  <2> DEFINE l == lrq_lock[r]
             s == lbl_requests[l]
  <2>1. /\ lbl_requests' = [lbl_requests EXCEPT ![l] = IF lrq_state[r] = LCK_none THEN ToEnd(s, r) ELSE s]
        /\ lrq_state' = lrq_state
        /\ \A q \in Requests \ {r} : lrq_flags'[q] = lrq_flags[q]
    BY <1>20 DEF wait_for_request, ToEnd, LrqOK
  <2>2. lrq_type[r] = "lrq"
    BY <1>20 DEF wait_for_request, At, UseInv, ThreadInv
  <2>3. l \in Locks /\ s \in Seq(Requests) /\ Distinct(s) /\ In(r, s)
    BY <2>2 DEF QueueInv, LblOK
  <2>4. CASE x = r
    <3>1. lrq_state[r] = LCK_none => ~Ahead(ToEnd(s, r), x, y)
      BY <2>3, <2>4, MovedAhead
    <3>2. \A m \in Locks \ {l} : ~Ahead(lbl_requests[m], x, y)
      BY <2>2, <2>4 DEF QueueInv, Ahead, In
    <3> QED
      BY <2>1, <2>3, <2>4, <3>1, <3>2 DEF Ordered, LblOK
  <2>5. CASE x # r /\ y = r
    <3>1. lrq_state[r] = LCK_none => Ordered(x, y)'
      BY <2>1, <2>5 DEF Ordered
    <3>2. lrq_state[r] # LCK_none => lbl_requests' = lbl_requests
      BY <2>1, <2>3 DEF LblOK
    <3> QED
      BY <2>1, <2>5, <3>1, <3>2 DEF Ordered
  <2>6. CASE x # r /\ y # r
    <3>1. Ahead(ToEnd(s, r), x, y) => Ahead(s, x, y)
      BY <2>3, <2>6, MovedAhead
    <3>2. \A m \in Locks : Ahead(lbl_requests'[m], x, y) => Ahead(lbl_requests[m], x, y)
      BY <2>1, <2>3, <3>1 DEF LblOK
    <3> HIDE DEF l, s
    <3> QED
      BY <2>1, <2>6, <3>2, OrderedKept
  <2> QED
    BY <2>4, <2>5, <2>6
<1>21. ASSUME NEW r \in Requests, post_blockage(r)
       PROVE  Ordered(x, y)'
  BY <1>21, <1>0 DEF LrqOK, post_blockage, At, Goto
<1>22. ASSUME NEW r \in Requests, purge_unreachable(r)
       PROVE  Ordered(x, y)'
  BY <1>22, <1>0 DEF LrqOK, purge_unreachable, At
<1>23. ASSUME NEW r \in Requests, NEW b \in Owners, skip_owner(r, b)
       PROVE  Ordered(x, y)'
  BY <1>23, <1>0 DEF LrqOK, skip_owner, At
<1>24. ASSUME NEW r \in Requests, NEW b \in Owners, signal_owner(r, b)
       PROVE  Ordered(x, y)'
  BY <1>24, <1>0 DEF LrqOK, signal_owner, signal_locally, signal_remotely, signal_fails, At
<1>25. ASSUME NEW r \in Requests, wait_resolved(r)
       PROVE  Ordered(x, y)'
  BY <1>25, <1>0 DEF LrqOK, wait_resolved, At, Goto
<1>26. ASSUME NEW r \in Requests, wait_again(r)
       PROVE  Ordered(x, y)'
  BY <1>26, <1>0 DEF LrqOK, wait_again, At, Goto
<1>27. ASSUME NEW r \in Requests, wait_sleep(r)
       PROVE  Ordered(x, y)'
  BY <1>27, <1>0 DEF LrqOK, wait_sleep, At
<1>28. ASSUME NEW r \in Requests, event_wait(r)
       PROVE  Ordered(x, y)'
  BY <1>28, <1>0 DEF LrqOK, event_wait, acquire_shmem
<1>29. ASSUME NEW r \in Requests, wait_expired(r)
       PROVE  Ordered(x, y)'
  BY <1>29, <1>0 DEF LrqOK, wait_expired, At
<1>30. ASSUME NEW r \in Requests, wait_woken(r)
       PROVE  Ordered(x, y)'
  BY <1>30, <1>0 DEF LrqOK, wait_woken, At, Goto
<1>31. ASSUME NEW r \in Requests, wait_probe(r)
       PROVE  Ordered(x, y)'
  BY <1>31, <1>0 DEF LrqOK, wait_probe, At
<1>32. ASSUME NEW r \in Requests, wait_granted(r)
       PROVE  Ordered(x, y)'
  BY <1>32, <1>0 DEF LrqOK, wait_granted, Succeed, At, Goto
<1>33. ASSUME NEW r \in Requests, wait_rejected(r)
       PROVE  Ordered(x, y)'
  BY <1>33, <1>0 DEF LrqOK, wait_rejected, At
<1>34. ASSUME NEW r \in Requests, NEW v \in Requests, deadlock_found(r, v)
       PROVE  Ordered(x, y)'
  BY <1>34, <1>0 DEF LrqOK, deadlock_found, ScanDue, At, Goto
<1>35. ASSUME NEW r \in Requests, deadlock_not_found(r)
       PROVE  Ordered(x, y)'
  BY <1>35, <1>0 DEF LrqOK, deadlock_not_found, At, Goto
<1>36. ASSUME NEW r \in Requests, PostPendingGrant(r)
       PROVE  Ordered(x, y)'
  <2>1. /\ lbl_requests' = lbl_requests
        /\ lrq_flags' = [lrq_flags EXCEPT ![r] = @ \ {"pending"}]
        /\ lrq_state' = [lrq_state EXCEPT ![r] = lrq_requested[r]]
    BY <1>36 DEF PostPendingGrant, grant
  <2>2. Pending(x)' => Pending(x) /\ x # r /\ lrq_state'[x] = lrq_state[x]
    BY <2>1 DEF LrqOK
  <2>3. CASE y # r
    BY <1>0, <2>1, <2>2, <2>3 DEF LrqOK
  <2>4. CASE y = r
    <3>1. FirstPending(posting, r) /\ posting \in Locks /\ lrq_lock[r] = posting
      BY <1>36, FirstTyped DEF PostPendingGrant
    <3>2. \A l \in Locks : Ahead(lbl_requests[l], x, r) => l = posting
      BY <3>1 DEF Ahead, QueueInv, In
    <3>3. Ahead(lbl_requests[posting], x, r) => ~Pending(x)
      BY <3>1, QueueMembers DEF Ahead, FirstPending, QueueInv, Distinct
    <3> QED
      BY <2>1, <2>2, <2>4, <3>2, <3>3 DEF Ordered
  <2> QED
    BY <2>3, <2>4
<1>37. ASSUME NEW r \in Requests, purge_owner_request(r)
       PROVE  Ordered(x, y)'
  <2>1. lrq_type[r] = "lrq" /\ release_request(r)
    BY <1>37 DEF purge_owner_request
  <2> QED
    BY <2>1, OrderedReleased
<1>38. ASSUME NEW r \in Requests, purge_owner_repost(r)
       PROVE  Ordered(x, y)'
  BY <1>38, <1>0 DEF LrqOK, purge_owner_repost, Free
<1>39. CASE PostPendingEnd
  BY <1>39, <1>0 DEF LrqOK, PostPendingEnd
<1>40. ASSUME NEW o \in Owners, purge_owner(o)
       PROVE  Ordered(x, y)'
  BY <1>40, <1>0 DEF LrqOK, purge_owner
<1>41. ASSUME NEW o \in Owners, create_owner(o)
       PROVE  Ordered(x, y)'
  BY <1>41, <1>0 DEF LrqOK, create_owner, At
<1>42. ASSUME NEW o \in Owners, shutdownOwner_awake(o)
       PROVE  Ordered(x, y)'
  BY <1>42, <1>0 DEF LrqOK, shutdownOwner_awake, acquire_shmem
<1>43. ASSUME NEW p \in Processes, purge_process(p)
       PROVE  Ordered(x, y)'
  BY <1>43, <1>0 DEF LrqOK, purge_process
<1>44. ASSUME NEW t \in Threads, release_shmem(t)
       PROVE  Ordered(x, y)'
  BY <1>44, <1>0 DEF LrqOK, release_shmem, At
<1>45. ASSUME NEW t \in Threads, NEW q \in Requests, blocking_action(t, q)
       PROVE  Ordered(x, y)'
  <2>1. /\ lbl_requests' = lbl_requests
        /\ lrq_state' = lrq_state \/ lrq_state' = [lrq_state EXCEPT ![q] = LCK_none]
        /\ \A z \in Requests : lrq_flags'[z] = lrq_flags[z] \/ z = q
        /\ \/ lrq_flags' = [lrq_flags EXCEPT ![q] = {}]
           \/ /\ lrq_flags' = [lrq_flags EXCEPT ![q] = (@ \ {"blocking"}) \cup {"blocking_seen"}]
              /\ lrq_state' = lrq_state
    BY <1>45 DEF blocking_action, Free, LrqOK
  <2> QED
    BY <2>1, <1>0 DEF LrqOK
<1>46. ASSUME NEW t \in Threads, ast_return(t)
       PROVE  Ordered(x, y)'
  BY <1>46, <1>0 DEF LrqOK, ast_return, acquire_shmem, AfterAction
<1>47. ASSUME NEW t \in Threads, blocking_action_end(t)
       PROVE  Ordered(x, y)'
  BY <1>47, <1>0 DEF LrqOK, blocking_action_end, Serving
<1>48. ASSUME NEW p \in Processes, blocking_thread_wake(p)
       PROVE  Ordered(x, y)'
  BY <1>48, <1>0 DEF LrqOK, blocking_thread_wake, acquire_shmem
<1>49. ASSUME NEW p \in Processes, blocking_thread_sleep(p)
       PROVE  Ordered(x, y)'
  BY <1>49, <1>0 DEF LrqOK, blocking_thread_sleep, At, Goto
<1>50. ASSUME NEW p \in Processes, NEW o \in Owners, blocking_thread_serve(p, o)
       PROVE  Ordered(x, y)'
  BY <1>50, <1>0 DEF LrqOK, blocking_thread_serve, At
<1>51. ASSUME NEW p \in Processes, die(p)
       PROVE  Ordered(x, y)'
  BY <1>51, <1>0 DEF LrqOK, die, Idle
<1> QED
  BY <1>1, <1>2, <1>3, <1>4, <1>5, <1>6, <1>7, <1>8, <1>9, <1>10, <1>11, <1>12, <1>13, <1>14, <1>15,
     <1>16, <1>17, <1>18, <1>19, <1>20, <1>21, <1>22, <1>23, <1>24, <1>25, <1>26, <1>27, <1>28,
     <1>29, <1>30, <1>31, <1>32, <1>33, <1>34, <1>35, <1>36, <1>37, <1>38, <1>39, <1>40, <1>41,
     <1>42, <1>43, <1>44, <1>45, <1>46, <1>47, <1>48, <1>49, <1>50, <1>51
     DEF Next, Client, RequestStep, TableStep, AstStep, Crash
\* An owner is used by one thread at a time, except for what gives something back (an AST routine
\* may do so while a thread of the owner waits).
OneThreadEach ==
  \A q, r \in Requests :
    q # r /\ call[q] # NoCall /\ call[r] # NoCall /\ call[q].owner = call[r].owner =>
      {call[q].op, call[r].op} \cap {"downgrade", "dequeue"} # {}

Scanned(r) == "scanned" \in own_flags[lrq_owner[r]]

\* deadlock_not_found marks the owner of r as scanned.
Marks(r) == ScanDue(r) /\ deadlock_not_found(r) /\ ~MaybeDeadlock(r)

\* A request that waits and whose owner is marked has waited before, for the same level of the same
\* lock; the mark is an old one or set by this step.
Waited(r) ==
  /\ r \in Patient
  /\ lrq_owner'[r] = lrq_owner[r] /\ lrq_lock'[r] = lrq_lock[r] /\ lrq_requested'[r] = lrq_requested[r]
  /\ Scanned(r) \/ \E q \in Requests : Marks(q) /\ lrq_owner[q] = lrq_owner[r]

\* This holds in every step.
LEMMA WaitedStep ==
  ASSUME LrqOK, LblOK, OwnOK, PrcOK, TableOK, CallOK, ThreadInv, UseInv, QueueInv,
         BlockInv, OwnerInv, PostInv, PendInv, Next,
         NEW x \in Requests, (x \in Patient)', Scanned(x)'
  PROVE  Waited(x)
<1> USE ConstantsAssumption DEF ConstantsAssumption, NoCall, lrqVars, lblVars, ownVars, prcVars,
       tableVars, threadVars, Pending, Waited, Waiting, Patient, Scanned, LrqOK, OwnOK
<1>1. ASSUME NEW o \in Owners, NEW l \in Locks, NEW level \in Levels, NEW wait \in Waits,
             NEW ast \in Asts, NEW r \in Requests, enqueue(o, l, level, wait, ast, r)
       PROVE  Waited(x)
  BY <1>1 DEF enqueue, acquire_shmem, Usable, PendInv, UseInv, BlockInv
<1>2. ASSUME NEW q \in Requests, NEW l \in Locks, NEW level \in Levels, NEW wait \in Waits,
             NEW ast \in Asts, NEW r \in Requests, enqueue_prior(q, l, level, wait, ast, r)
       PROVE  Waited(x)
  BY <1>2 DEF enqueue_prior, acquire_shmem, Known, Usable, release_request, Free, PendInv, UseInv,
     BlockInv
<1>3. ASSUME NEW r \in Requests, NEW level \in Levels, NEW wait \in Waits,
             NEW ast \in Asts, convert(r, level, wait, ast)
       PROVE  Waited(x)
  BY <1>3 DEF convert, acquire_shmem, Known, Usable, PendInv, UseInv, BlockInv
<1>4. ASSUME NEW r \in Requests, downgrade(r)
       PROVE  Waited(x)
  <2>1. /\ lrq_owner' = lrq_owner /\ lrq_lock' = lrq_lock /\ own_flags' = own_flags
        /\ \A y \in Requests \ {r} : /\ lrq_flags'[y] = lrq_flags[y] /\ call'[y] = call[y]
                                    /\ lrq_requested'[y] = lrq_requested[y]
        /\ call[r] = NoCall /\ Home[lrq_owner[r]] \in running
    <3>1. /\ \E op, level, step : Reduce(r, op, level, step)
          /\ \/ UNCHANGED <<lrq_requested, lrq_flags>>
             \/ /\ \E level : lrq_requested' = [lrq_requested EXCEPT ![r] = level]
                /\ lrq_flags' = [lrq_flags EXCEPT ![r] = @ \ {"blocking_seen"}]
      BY <1>4 DEF downgrade
    <3> QED
      BY <3>1 DEF Reduce, Known, Usable
  <2>2. ~Pending(r)
    BY <2>1 DEF PendInv
  <2>3. ~Pending(r)'
    BY <1>4, <2>2 DEF downgrade, Reduce
  <2>4. x # r
    BY <2>3
  <2> QED
    BY <2>1, <2>4
<1>5. ASSUME NEW r \in Requests, dequeue(r)
       PROVE  Waited(x)
  BY <1>5 DEF dequeue, Reduce, acquire_shmem, Known, Usable, PendInv, UseInv, BlockInv
<1>6. ASSUME NEW o \in Owners, NEW q \in Requests, repost(o, q)
       PROVE  Waited(x)
  BY <1>6 DEF repost, acquire_shmem
<1>7. ASSUME NEW o \in Owners, cancelWait(o)
       PROVE  Waited(x)
  BY <1>7 DEF cancelWait, post_wakeup
<1>8. ASSUME NEW o \in Owners, Usable(o), initializeOwner_again(o)
       PROVE  Waited(x)
  BY <1>8 DEF initializeOwner_again
<1>9. ASSUME NEW o \in Owners, initializeOwner(o)
       PROVE  Waited(x)
  BY <1>9 DEF initializeOwner, acquire_shmem
<1>10. ASSUME NEW o \in Owners, shutdownOwner(o)
       PROVE  Waited(x)
  BY <1>10 DEF shutdownOwner, Usable, Quiet
<1>11. ASSUME NEW p \in Processes, destroy(p)
       PROVE  Waited(x)
  BY <1>11 DEF destroy, Quiet
<1>12. ASSUME NEW r \in Requests, enqueue_insert(r)
       PROVE  Waited(x)
  BY <1>12 DEF enqueue_insert, At, Goto
<1>13. ASSUME NEW r \in Requests, enqueue_grant(r)
       PROVE  Waited(x)
  BY <1>13 DEF enqueue_grant, Succeed, At, Goto, grant, post_wakeup
<1>14. ASSUME NEW r \in Requests, grant_or_que_grant(r)
       PROVE  Waited(x)
  BY <1>14 DEF grant_or_que_grant, Succeed, At, grant, post_wakeup
<1>15. ASSUME NEW r \in Requests, grant_or_que_block(r)
       PROVE  Waited(x)
  BY <1>15 DEF grant_or_que_block, At, Goto
<1>16. ASSUME NEW r \in Requests, internal_dequeue(r)
       PROVE  Waited(x)
  BY <1>16 DEF internal_dequeue, At, release_request, Free
<1>17. ASSUME NEW r \in Requests, internal_convert_grant(r)
       PROVE  Waited(x)
  BY <1>17 DEF internal_convert_grant, Succeed, At, grant, post_wakeup
<1>18. ASSUME NEW r \in Requests, internal_convert_block(r)
       PROVE  Waited(x)
  BY <1>18 DEF internal_convert_block, At, Goto
<1>19. ASSUME NEW r \in Requests, internal_convert_undo(r)
       PROVE  Waited(x)
  BY <1>19 DEF internal_convert_undo, Fail, At, Goto, PendInv
<1>20. ASSUME NEW r \in Requests, wait_for_request(r)
       PROVE  Waited(x)
  <2>1. /\ lrq_owner' = lrq_owner /\ lrq_lock' = lrq_lock /\ lrq_requested' = lrq_requested /\ call' = call
        /\ own_flags' = [own_flags EXCEPT ![lrq_owner[r]] = @ \ {"scanned", "wakeup"}]
        /\ \A y \in Requests \ {r} : lrq_flags'[y] = lrq_flags[y]
    BY <1>20 DEF wait_for_request
  <2>2. lrq_type[r] = "lrq"
    BY <1>20 DEF wait_for_request, At, UseInv, ThreadInv, Threads
  <2>3. lrq_owner[r] \in Owners
    BY <2>2 DEF QueueInv
  <2>4. lrq_owner[x] # lrq_owner[r] /\ Scanned(x)
    BY <2>1, <2>3
  <2> QED
    BY <2>1, <2>4
<1>21. ASSUME NEW r \in Requests, post_blockage(r)
       PROVE  Waited(x)
  BY <1>21 DEF post_blockage, At, Goto
<1>22. ASSUME NEW r \in Requests, purge_unreachable(r)
       PROVE  Waited(x)
  BY <1>22 DEF purge_unreachable, At
<1>23. ASSUME NEW r \in Requests, NEW b \in Owners, skip_owner(r, b)
       PROVE  Waited(x)
  BY <1>23 DEF skip_owner, At
<1>24. ASSUME NEW r \in Requests, NEW b \in Owners, signal_owner(r, b)
       PROVE  Waited(x)
  <2>1. UNCHANGED <<lrqVars, call>>
    BY <1>24 DEF signal_owner
  <2>2. own_flags' = own_flags \/ own_flags' = [own_flags EXCEPT ![b] = @ \cup {"signaled"}]
    BY <1>24 DEF signal_owner, signal_locally, signal_remotely, signal_fails
  <2>3. lrq_owner[x] \in Owners
    BY <2>1 DEF BlockInv, QueueInv
  <2>4. "scanned" \in own_flags[lrq_owner[x]]
    BY <2>1, <2>2, <2>3
  <2> QED
    BY <2>1, <2>4
<1>25. ASSUME NEW r \in Requests, wait_resolved(r)
       PROVE  Waited(x)
  BY <1>25 DEF wait_resolved, At, Goto
<1>26. ASSUME NEW r \in Requests, wait_again(r)
       PROVE  Waited(x)
  BY <1>26 DEF wait_again, At, Goto
<1>27. ASSUME NEW r \in Requests, wait_sleep(r)
       PROVE  Waited(x)
  BY <1>27 DEF wait_sleep, At
<1>28. ASSUME NEW r \in Requests, event_wait(r)
       PROVE  Waited(x)
  BY <1>28 DEF event_wait, acquire_shmem
<1>29. ASSUME NEW r \in Requests, wait_expired(r)
       PROVE  Waited(x)
  BY <1>29 DEF wait_expired, At
<1>30. ASSUME NEW r \in Requests, wait_woken(r)
       PROVE  Waited(x)
  BY <1>30 DEF wait_woken, At, Goto
<1>31. ASSUME NEW r \in Requests, wait_probe(r)
       PROVE  Waited(x)
  BY <1>31 DEF wait_probe, At
<1>32. ASSUME NEW r \in Requests, wait_granted(r)
       PROVE  Waited(x)
  BY <1>32 DEF wait_granted, Succeed, At, Goto, PendInv
<1>33. ASSUME NEW r \in Requests, wait_rejected(r)
       PROVE  Waited(x)
  BY <1>33 DEF wait_rejected, At, PendInv
<1>34. ASSUME NEW r \in Requests, NEW v \in Requests, deadlock_found(r, v)
       PROVE  Waited(x)
  BY <1>34 DEF deadlock_found, ScanDue, At, Goto, post_wakeup
<1>35. ASSUME NEW r \in Requests, deadlock_not_found(r)
       PROVE  Waited(x)
  <2>1. /\ UNCHANGED <<lrqVars, call>> /\ r \in Requests
        /\ own_flags' = [own_flags EXCEPT ![lrq_owner[r]] =
             IF ScanDue(r) /\ ~MaybeDeadlock(r) THEN @ \cup {"scanned"} ELSE @]
    BY <1>35 DEF deadlock_not_found
  <2>2. CASE ScanDue(r) /\ ~MaybeDeadlock(r)
    BY <1>35, <2>1, <2>2 DEF Marks
  <2>3. CASE ~(ScanDue(r) /\ ~MaybeDeadlock(r))
    BY <2>1, <2>3
  <2> QED
    BY <2>2, <2>3
<1>36. ASSUME NEW r \in Requests, PostPendingGrant(r)
       PROVE  Waited(x)
  BY <1>36 DEF PostPendingGrant, grant, post_wakeup
<1>37. ASSUME NEW r \in Requests, purge_owner_request(r)
       PROVE  Waited(x)
  BY <1>37 DEF purge_owner_request, release_request, Free
<1>38. ASSUME NEW r \in Requests, purge_owner_repost(r)
       PROVE  Waited(x)
  BY <1>38 DEF purge_owner_repost, Free
<1>39. CASE PostPendingEnd
  <2>1. UNCHANGED <<lrq_owner, lrq_lock, lrq_requested, call>>
    BY <1>39 DEF PostPendingEnd
  <2>2. lrq_flags'[x] \subseteq lrq_flags[x] \cup {"just_granted"}
    BY <1>39 DEF PostPendingEnd
  <2>3. \A o \in Owners : own_flags'[o] \subseteq own_flags[o] \cup {"wakeup"}
    BY <1>39 DEF PostPendingEnd, post_wakeup
  <2>4. \A f \in {"pending", "wait_timeout"} : f \in lrq_flags'[x] => f \in lrq_flags[x]
    BY <2>2
  <2>5. "wait_timeout" \in lrq_flags[x] => "wait_timeout" \in lrq_flags'[x]
    BY <1>39 DEF PostPendingEnd
  <2>6. lrq_owner[x] \in Owners
    BY <2>4 DEF BlockInv, QueueInv
  <2> QED
    BY <2>1, <2>3, <2>4, <2>5, <2>6
<1>40. ASSUME NEW o \in Owners, purge_owner(o)
       PROVE  Waited(x)
  BY <1>40 DEF purge_owner
<1>41. ASSUME NEW o \in Owners, create_owner(o)
       PROVE  Waited(x)
  BY <1>41 DEF create_owner, At
<1>42. ASSUME NEW o \in Owners, shutdownOwner_awake(o)
       PROVE  Waited(x)
  BY <1>42 DEF shutdownOwner_awake, acquire_shmem
<1>43. ASSUME NEW p \in Processes, purge_process(p)
       PROVE  Waited(x)
  BY <1>43 DEF purge_process
<1>44. ASSUME NEW t \in Threads, release_shmem(t)
       PROVE  Waited(x)
  BY <1>44 DEF release_shmem, At
<1>45. ASSUME NEW t \in Threads, NEW q \in Requests, blocking_action(t, q)
       PROVE  Waited(x)
  <2>1. UNCHANGED <<own_flags, call>>
    BY <1>45 DEF blocking_action
  <2>2. x # q => /\ lrq_owner'[x] = lrq_owner[x] /\ lrq_lock'[x] = lrq_lock[x]
                 /\ lrq_requested'[x] = lrq_requested[x] /\ lrq_flags'[x] = lrq_flags[x]
    BY <1>45 DEF blocking_action, Free
  <2>3. x = q => /\ UNCHANGED <<lrq_owner, lrq_lock, lrq_requested>>
                 /\ lrq_flags' = [lrq_flags EXCEPT ![q] = (@ \ {"blocking"}) \cup {"blocking_seen"}]
    BY <1>45 DEF blocking_action, Free
  <2> QED
    BY <2>1, <2>2, <2>3
<1>46. ASSUME NEW t \in Threads, ast_return(t)
       PROVE  Waited(x)
  BY <1>46 DEF ast_return, acquire_shmem, AfterAction
<1>47. ASSUME NEW t \in Threads, blocking_action_end(t)
       PROVE  Waited(x)
  BY <1>47 DEF blocking_action_end, Serving
<1>48. ASSUME NEW p \in Processes, blocking_thread_wake(p)
       PROVE  Waited(x)
  BY <1>48 DEF blocking_thread_wake, acquire_shmem
<1>49. ASSUME NEW p \in Processes, blocking_thread_sleep(p)
       PROVE  Waited(x)
  BY <1>49 DEF blocking_thread_sleep, At, Goto
<1>50. ASSUME NEW p \in Processes, NEW o \in Owners, blocking_thread_serve(p, o)
       PROVE  Waited(x)
  BY <1>50 DEF blocking_thread_serve, At
<1>51. ASSUME NEW p \in Processes, die(p)
       PROVE  Waited(x)
  BY <1>51 DEF die, Idle
<1> QED
  BY <1>1, <1>2, <1>3, <1>4, <1>5, <1>6, <1>7, <1>8, <1>9, <1>10, <1>11, <1>12, <1>13, <1>14, <1>15,
     <1>16, <1>17, <1>18, <1>19, <1>20, <1>21, <1>22, <1>23, <1>24, <1>25, <1>26, <1>27, <1>28,
     <1>29, <1>30, <1>31, <1>32, <1>33, <1>34, <1>35, <1>36, <1>37, <1>38, <1>39, <1>40, <1>41,
     <1>42, <1>43, <1>44, <1>45, <1>46, <1>47, <1>48, <1>49, <1>50, <1>51
     DEF Next, Client, RequestStep, TableStep, AstStep, Crash
\* A request that holds something was there before, and held it unless it was
\* waiting or the thread in the table is granting it.
Granted(b) ==
  /\ lrq_type[b] = "lrq"
  /\ lrq_owner'[b] = lrq_owner[b] /\ lrq_lock'[b] = lrq_lock[b]
  /\ \/ lrq_state'[b] = lrq_state[b]
     \/ /\ lrq_state'[b] = lrq_requested[b]
        /\ ~Pending(b)'
        /\ Pending(b) \/ (holder = b /\ next \in {"grant", "grant_or_que", "convert"})

\* This holds in every step.
LEMMA GrantedStep ==
  ASSUME LrqOK, LblOK, OwnOK, PrcOK, TableOK, CallOK, ThreadInv, UseInv, QueueInv,
         BlockInv, OwnerInv, Next,
         NEW x \in Requests, lrq_type'[x] = "lrq", lrq_state'[x] # LCK_none
  PROVE  Granted(x)
<1> USE ConstantsAssumption DEF ConstantsAssumption, lrqVars, lblVars, ownVars, prcVars,
       tableVars, threadVars, Pending, Granted, LrqOK
<1>1. ASSUME NEW o \in Owners, NEW l \in Locks, NEW level \in Levels, NEW wait \in Waits,
             NEW ast \in Asts, NEW r \in Requests, enqueue(o, l, level, wait, ast, r)
       PROVE  Granted(x)
  BY <1>1 DEF enqueue, acquire_shmem, Usable
<1>2. ASSUME NEW q \in Requests, NEW l \in Locks, NEW level \in Levels, NEW wait \in Waits,
             NEW ast \in Asts, NEW r \in Requests, enqueue_prior(q, l, level, wait, ast, r)
       PROVE  Granted(x)
  BY <1>2 DEF enqueue_prior, acquire_shmem, Known, Usable, release_request, Free
<1>3. ASSUME NEW r \in Requests, NEW level \in Levels, NEW wait \in Waits,
             NEW ast \in Asts, convert(r, level, wait, ast)
       PROVE  Granted(x)
  BY <1>3 DEF convert, acquire_shmem, Known, Usable
<1>4. ASSUME NEW r \in Requests, downgrade(r)
       PROVE  Granted(x)
  BY <1>4 DEF downgrade, Reduce
<1>5. ASSUME NEW r \in Requests, dequeue(r)
       PROVE  Granted(x)
  BY <1>5 DEF dequeue, Reduce, acquire_shmem, Known, Usable
<1>6. ASSUME NEW o \in Owners, NEW q \in Requests, repost(o, q)
       PROVE  Granted(x)
  BY <1>6 DEF repost, acquire_shmem
<1>7. ASSUME NEW o \in Owners, cancelWait(o)
       PROVE  Granted(x)
  BY <1>7 DEF cancelWait
<1>8. ASSUME NEW o \in Owners, Usable(o), initializeOwner_again(o)
       PROVE  Granted(x)
  BY <1>8 DEF initializeOwner_again
<1>9. ASSUME NEW o \in Owners, initializeOwner(o)
       PROVE  Granted(x)
  BY <1>9 DEF initializeOwner, acquire_shmem
<1>10. ASSUME NEW o \in Owners, shutdownOwner(o)
       PROVE  Granted(x)
  BY <1>10 DEF shutdownOwner, Usable, Quiet
<1>11. ASSUME NEW p \in Processes, destroy(p)
       PROVE  Granted(x)
  BY <1>11 DEF destroy, Quiet
<1>12. ASSUME NEW r \in Requests, enqueue_insert(r)
       PROVE  Granted(x)
  BY <1>12 DEF enqueue_insert, At, Goto, UseInv, ThreadInv, Threads
<1>13. ASSUME NEW r \in Requests, enqueue_grant(r)
       PROVE  Granted(x)
  BY <1>13 DEF enqueue_grant, Succeed, At, Goto, grant
<1>14. ASSUME NEW r \in Requests, grant_or_que_grant(r)
       PROVE  Granted(x)
  BY <1>14 DEF grant_or_que_grant, Succeed, At, grant
<1>15. ASSUME NEW r \in Requests, grant_or_que_block(r)
       PROVE  Granted(x)
  BY <1>15 DEF grant_or_que_block, At, Goto
<1>16. ASSUME NEW r \in Requests, internal_dequeue(r)
       PROVE  Granted(x)
  BY <1>16 DEF internal_dequeue, At, release_request, Free
<1>17. ASSUME NEW r \in Requests, internal_convert_grant(r)
       PROVE  Granted(x)
  BY <1>17 DEF internal_convert_grant, Succeed, At, grant
<1>18. ASSUME NEW r \in Requests, internal_convert_block(r)
       PROVE  Granted(x)
  BY <1>18 DEF internal_convert_block, At, Goto
<1>19. ASSUME NEW r \in Requests, internal_convert_undo(r)
       PROVE  Granted(x)
  BY <1>19 DEF internal_convert_undo, Fail, At, Goto
<1>20. ASSUME NEW r \in Requests, wait_for_request(r)
       PROVE  Granted(x)
  BY <1>20 DEF wait_for_request, At, Goto
<1>21. ASSUME NEW r \in Requests, post_blockage(r)
       PROVE  Granted(x)
  BY <1>21 DEF post_blockage, At, Goto
<1>22. ASSUME NEW r \in Requests, purge_unreachable(r)
       PROVE  Granted(x)
  BY <1>22 DEF purge_unreachable, At
<1>23. ASSUME NEW r \in Requests, NEW b \in Owners, skip_owner(r, b)
       PROVE  Granted(x)
  BY <1>23 DEF skip_owner, At
<1>24. ASSUME NEW r \in Requests, NEW b \in Owners, signal_owner(r, b)
       PROVE  Granted(x)
  BY <1>24 DEF signal_owner, signal_locally, signal_remotely, signal_fails, At
<1>25. ASSUME NEW r \in Requests, wait_resolved(r)
       PROVE  Granted(x)
  BY <1>25 DEF wait_resolved, At, Goto
<1>26. ASSUME NEW r \in Requests, wait_again(r)
       PROVE  Granted(x)
  BY <1>26 DEF wait_again, At, Goto
<1>27. ASSUME NEW r \in Requests, wait_sleep(r)
       PROVE  Granted(x)
  BY <1>27 DEF wait_sleep, At
<1>28. ASSUME NEW r \in Requests, event_wait(r)
       PROVE  Granted(x)
  BY <1>28 DEF event_wait, acquire_shmem
<1>29. ASSUME NEW r \in Requests, wait_expired(r)
       PROVE  Granted(x)
  BY <1>29 DEF wait_expired, At
<1>30. ASSUME NEW r \in Requests, wait_woken(r)
       PROVE  Granted(x)
  BY <1>30 DEF wait_woken, At, Goto
<1>31. ASSUME NEW r \in Requests, wait_probe(r)
       PROVE  Granted(x)
  BY <1>31 DEF wait_probe, At
<1>32. ASSUME NEW r \in Requests, wait_granted(r)
       PROVE  Granted(x)
  BY <1>32 DEF wait_granted, Succeed, At, Goto
<1>33. ASSUME NEW r \in Requests, wait_rejected(r)
       PROVE  Granted(x)
  BY <1>33 DEF wait_rejected, At
<1>34. ASSUME NEW r \in Requests, NEW v \in Requests, deadlock_found(r, v)
       PROVE  Granted(x)
  BY <1>34 DEF deadlock_found, ScanDue, At, Goto
<1>35. ASSUME NEW r \in Requests, deadlock_not_found(r)
       PROVE  Granted(x)
  BY <1>35 DEF deadlock_not_found, At, Goto
<1>36. ASSUME NEW r \in Requests, PostPendingGrant(r)
       PROVE  Granted(x)
  BY <1>36 DEF PostPendingGrant, grant, FirstPending
<1>37. ASSUME NEW r \in Requests, purge_owner_request(r)
       PROVE  Granted(x)
  BY <1>37 DEF purge_owner_request, release_request, Free
<1>38. ASSUME NEW r \in Requests, purge_owner_repost(r)
       PROVE  Granted(x)
  BY <1>38 DEF purge_owner_repost, Free
<1>39. CASE PostPendingEnd
  BY <1>39 DEF PostPendingEnd
<1>40. ASSUME NEW o \in Owners, purge_owner(o)
       PROVE  Granted(x)
  BY <1>40 DEF purge_owner
<1>41. ASSUME NEW o \in Owners, create_owner(o)
       PROVE  Granted(x)
  BY <1>41 DEF create_owner, At
<1>42. ASSUME NEW o \in Owners, shutdownOwner_awake(o)
       PROVE  Granted(x)
  BY <1>42 DEF shutdownOwner_awake, acquire_shmem
<1>43. ASSUME NEW p \in Processes, purge_process(p)
       PROVE  Granted(x)
  BY <1>43 DEF purge_process
<1>44. ASSUME NEW t \in Threads, release_shmem(t)
       PROVE  Granted(x)
  BY <1>44 DEF release_shmem, At
<1>45. ASSUME NEW t \in Threads, NEW q \in Requests, blocking_action(t, q)
       PROVE  Granted(x)
  <2>1. x # q => /\ lrq_type'[x] = lrq_type[x] /\ lrq_owner'[x] = lrq_owner[x]
                 /\ lrq_lock'[x] = lrq_lock[x] /\ lrq_state'[x] = lrq_state[x]
    BY <1>45 DEF blocking_action, Free
  <2>2. x = q => UNCHANGED <<lrq_type, lrq_owner, lrq_lock, lrq_state>>
    BY <1>45 DEF blocking_action, Free
  <2> QED
    BY <2>1, <2>2
<1>46. ASSUME NEW t \in Threads, ast_return(t)
       PROVE  Granted(x)
  BY <1>46 DEF ast_return, acquire_shmem, AfterAction
<1>47. ASSUME NEW t \in Threads, blocking_action_end(t)
       PROVE  Granted(x)
  BY <1>47 DEF blocking_action_end, Serving
<1>48. ASSUME NEW p \in Processes, blocking_thread_wake(p)
       PROVE  Granted(x)
  BY <1>48 DEF blocking_thread_wake, acquire_shmem
<1>49. ASSUME NEW p \in Processes, blocking_thread_sleep(p)
       PROVE  Granted(x)
  BY <1>49 DEF blocking_thread_sleep, At, Goto
<1>50. ASSUME NEW p \in Processes, NEW o \in Owners, blocking_thread_serve(p, o)
       PROVE  Granted(x)
  BY <1>50 DEF blocking_thread_serve, At
<1>51. ASSUME NEW p \in Processes, die(p)
       PROVE  Granted(x)
  BY <1>51 DEF die, Idle
<1> QED
  BY <1>1, <1>2, <1>3, <1>4, <1>5, <1>6, <1>7, <1>8, <1>9, <1>10, <1>11, <1>12, <1>13, <1>14, <1>15,
     <1>16, <1>17, <1>18, <1>19, <1>20, <1>21, <1>22, <1>23, <1>24, <1>25, <1>26, <1>27, <1>28,
     <1>29, <1>30, <1>31, <1>32, <1>33, <1>34, <1>35, <1>36, <1>37, <1>38, <1>39, <1>40, <1>41,
     <1>42, <1>43, <1>44, <1>45, <1>46, <1>47, <1>48, <1>49, <1>50, <1>51
     DEF Next, Client, RequestStep, TableStep, AstStep, Crash
\* Each owner has one thread that waits or is being granted something.
LEMMA OneWaiter ==
  ASSUME CallOK, ThreadInv, UseInv, BlockInv, PendInv, OneThreadEach,
         \A r \in Requests : Claim(r),
         NEW s \in Requests, Waiting(s),
         NEW b \in Requests, lrq_type[b] = "lrq", lrq_owner[b] = lrq_owner[s],
         \/ Pending(b)
         \/ call[b] # NoCall /\ call[b].op \in {"enqueue", "convert"}
  PROVE  b = s
<1>1. call[s] # NoCall /\ Pending(s) /\ lrq_type[s] = "lrq"
  BY DEF Waiting, BlockInv, Pending
<1>2. call[s].op \in {"enqueue", "convert"}
  BY <1>1 DEF Claim
<1>3. lrq_owner[s] = call[s].owner /\ Home[lrq_owner[s]] \in running
  BY <1>1 DEF UseInv
<1>4. call[b] # NoCall
  BY <1>3 DEF PendInv
<1>5. call[b].op \in {"enqueue", "convert"}
  BY <1>4 DEF Claim
<1>6. lrq_owner[b] = call[b].owner
  BY <1>4 DEF UseInv
<1> QED
  BY <1>1, <1>2, <1>3, <1>4, <1>5, <1>6 DEF OneThreadEach

\* A request in a queue is blocked by nothing that is not there.
LEMMA HeldUpBy ==
  ASSUME LblOK, QueueInv, BlockInv, NEW q \in Requests, NEW b \in Requests, Pending(q)
  PROVE  HeldUp(q, b) <=> Rival(b, q) /\ Blocks(b, q)
<1>1. lrq_type[q] = "lrq" /\ lrq_lock[q] \in Locks
  BY DEF BlockInv, QueueInv, Pending
<1>2. b \in ToSet(lbl_requests[lrq_lock[q]]) <=> In(b, lbl_requests[lrq_lock[q]])
  BY <1>1 DEF ToSet, In, LblOK
<1>3. In(b, lbl_requests[lrq_lock[q]]) <=> lrq_type[b] = "lrq" /\ lrq_lock[b] = lrq_lock[q]
  BY <1>1 DEF QueueInv
<1> QED
  BY <1>2, <1>3 DEF HeldUp, Rival, Blocks

\* Who holds up a request that waits, and whose owner waits too with its mark, held it up before.
LEMMA HeldBefore ==
  ASSUME LrqOK, LblOK, OwnOK, PrcOK, TableOK, CallOK, ThreadInv, UseInv, QueueInv,
         BlockInv, OwnerInv, PostInv, PendInv, Next, OneThreadEach,
         LrqOK', LblOK', QueueInv', BlockInv', NewInv,
         \A r \in Requests : Claim(r) /\ \A z \in Requests : Lowers(r, z),
         NEW q \in Requests, (q \in Patient)', Scanned(q)',
         NEW s \in Requests, (s \in Patient)', Scanned(s)',
         NEW b \in Requests, HeldUp(q, b)', lrq_owner'[b] = lrq_owner'[s]
  PROVE  HeldUp(q, b) /\ lrq_owner[b] = lrq_owner[s]
<1>1. Waited(q) /\ Waited(s)
  BY WaitedStep
<1>2. Pending(q)' /\ Pending(s)' /\ Pending(q) /\ Waiting(s)
  BY <1>1 DEF Patient, Waiting, Waited
<1>3. lrq_type'[q] = "lrq" /\ lrq_lock'[q] \in Locks
  BY <1>2 DEF BlockInv, QueueInv, Pending
<1>4. lrq_type'[b] = "lrq" /\ lrq_lock'[b] = lrq_lock'[q] /\ b # q
  <2>1. \E i \in DOMAIN lbl_requests'[lrq_lock'[q]] : lbl_requests'[lrq_lock'[q]][i] = b
    BY DEF HeldUp, ToSet
  <2>2. DOMAIN lbl_requests'[lrq_lock'[q]] = 1 .. Len(lbl_requests'[lrq_lock'[q]])
    BY <1>3 DEF LblOK
  <2> QED
    BY <1>3, <2>1, <2>2 DEF QueueInv, In, HeldUp
<1>5. ~compatibility(lrq_requested'[q], lrq_state'[b])
  BY DEF HeldUp
<1>6. lrq_state'[b] # LCK_none
  BY <1>5, Compatible DEF LrqOK
<1>7. Granted(b)
  BY <1>4, <1>6, GrantedStep
<1>8. Rival(b, q) /\ lrq_owner[b] = lrq_owner[s]
  BY <1>1, <1>4, <1>7 DEF Granted, Waited, Rival
<1>9. Blocks(b, q)
  <2>1. CASE lrq_state'[b] = lrq_state[b]
    BY <1>1, <1>5, <2>1 DEF Blocks, Waited
  <2>2. CASE lrq_state'[b] = lrq_requested[b] /\ ~Pending(b)'
    <3>1. b # s
      BY <1>2, <2>2
    <3>2. ~Pending(b) /\ ~(call[b] # NoCall /\ call[b].op \in {"enqueue", "convert"})
      BY <1>2, <1>7, <1>8, <3>1, OneWaiter DEF Granted
    <3>3. CASE holder = b /\ next \in {"grant", "grant_or_que", "convert"}
      <4>1. call[b] # NoCall
        BY <3>3 DEF ThreadInv
      <4>2. next = "convert" /\ call[b].op = "downgrade"
        BY <3>2, <3>3, <4>1 DEF Claim
      <4>3. ~compatibility(lrq_requested[q], lrq_requested[b])
        BY <1>1, <1>5, <2>2 DEF Waited
      <4> QED
        BY <1>2, <1>8, <3>3, <4>2, <4>3 DEF Lowers, Rival
    <3> QED
      BY <1>7, <2>1, <3>2, <3>3 DEF Granted
  <2> QED
    BY <1>7, <2>1, <2>2 DEF Granted
<1> QED
  BY <1>2, <1>8, <1>9, HeldUpBy
\* What a walk pursues waits, and is closed under WaitsFor.
LEMMA PursuedClosed ==
  ASSUME NEW S, NEW q \in Pursued(S)
  PROVE  /\ q \in Requests /\ Pending(q)
         /\ WaitsFor(q) \subseteq Pursued(S)
<1>1. q \in Requests /\ Pending(q)
  BY DEF Pursued
<1>2. \A x \in WaitsFor(q) : x \in Requests /\ Pending(x)
  BY DEF WaitsFor, own_pending, own_requests, Pending
<1> QED
  BY <1>1, <1>2 DEF Pursued

\* It has where the walk starts,
LEMMA PursuedStart ==
  ASSUME NEW S, NEW q \in S, q \in Requests, Pending(q)
  PROVE  q \in Pursued(S)
BY DEF Pursued

\* and nothing that is not reached from there.
LEMMA PursuedLeast ==
  ASSUME NEW S, NEW U, S \subseteq Pursued(U)
  PROVE  Pursued(S) \subseteq Pursued(U)
<1>1. Pursued(U) \in SUBSET {r \in Requests : Pending(r)}
  BY DEF Pursued
<1>2. \A c \in Pursued(U) : WaitsFor(c) \subseteq Pursued(U)
  BY PursuedClosed
<1> QED
  BY <1>1, <1>2 DEF Pursued

\* Requests each of which waits for another of them have one that is met again on a walk from it.
LEMMA Circle ==
  ASSUME NEW R \in SUBSET {r \in Requests : Pending(r)}, R # {},
         \A q \in R : \E s \in R : s \in WaitsFor(q)
  PROVE  \E q \in R : q \in Pursued(WaitsFor(q))
<1> DEFINE W(q) == Pursued(WaitsFor(q))
           C == {Cardinality(W(q)) : q \in R}
<1>1. \A q \in R : W(q) \subseteq Requests /\ IsFiniteSet(W(q)) /\ Cardinality(W(q)) \in Nat
  <2> SUFFICES ASSUME NEW q \in R
               PROVE  W(q) \subseteq Requests /\ IsFiniteSet(W(q)) /\ Cardinality(W(q)) \in Nat
    OBVIOUS
  <2>1. W(q) \subseteq Requests
    BY PursuedClosed
  <2> HIDE DEF W
  <2> QED
    BY <2>1, FS_Subset, FS_CardinalityType, ConstantsAssumption DEF ConstantsAssumption
<1>2. C \subseteq Nat /\ C # {}
  <2> HIDE DEF W
  <2> QED
    BY <1>1
<1>3. PICK q \in R : \A s \in R : Cardinality(W(q)) <= Cardinality(W(s))
  <2>1. PICK n \in C : \A k \in C : n <= k
    <3> HIDE DEF C
    <3> QED
      BY <1>2, MinNat
  <2> HIDE DEF W
  <2> QED
    BY <2>1
<1>4. PICK s \in R : s \in WaitsFor(q)
  OBVIOUS
<1>5. s \in W(q)
  BY <1>4, PursuedStart
<1>6. W(s) \subseteq W(q)
  BY <1>5, PursuedClosed, PursuedLeast
<1> HIDE DEF W
<1>7. W(s) = W(q)
  <2>1. Cardinality(W(s)) <= Cardinality(W(q)) /\ (Cardinality(W(s)) = Cardinality(W(q)) => W(s) = W(q))
    BY <1>1, <1>6, FS_Subset
  <2> QED
    BY <1>1, <1>3, <2>1
<1> QED
  BY <1>5, <1>7 DEF W

\* deadlock_walk takes the greater of the levels that a conversion holds and asks for, as a level
\* above another one blocks what that one blocks.  There is one exception.
LEMMA OneException ==
  /\ \A a, h, w \in LckLevels : ~compatibility(a, h) /\ compatibility(a, Max({h, w})) =>
        a = LCK_SW /\ h = LCK_PR /\ w = LCK_SW
  /\ \A h \in LckLevels : ~compatibility(LCK_SW, h) /\ compatibility(LCK_PR, h) => h = LCK_PR
  /\ ~compatibility(LCK_SW, LCK_PR)
<1>1. \A h, w \in LckLevels : Max({h, w}) = IF h > w THEN h ELSE w
  <2> TAKE h, w \in LckLevels
  <2>1. h \in Int /\ w \in Int
    BY DEF LckLevels, LCK_none, LCK_EX
  <2>2. CASE h > w
    BY <2>1, <2>2 DEF Max
  <2>3. CASE ~(h > w)
    BY <2>1, <2>3 DEF Max
  <2> QED
    BY <2>2, <2>3
<1>2. \A a, h, w \in 0 .. 6 : ~Row(a, h) /\ Row(a, IF h > w THEN h ELSE w) => a = 4 /\ h = 3 /\ w = 4
  BY DEF Row
<1>3. \A h \in 0 .. 6 : ~Row(4, h) /\ Row(3, h) => h = 3
  BY DEF Row
<1>4. ~Row(4, 3)
  BY DEF Row
<1> HIDE DEF Row
<1>5. LckLevels = 0 .. 6 /\ LCK_SW = 4 /\ LCK_PR = 3
  BY DEF LckLevels, LCK_none, LCK_EX, LCK_SW, LCK_PR
<1>6. \A h, w \in 0 .. 6 : (IF h > w THEN h ELSE w) \in 0 .. 6
  OBVIOUS
<1> QED
  BY <1>1, <1>2, <1>3, <1>4, <1>5, <1>6, Rows
\* The owner of another request of S holds up q.
Near(q, S) == \E b \in Requests : HeldUp(q, b) /\ \E s \in S : lrq_owner[s] = lrq_owner[b]

\* In a deadlock one owner is not marked.
ScanInv ==
  \A S \in SUBSET Patient : S # {} /\ (\A q \in S : Near(q, S)) => \E q \in S : ~Scanned(q)

\* A conversion from LCK_PR to LCK_SW that holds up a new request for
\* LCK_SW is overlooked by deadlock_walk: it looks at the level asked for only.
Overlooked(q, b) ==
  /\ lrq_state[q] = LCK_none /\ lrq_requested[q] = LCK_SW
  /\ lrq_state[b] = LCK_PR /\ lrq_requested[b] = LCK_SW

\* deadlock_walk sees whatever else holds up a request.
LEMMA WalkSees ==
  ASSUME LrqOK, LblOK, QueueInv, BlockInv, NEW q \in Requests, Pending(q), Asked(q),
         NEW b \in Requests, HeldUp(q, b), Ordered(q, b)
  PROVE  b \in WalkBlocks(q) \/ Overlooked(q, b)
<1> DEFINE l == lrq_lock[q]
<1>1. l \in Locks /\ In(q, lbl_requests[l]) /\ lbl_requests[l] \in Seq(Requests)
  BY PendingTyped DEF LblOK
<1>2. b \in ToSet(lbl_requests[l]) \ {q} /\ ~compatibility(lrq_requested[q], lrq_state[b])
  BY DEF HeldUp
<1>3. lrq_state[b] \in LckLevels /\ lrq_requested[b] \in LckLevels /\ lrq_requested[q] \in LckLevels
  BY DEF LrqOK
<1>4. CASE lrq_state[q] > LCK_null
  BY <1>2, <1>4 DEF WalkBlocks
<1>5. CASE ~(lrq_state[q] > LCK_null)
  <2>1. lrq_state[q] = LCK_none
    BY <1>5 DEF Asked, LrqOK, LckLevels, LCK_none, LCK_null, LCK_EX
  <2>2. lrq_state[b] # LCK_none
    BY <1>2, <1>3, Compatible
  <2>3. ~Ahead(lbl_requests[l], q, b)
    BY <1>1, <2>1, <2>2 DEF Ordered
  <2>4. Before(b, q)
    <3> DEFINE queue == lbl_requests[l]
    <3>1. DOMAIN queue = 1 .. Len(queue) /\ Len(queue) \in Nat
      BY <1>1
    <3>2. PICK i \in 1 .. Len(queue) : queue[i] = b
      BY <1>2, <3>1 DEF ToSet
    <3>3. PICK j \in 1 .. Len(queue) : queue[j] = q
      BY <1>1 DEF In
    <3>4. i # j /\ ~(j < i)
      BY <1>2, <2>3, <3>2, <3>3 DEF Ahead
    <3>5. i < j
      BY <3>1, <3>2, <3>3, <3>4
    <3> QED
      BY <3>1, <3>2, <3>3, <3>5 DEF Before
  <2>5. CASE ~compatibility(lrq_requested[q], Max({lrq_state[b], lrq_requested[b]}))
    BY <1>2, <1>5, <2>4, <2>5 DEF WalkBlocks
  <2>6. CASE compatibility(lrq_requested[q], Max({lrq_state[b], lrq_requested[b]}))
    BY <1>2, <1>3, <2>1, <2>6, OneException DEF Overlooked
  <2> QED
    BY <2>5, <2>6
<1> QED
  BY <1>4, <1>5

\* A scan that is certain has pursued the waiting requests of all owners it met.
LEMMA Certain ==
  ASSUME LblOK, QueueInv, BlockInv, NEW m, ~MaybeDeadlock(m), NEW q \in Pursued({m}),
         NEW b \in WalkBlocks(q), NEW s \in Patient, lrq_owner[s] = lrq_owner[b]
  PROVE  s \in WaitsFor(q) /\ s \in Pursued({m})
<1>1. s \in Requests /\ Pending(s) /\ "wait_timeout" \notin lrq_flags[s]
  BY DEF Patient, Waiting
<1>2. lrq_type[s] = "lrq"
  BY <1>1, PendingTyped
<1>3. ~Undecided(b)
  BY DEF MaybeDeadlock
<1>4. s \in WaitsFor(q)
  BY <1>1, <1>2, <1>3 DEF WaitsFor, own_pending, own_requests, Pending
<1> QED
  BY <1>4, PursuedClosed

\* Two conversions that hold up each other are no secret to the scan for one of them.
LEMMA Mutual ==
  ASSUME LblOK, QueueInv, BlockInv, NEW m \in Patient, ~MaybeDeadlock(m), Victims(m) = {},
         NEW v \in Patient, HeldUp(m, v), HeldUp(v, m),
         lrq_state[m] > LCK_null, lrq_state[v] > LCK_null
  PROVE  FALSE
<1>1. v \in WalkBlocks(m) /\ m \in WalkBlocks(v)
  BY DEF HeldUp, WalkBlocks
<1>2. m \in Pursued({m})
  BY PursuedStart DEF Patient, Waiting
<1>3. v \in WaitsFor(m) /\ v \in Pursued({m})
  BY <1>1, <1>2, Certain
<1>4. m \in WaitsFor(v)
  BY <1>1, <1>3, Certain
<1>5. v \in Pursued(WaitsFor(m))
  BY <1>3, PursuedStart DEF Patient, Waiting
<1>6. m \in Pursued(WaitsFor(m))
  BY <1>4, <1>5, PursuedClosed
<1> QED
  BY <1>2, <1>6 DEF Victims
\* A scan whose result was certain, and which found nothing, was not for the last owner of a deadlock
\* that was still to scan.
LEMMA MarkSound ==
  ASSUME LrqOK, LblOK, CallOK, ThreadInv, UseInv, QueueInv, BlockInv, PostInv, PendInv,
         GrantedCompatible, OneThreadEach, ScanInv,
         \A r \in Requests : Claim(r) /\ Asked(r),
         \A x, y \in Requests : Ordered(x, y),
         NEW m \in Requests, Marks(m),
         NEW S \in SUBSET Patient, m \in S, \A q \in S : Near(q, S),
         \A w \in S : ~Scanned(w) => w = m
  PROVE  FALSE
<1> DEFINE R == S \cap Pursued({m})
<1>1. \A s \in S : s \in Requests /\ s \in Patient /\ Waiting(s) /\ Pending(s) /\ lrq_type[s] = "lrq"
  BY PendingTyped DEF Patient, Waiting
<1>2. ~MaybeDeadlock(m) /\ Victims(m) = {} /\ holder = m /\ next = "scan"
  BY DEF Marks, deadlock_not_found, ScanDue, At
<1>3. m \in R
  BY <1>1, PursuedStart
<1>4. \A b \in Requests : call[b] # NoCall => call[b].op \in {"enqueue", "convert"}
  BY <1>2 DEF PostInv, Claim, InWait
<1>5. ASSUME NEW q \in S, NEW b \in Requests, HeldUp(q, b)
      PROVE  /\ b # q /\ lrq_type[b] = "lrq" /\ lrq_type[q] = "lrq" /\ lrq_lock[b] = lrq_lock[q]
             /\ ~compatibility(lrq_requested[q], lrq_state[b])
             /\ b \in ToSet(lbl_requests[lrq_lock[q]])
  BY <1>1, <1>5, HeldUpBy DEF Rival, Blocks, HeldUp
<1>6. ASSUME NEW q \in S, NEW b \in Requests, HeldUp(q, b), Overlooked(q, b),
             NEW s \in S, lrq_owner[s] = lrq_owner[b]
      PROVE  b = s
  <2>1. lrq_type[b] = "lrq"
    BY <1>5, <1>6
  <2>2. Home[lrq_owner[b]] \in running
    BY <1>1, <1>6 DEF Waiting, UseInv
  <2>3. ~Settled(b)
    BY <1>6 DEF Settled, Overlooked, LCK_PR, LCK_SW
  <2>4. call[b] # NoCall
    BY <2>1, <2>2, <2>3 DEF Asked
  <2> QED
    BY <1>1, <1>4, <1>6, <2>1, <2>4, OneWaiter
<1>7. ASSUME NEW q \in R, NEW b \in Requests, HeldUp(q, b), b \in WalkBlocks(q),
             NEW s \in S, lrq_owner[s] = lrq_owner[b]
      PROVE  \E t \in R : t \in WaitsFor(q)
  BY <1>1, <1>2, <1>7, Certain
<1>8. ASSUME NEW q \in R PROVE \E t \in R : t \in WaitsFor(q)
  <2>1. PICK b \in Requests : HeldUp(q, b) /\ \E s \in S : lrq_owner[s] = lrq_owner[b]
    BY <1>8 DEF Near
  <2>2. b \in WalkBlocks(q) \/ Overlooked(q, b)
    BY <1>1, <2>1, WalkSees
  <2>3. CASE Overlooked(q, b)
    <3>1. b \in S
      BY <1>6, <2>1, <2>3
    <3>2. PICK x \in Requests : HeldUp(b, x) /\ \E s \in S : lrq_owner[s] = lrq_owner[x]
      BY <3>1 DEF Near
    <3>3. /\ lrq_state[x] \in LckLevels /\ ~compatibility(LCK_SW, lrq_state[x])
          /\ compatibility(LCK_PR, lrq_state[x])
      BY <1>5, <2>3, <3>1, <3>2 DEF GrantedCompatible, Overlooked, LrqOK
    <3>4. lrq_state[x] = LCK_PR
      BY <3>3, OneException
    <3>5. HeldUp(q, x)
      <4>1. x # q
        BY <2>3, <3>4 DEF Overlooked, LCK_PR, LCK_none
      <4>2. x \in ToSet(lbl_requests[lrq_lock[q]])
        BY <1>5, <2>1, <3>1, <3>2
      <4> QED
        BY <2>3, <3>3, <4>1, <4>2 DEF HeldUp, Overlooked
    <3>6. CASE x \in WalkBlocks(q)
      BY <1>7, <3>2, <3>5, <3>6
    <3>7. CASE Overlooked(q, x)
      <4>1. x \in S
        BY <1>6, <3>2, <3>5, <3>7
      <4>2. HeldUp(x, b)
        <5>1. b # x /\ lrq_lock[b] = lrq_lock[x] /\ b \in ToSet(lbl_requests[lrq_lock[q]])
              /\ lrq_lock[b] = lrq_lock[q]
          BY <1>5, <2>1, <3>1, <3>2
        <5> QED
          BY <2>3, <3>4, <3>3, <3>7, <5>1 DEF HeldUp, Overlooked
      <4>3. Near(b, {b, x}) /\ Near(x, {b, x})
        BY <3>2, <4>2 DEF Near
      <4>4. b = m \/ x = m
        <5>1. {b, x} \in SUBSET Patient
          BY <3>1, <4>1
        <5>2. \E w \in {b, x} : ~Scanned(w)
          BY <4>3, <5>1 DEF ScanInv
        <5> QED
          BY <3>1, <4>1, <5>2
      <4>5. lrq_state[b] > LCK_null /\ lrq_state[x] > LCK_null
        BY <2>3, <3>7 DEF Overlooked, LCK_PR, LCK_null
      <4> QED
        BY <1>1, <1>2, <3>1, <3>2, <4>1, <4>2, <4>4, <4>5, Mutual
    <3> QED
      BY <1>1, <3>2, <3>5, <3>6, <3>7, WalkSees
  <2> QED
    BY <1>7, <2>1, <2>2, <2>3
<1>9. PICK q \in R : q \in Pursued(WaitsFor(q))
  <2>1. R \in SUBSET {r \in Requests : Pending(r)}
    BY <1>1
  <2> HIDE DEF R
  <2> QED
    BY <1>3, <1>8, <2>1, Circle
<1> QED
  BY <1>2, <1>9 DEF Victims
\* What is known of single requests and of pairs of them.
PairInv ==
  /\ \A r \in Requests : Claim(r) /\ Asked(r)
  /\ \A x, y \in Requests : Lowers(x, y) /\ Ordered(x, y)

\* A step marks an owner only where no deadlock is.
LEMMA ScanStep ==
  ASSUME LrqOK, LblOK, OwnOK, PrcOK, TableOK, CallOK, ThreadInv, UseInv, QueueInv,
         BlockInv, OwnerInv, PostInv, PendInv, GrantedCompatible, PairInv, OneThreadEach, ScanInv, Next,
         LrqOK', LblOK', QueueInv', BlockInv', NewInv
  PROVE  ScanInv'
<1> SUFFICES ASSUME NEW S \in SUBSET Patient', S # {}, \A q \in S : Near(q, S)', \A q \in S : Scanned(q)'
             PROVE  FALSE
  BY DEF ScanInv
<1>1. \A q \in S : q \in Requests /\ (q \in Patient)'
  BY DEF Patient
<1>2. \A q \in S : Waited(q)
  BY <1>1, WaitedStep
<1>3. S \in SUBSET Patient
  BY <1>2 DEF Waited
<1>4. ASSUME NEW q \in S PROVE Near(q, S)
  <2>1. PICK b \in Requests : HeldUp(q, b)' /\ \E s \in S : lrq_owner'[s] = lrq_owner'[b]
    BY DEF Near
  <2>2. PICK s \in S : lrq_owner'[b] = lrq_owner'[s]
    BY <2>1
  <2>3. HeldUp(q, b) /\ lrq_owner[b] = lrq_owner[s]
    BY <1>1, <2>1, <2>2, HeldBefore DEF PairInv
  <2> QED
    BY <2>3 DEF Near
<1>5. ASSUME NEW w \in S, ~Scanned(w) PROVE Marks(w)
  <2>1. PICK m \in Requests : Marks(m) /\ lrq_owner[m] = lrq_owner[w]
    BY <1>2, <1>5 DEF Waited
  <2>2. Pending(m) /\ lrq_type[m] = "lrq"
    BY <2>1, PendingTyped DEF Marks, ScanDue
  <2>3. w \in Requests /\ Waiting(w)
    BY <1>3 DEF Patient
  <2>4. m = w
    BY <2>1, <2>2, <2>3, OneWaiter DEF PairInv
  <2> QED
    BY <2>1, <2>4
<1>6. PICK m \in S : ~Scanned(m)
  BY <1>3, <1>4 DEF ScanInv
<1>7. m \in Requests /\ Marks(m)
  BY <1>1, <1>5, <1>6
<1>8. \A w \in S : ~Scanned(w) => w = m
  BY <1>5, <1>7 DEF Marks, ScanDue, At
<1> QED
  BY <1>3, <1>4, <1>7, <1>8, MarkSound DEF PairInv

\* An empty lock table satisfies all of it.
LEMMA DeadlockInit ==
  ASSUME Init
  PROVE  PairInv /\ ScanInv
<1>1. \A r \in Requests : Claim(r) /\ Asked(r)
  BY ConstantsAssumption DEF ConstantsAssumption, Init, Claim, Asked, InWait, Pending, Threads, Idle,
     LCK_none, LCK_null
<1>2. \A x, y \in Requests : Lowers(x, y) /\ Ordered(x, y)
  BY ConstantsAssumption DEF ConstantsAssumption, Init, Lowers, Ordered, Pending, Threads
<1>3. Patient = {}
  BY DEF Init, Patient, Waiting, Pending
<1> QED
  BY <1>1, <1>2, <1>3 DEF PairInv, ScanInv

\* Every step keeps it, if nobody asks for LCK_null.
LEMMA PairInvStep ==
  ASSUME LCK_null \notin Levels
  PROVE  KeptInv /\ GrantInv /\ RecountInv /\ PostInv /\ PairInv /\ [Next]_vars => PairInv'
<1> SUFFICES ASSUME KeptInv, GrantInv, RecountInv, PostInv, PairInv, [Next]_vars PROVE PairInv'
  OBVIOUS
<1>1. LrqOK /\ LblOK /\ OwnOK /\ PrcOK /\ TableOK /\ CallOK
  BY TypeParts DEF KeptInv, TableInv
<1>2. ThreadInv /\ UseInv /\ QueueInv /\ BlockInv /\ OwnerInv /\ PendInv
  BY DEF KeptInv, TableInv, PresenceInv, RecountInv
<1>3. CASE Next
  <2>1. \A r \in Requests : Claim(r)'
    BY <1>1, <1>2, <1>3, ClaimStep DEF PairInv
  <2>2. \A r \in Requests : Asked(r)'
    BY <1>1, <1>2, <1>3, AskedStep DEF PairInv
  <2>3. \A x, y \in Requests : Lowers(x, y)'
    BY <1>1, <1>2, <1>3, LowersStep DEF PairInv
  <2>4. \A x, y \in Requests : Ordered(x, y)'
    BY <1>1, <1>2, <1>3, OrderStep DEF PairInv
  <2> QED
    BY <2>1, <2>2, <2>3, <2>4 DEF PairInv
<1>4. CASE UNCHANGED vars
  <2> USE <1>4 DEF vars, lrqVars, lblVars, ownVars, prcVars, tableVars, threadVars
  <2>1. \A r \in Requests : Claim(r)' /\ Asked(r)'
    BY DEF PairInv, Claim, Asked, Settled, InWait, Pending
  <2>2. \A x, y \in Requests : Lowers(x, y)' /\ Ordered(x, y)'
    BY DEF PairInv, Lowers, Ordered, Blocks, Pending
  <2> QED
    BY <2>1, <2>2 DEF PairInv
<1> QED
  BY <1>3, <1>4

\* So does every step for what is known of the scans.
LEMMA ScanInvStep ==
  KeptInv /\ KeptInv' /\ GrantInv /\ RecountInv /\ PostInv /\ PairInv /\ OneThreadEach /\ ScanInv /\ [Next]_vars
    => ScanInv'
<1> SUFFICES ASSUME KeptInv, KeptInv', GrantInv, RecountInv, PostInv, PairInv, OneThreadEach, ScanInv,
                    [Next]_vars
             PROVE  ScanInv'
  OBVIOUS
<1>1. LrqOK /\ LblOK /\ OwnOK /\ PrcOK /\ TableOK /\ CallOK
  BY TypeParts DEF KeptInv, TableInv
<1>2. ThreadInv /\ UseInv /\ QueueInv /\ BlockInv /\ OwnerInv /\ PendInv /\ GrantedCompatible /\ NewInv
  BY DEF KeptInv, TableInv, PresenceInv, RecountInv, GrantInv
<1>3. LrqOK' /\ LblOK' /\ QueueInv' /\ BlockInv'
  <2>1. TypeOK' /\ QueueInv' /\ BlockInv'
    BY DEF KeptInv, TableInv
  <2>2. LrqOK' /\ LblOK'
    BY <2>1, Zenon DEF TypeOK, LrqOK, LblOK
  <2> QED
    BY <2>1, <2>2
<1>4. CASE Next
  BY <1>1, <1>2, <1>3, <1>4, ScanStep
<1>5. CASE UNCHANGED vars
  <2> USE <1>5 DEF vars, lrqVars, lblVars, ownVars, prcVars, tableVars, threadVars
  <2>1. Patient' = Patient
    BY DEF Patient, Waiting, Pending
  <2>2. \A q, S : Near(q, S)' = Near(q, S)
    BY DEF Near, HeldUp
  <2>3. \A q : Scanned(q)' = Scanned(q)
    BY DEF Scanned
  <2> QED
    BY <2>1, <2>2, <2>3 DEF ScanInv
<1> QED
  BY <1>4, <1>5

\* No deadlock escapes the scans for good: as long as requests of one owner wait one at a time, of
\* the owners of the requests on a deadlock one has still to scan.  The engine never
\* asks for LCK_null, and here nobody may: the scan takes a request that holds it for a new one.
THEOREM DeadlocksStayScanned ==
  ASSUME LCK_null \notin Levels
  PROVE  Spec /\ []OneThreadEach => []DeadlockStillScanned
<1>1. Init => GrantInv /\ RecountInv /\ PostInv /\ JustInv /\ PairInv /\ ScanInv
  BY GrantInvInit, RecountInit, JustInit, DeadlockInit
<1>2. KeptInv /\ GrantInv /\ RecountInv /\ PostInv /\ JustInv /\ [Next]_vars =>
        GrantInv' /\ RecountInv' /\ PostInv' /\ JustInv'
  BY GrantInvStep, RecountStep, JustInvStep DEF KeptInv
<1>3. KeptInv /\ GrantInv /\ RecountInv /\ PostInv /\ PairInv /\ [Next]_vars => PairInv'
  BY PairInvStep
<1>4. KeptInv /\ KeptInv' /\ GrantInv /\ RecountInv /\ PostInv /\ PairInv /\ OneThreadEach /\ ScanInv /\ [Next]_vars
        => ScanInv'
  BY ScanInvStep
<1>5. ScanInv => DeadlockStillScanned
  <2> SUFFICES ASSUME ScanInv, NEW r \in Requests, Deadlocked(r)
               PROVE  \E q \in Requests : Deadlocked(q) /\ "scanned" \notin own_flags[lrq_owner[q]]
    BY DEF DeadlockStillScanned
  <2>1. PICK S \in SUBSET Patient : r \in S /\ \A q \in S : Near(q, S)
    BY DEF Deadlocked, Near
  <2>2. PICK q \in S : ~Scanned(q)
    BY <2>1 DEF ScanInv
  <2>3. q \in Requests /\ Deadlocked(q)
    BY <2>1 DEF Patient, Deadlocked, Near
  <2> QED
    BY <2>2, <2>3 DEF Scanned
<1> QED
  BY <1>1, <1>2, <1>3, <1>4, <1>5, KeptInvHolds, PTL DEF Spec
\* Owners that are not shared by threads, and whose calls all wait, make them one at a time.
LEMMA OneThreadStep ==
  ASSUME CallOK, Next, Shared = {}, "nowait" \notin Waits, OneThreadEach
  PROVE  OneThreadEach'
<1> USE ConstantsAssumption DEF ConstantsAssumption, NoCall, lrqVars, lblVars, ownVars, prcVars,
       tableVars, threadVars, CallOK, OneThreadEach
<1>1. ASSUME NEW o \in Owners, NEW l \in Locks, NEW level \in Levels, NEW wait \in Waits,
             NEW ast \in Asts, NEW r \in Requests, enqueue(o, l, level, wait, ast, r)
       PROVE  OneThreadEach'
  BY <1>1 DEF enqueue, acquire_shmem, Usable, MayWait
<1>2. ASSUME NEW q \in Requests, NEW l \in Locks, NEW level \in Levels, NEW wait \in Waits,
             NEW ast \in Asts, NEW r \in Requests, enqueue_prior(q, l, level, wait, ast, r)
       PROVE  OneThreadEach'
  BY <1>2 DEF enqueue_prior, acquire_shmem, Known, Usable, release_request, Free, MayWait
<1>3. ASSUME NEW r \in Requests, NEW level \in Levels, NEW wait \in Waits,
             NEW ast \in Asts, convert(r, level, wait, ast)
       PROVE  OneThreadEach'
  BY <1>3 DEF convert, acquire_shmem, Known, Usable, MayWait
<1>4. ASSUME NEW r \in Requests, downgrade(r)
       PROVE  OneThreadEach'
  <2>1. \E c : c.op = "downgrade" /\ call' = [call EXCEPT ![r] = c]
    <3>1. ASSUME NEW level, NEW s, Reduce(r, "downgrade", level, s)
          PROVE  \E c : c.op = "downgrade" /\ call' = [call EXCEPT ![r] = c]
      <4> DEFINE c == [op |-> "downgrade", owner |-> lrq_owner[r], lock |-> lrq_lock[r],
                       level |-> level, wait |-> "nowait", ast |-> lrq_ast[r]]
      <4>1. c.op = "downgrade" /\ call' = [call EXCEPT ![r] = c]
        BY <3>1 DEF Reduce
      <4> HIDE DEF c
      <4> QED
        BY <4>1
    <3> QED
      BY <1>4, <3>1 DEF downgrade
  <2> QED
    BY <2>1
<1>5. ASSUME NEW r \in Requests, dequeue(r)
       PROVE  OneThreadEach'
  BY <1>5 DEF dequeue, Reduce, acquire_shmem, Known, Usable
<1>6. ASSUME NEW o \in Owners, NEW q \in Requests, repost(o, q)
       PROVE  OneThreadEach'
  BY <1>6 DEF repost, acquire_shmem
<1>7. ASSUME NEW o \in Owners, cancelWait(o)
       PROVE  OneThreadEach'
  BY <1>7 DEF cancelWait
<1>8. ASSUME NEW o \in Owners, Usable(o), initializeOwner_again(o)
       PROVE  OneThreadEach'
  BY <1>8 DEF initializeOwner_again
<1>9. ASSUME NEW o \in Owners, initializeOwner(o)
       PROVE  OneThreadEach'
  BY <1>9 DEF initializeOwner, acquire_shmem
<1>10. ASSUME NEW o \in Owners, shutdownOwner(o)
       PROVE  OneThreadEach'
  BY <1>10 DEF shutdownOwner, Usable, Quiet
<1>11. ASSUME NEW p \in Processes, destroy(p)
       PROVE  OneThreadEach'
  BY <1>11 DEF destroy, Quiet
<1>12. ASSUME NEW r \in Requests, enqueue_insert(r)
       PROVE  OneThreadEach'
  BY <1>12 DEF enqueue_insert, At, Goto
<1>13. ASSUME NEW r \in Requests, enqueue_grant(r)
       PROVE  OneThreadEach'
  BY <1>13 DEF enqueue_grant, Succeed, At, Goto, grant
<1>14. ASSUME NEW r \in Requests, grant_or_que_grant(r)
       PROVE  OneThreadEach'
  BY <1>14 DEF grant_or_que_grant, Succeed, At, grant
<1>15. ASSUME NEW r \in Requests, grant_or_que_block(r)
       PROVE  OneThreadEach'
  BY <1>15 DEF grant_or_que_block, At, Goto
<1>16. ASSUME NEW r \in Requests, internal_dequeue(r)
       PROVE  OneThreadEach'
  BY <1>16 DEF internal_dequeue, At, release_request, Free
<1>17. ASSUME NEW r \in Requests, internal_convert_grant(r)
       PROVE  OneThreadEach'
  BY <1>17 DEF internal_convert_grant, Succeed, At, grant
<1>18. ASSUME NEW r \in Requests, internal_convert_block(r)
       PROVE  OneThreadEach'
  BY <1>18 DEF internal_convert_block, At, Goto
<1>19. ASSUME NEW r \in Requests, internal_convert_undo(r)
       PROVE  OneThreadEach'
  BY <1>19 DEF internal_convert_undo, Fail, At, Goto
<1>20. ASSUME NEW r \in Requests, wait_for_request(r)
       PROVE  OneThreadEach'
  BY <1>20 DEF wait_for_request, At, Goto
<1>21. ASSUME NEW r \in Requests, post_blockage(r)
       PROVE  OneThreadEach'
  BY <1>21 DEF post_blockage, At, Goto
<1>22. ASSUME NEW r \in Requests, purge_unreachable(r)
       PROVE  OneThreadEach'
  BY <1>22 DEF purge_unreachable, At
<1>23. ASSUME NEW r \in Requests, NEW b \in Owners, skip_owner(r, b)
       PROVE  OneThreadEach'
  BY <1>23 DEF skip_owner, At
<1>24. ASSUME NEW r \in Requests, NEW b \in Owners, signal_owner(r, b)
       PROVE  OneThreadEach'
  BY <1>24 DEF signal_owner, signal_locally, signal_remotely, signal_fails, At
<1>25. ASSUME NEW r \in Requests, wait_resolved(r)
       PROVE  OneThreadEach'
  BY <1>25 DEF wait_resolved, At, Goto
<1>26. ASSUME NEW r \in Requests, wait_again(r)
       PROVE  OneThreadEach'
  BY <1>26 DEF wait_again, At, Goto
<1>27. ASSUME NEW r \in Requests, wait_sleep(r)
       PROVE  OneThreadEach'
  BY <1>27 DEF wait_sleep, At
<1>28. ASSUME NEW r \in Requests, event_wait(r)
       PROVE  OneThreadEach'
  BY <1>28 DEF event_wait, acquire_shmem
<1>29. ASSUME NEW r \in Requests, wait_expired(r)
       PROVE  OneThreadEach'
  BY <1>29 DEF wait_expired, At
<1>30. ASSUME NEW r \in Requests, wait_woken(r)
       PROVE  OneThreadEach'
  BY <1>30 DEF wait_woken, At, Goto
<1>31. ASSUME NEW r \in Requests, wait_probe(r)
       PROVE  OneThreadEach'
  BY <1>31 DEF wait_probe, At
<1>32. ASSUME NEW r \in Requests, wait_granted(r)
       PROVE  OneThreadEach'
  BY <1>32 DEF wait_granted, Succeed, At, Goto
<1>33. ASSUME NEW r \in Requests, wait_rejected(r)
       PROVE  OneThreadEach'
  BY <1>33 DEF wait_rejected, At
<1>34. ASSUME NEW r \in Requests, NEW v \in Requests, deadlock_found(r, v)
       PROVE  OneThreadEach'
  BY <1>34 DEF deadlock_found, ScanDue, At, Goto
<1>35. ASSUME NEW r \in Requests, deadlock_not_found(r)
       PROVE  OneThreadEach'
  BY <1>35 DEF deadlock_not_found, At, Goto
<1>36. ASSUME NEW r \in Requests, PostPendingGrant(r)
       PROVE  OneThreadEach'
  BY <1>36 DEF PostPendingGrant, grant
<1>37. ASSUME NEW r \in Requests, purge_owner_request(r)
       PROVE  OneThreadEach'
  BY <1>37 DEF purge_owner_request, release_request, Free
<1>38. ASSUME NEW r \in Requests, purge_owner_repost(r)
       PROVE  OneThreadEach'
  BY <1>38 DEF purge_owner_repost, Free
<1>39. CASE PostPendingEnd
  BY <1>39 DEF PostPendingEnd
<1>40. ASSUME NEW o \in Owners, purge_owner(o)
       PROVE  OneThreadEach'
  BY <1>40 DEF purge_owner
<1>41. ASSUME NEW o \in Owners, create_owner(o)
       PROVE  OneThreadEach'
  BY <1>41 DEF create_owner, At
<1>42. ASSUME NEW o \in Owners, shutdownOwner_awake(o)
       PROVE  OneThreadEach'
  BY <1>42 DEF shutdownOwner_awake, acquire_shmem
<1>43. ASSUME NEW p \in Processes, purge_process(p)
       PROVE  OneThreadEach'
  BY <1>43 DEF purge_process
<1>44. ASSUME NEW t \in Threads, release_shmem(t)
       PROVE  OneThreadEach'
  BY <1>44 DEF release_shmem, At
<1>45. ASSUME NEW t \in Threads, NEW q \in Requests, blocking_action(t, q)
       PROVE  OneThreadEach'
  BY <1>45 DEF blocking_action, Serving
<1>46. ASSUME NEW t \in Threads, ast_return(t)
       PROVE  OneThreadEach'
  BY <1>46 DEF ast_return, acquire_shmem, AfterAction
<1>47. ASSUME NEW t \in Threads, blocking_action_end(t)
       PROVE  OneThreadEach'
  BY <1>47 DEF blocking_action_end, Serving
<1>48. ASSUME NEW p \in Processes, blocking_thread_wake(p)
       PROVE  OneThreadEach'
  BY <1>48 DEF blocking_thread_wake, acquire_shmem
<1>49. ASSUME NEW p \in Processes, blocking_thread_sleep(p)
       PROVE  OneThreadEach'
  BY <1>49 DEF blocking_thread_sleep, At, Goto
<1>50. ASSUME NEW p \in Processes, NEW o \in Owners, blocking_thread_serve(p, o)
       PROVE  OneThreadEach'
  BY <1>50 DEF blocking_thread_serve, At
<1>51. ASSUME NEW p \in Processes, die(p)
       PROVE  OneThreadEach'
  BY <1>51 DEF die, Idle
<1> QED
  BY <1>1, <1>2, <1>3, <1>4, <1>5, <1>6, <1>7, <1>8, <1>9, <1>10, <1>11, <1>12, <1>13, <1>14, <1>15,
     <1>16, <1>17, <1>18, <1>19, <1>20, <1>21, <1>22, <1>23, <1>24, <1>25, <1>26, <1>27, <1>28,
     <1>29, <1>30, <1>31, <1>32, <1>33, <1>34, <1>35, <1>36, <1>37, <1>38, <1>39, <1>40, <1>41,
     <1>42, <1>43, <1>44, <1>45, <1>46, <1>47, <1>48, <1>49, <1>50, <1>51
     DEF Next, Client, RequestStep, TableStep, AstStep, Crash

\* So it is when no owner is shared by threads and nobody refuses to wait: a deadlock does not
\* escape the scans then.
THEOREM DeadlocksScannedAlone ==
  ASSUME LCK_null \notin Levels, Shared = {}, "nowait" \notin Waits
  PROVE  Spec => []DeadlockStillScanned
<1>1. Init => OneThreadEach
  BY DEF Init, OneThreadEach
<1>2. KeptInv /\ OneThreadEach /\ [Next]_vars => OneThreadEach'
  <2> SUFFICES ASSUME KeptInv, OneThreadEach, [Next]_vars PROVE OneThreadEach'
    OBVIOUS
  <2>1. CallOK
    BY TypeParts DEF KeptInv, TableInv
  <2>2. CASE Next
    BY <2>1, <2>2, OneThreadStep
  <2>3. CASE UNCHANGED vars
    BY <2>3 DEF vars, threadVars, OneThreadEach
  <2> QED
    BY <2>2, <2>3
<1>3. Spec /\ []OneThreadEach => []DeadlockStillScanned
  BY DeadlocksStayScanned
<1> QED
  BY <1>1, <1>2, <1>3, KeptInvHolds, PTL DEF Spec
=============================================================================
