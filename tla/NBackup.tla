------------------------------ MODULE NBackup ------------------------------
(* Physical backup: the backup state of jrd/nbak.cpp with its two locks, the *)
(* local one between the threads of a process (localStateLock, an RWLock) and *)
(* the global one between processes (NBackupStateLock over GlobalRWLock over  *)
(* the lock manager), and what the page cache does under them: where a page   *)
(* is read from and written to, and the merge of the difference file.         *)
(*                                                                            *)
(* An action is the code between two places where another thread, the AST     *)
(* thread of the process or another process can come in; the code under       *)
(* GlobalRWLock::counterMutex is one action.  The table of the difference     *)
(* file is read and extended under LCK_backup_alloc, which is not modelled: a *)
(* look at the table or an allocation is one action.                          *)
EXTENDS Integers

CONSTANTS
  Procs, Threads,
  Home,       \* the process of a thread
  Masters,    \* the threads that begin and end backups
  Pages,      \* pages of the database besides the header
  Prefer,     \* whom the RWLock prefers, "readers" or "writers"
  MaxWrites,  \* bound on the changes of pages
  MaxScn,     \* bound on the changes of the backup state
  MaxCrash,   \* bound on the processes that die
  None

ASSUME NBackupAssumption ==
  /\ None \notin Procs \union Threads \union Pages /\ Threads \intersect Pages = {}
  /\ Home \in [Threads -> Procs] /\ Masters \subseteq Threads /\ Prefer \in {"readers", "writers"}
  /\ MaxWrites \in Nat /\ MaxScn \in Nat /\ MaxCrash \in Nat

VARIABLES
  header,  \* the header page in the database file: hdr_backup_mask, pag_scn
  hlock,   \* the thread that has fetched the header page for writing
  ending,  \* the thread that holds LCK_backup_end
  file,    \* the database file
  delta,   \* the difference file: the pages of its table, Blank before they are written
  latest,  \* the number of the last change of a page
  buf,     \* the buffer of a page in the cache
  dirty,   \* the process in whose cache the page is dirty
  busy,    \* the thread that has fetched the page for writing
  target,  \* pages whose bdb_difference_page is set
  stamped, \* pages with BDB_nbak_state_lock, a read lock of localStateLock
  guard,   \* threads in a StateReadGuard, another such lock
  writer,  \* localStateLock: who holds it for writing
  bm,      \* BackupManager of each process
  gl,      \* its NBackupStateLock
  ast,     \* how far NBackupStateLock::blockingAstHandler has got
  th,      \* the threads
  writes,  \* what MaxWrites counts
  crashes  \* what MaxCrash counts

disk == <<header, file, delta>>
pool == <<latest, buf, dirty, busy, target, stamped, writes>>
locks == <<hlock, ending, guard, writer>>
vars == <<disk, pool, locks, bm, gl, ast, th, crashes>>

Blank == [v |-> 0, scn |-> 0]
NoTable == [pg \in {} |-> Blank]
Idle == [pc |-> "idle", op |-> "none", why |-> "none", page |-> None, left |-> {}]
NewManager == [state |-> "unknown", scn |-> 0, table |-> {}, flush |-> FALSE,
               master |-> FALSE, stateBlocking |-> FALSE]
NewLock == [phys |-> "none", want |-> "none", told |-> FALSE,
            pending |-> None, writer |-> FALSE, blocking |-> FALSE]
NoAst == [pc |-> "none", left |-> {}]

Init ==
  /\ header = [state |-> "normal", scn |-> 1]
  /\ hlock = None /\ ending = None
  /\ file = [pg \in Pages |-> [v |-> 1, scn |-> 1]]
  /\ delta = NoTable
  /\ latest = [pg \in Pages |-> 1]
  /\ buf = [pg \in Pages |-> Blank]
  /\ dirty = [pg \in Pages |-> None]
  /\ busy = [pg \in Pages |-> None]
  /\ target = {} /\ stamped = {} /\ guard = {}
  /\ writer = [p \in Procs |-> None]
  /\ bm = [p \in Procs |-> NewManager]
  /\ gl = [p \in Procs |-> NewLock]
  /\ ast = [p \in Procs |-> NoAst]
  /\ th = [t \in Threads |-> Idle]
  /\ writes = 0 /\ crashes = 0

At(t, pc) == th[t].pc = pc
Goto(t, pc) == th' = [th EXCEPT ![t].pc = pc]
Dirty(p) == {pg \in Pages : dirty[pg] = p}

(***************************************************************************)
(* localStateLock                                                          *)
(***************************************************************************)

\* A page is a reader from the mark until it is written, whoever writes it.
Readers(p) ==
  {t \in guard : Home[t] = p}
    \union {pg \in stamped : dirty[pg] = p \/ (busy[pg] # None /\ Home[busy[pg]] = p)}
Free(p) == Readers(p) = {} /\ writer[p] = None

MayRead(p) ==
  /\ writer[p] = None
  /\ Prefer = "writers" => \A t \in Threads : Home[t] = p => ~At(t, "beginWrite")

(***************************************************************************)
(* The global lock                                                         *)
(***************************************************************************)

\* NBackupStateLock::invalidate and the release of the lock.
Invalid(b) == [b EXCEPT !.state = "unknown"]

\* A mutant: the state is believed after the lock is gone.
Without_kept(b, phys) == b

\* The state of a process whose lock has now the level phys.
Without(b, phys) == IF phys = "none" THEN Invalid(b) ELSE b
Gone(g) == [g EXCEPT !.phys = "none", !.told = FALSE, !.blocking = FALSE]

\* Other processes wait for a lock that conflicts with the one p holds.
WantedFrom(p, level) == \E q \in Procs \ {p} : gl[q].want = level
Conflict(p) ==
  \/ gl[p].phys # "none" /\ WantedFrom(p, "write")
  \/ gl[p].phys = "write" /\ WantedFrom(p, "read")

\* LCK_downgrade: to the highest level the others can bear.
Downgraded(p) ==
  IF gl[p].phys # "none" /\ WantedFrom(p, "write") THEN "none"
  ELSE IF gl[p].phys = "write" /\ WantedFrom(p, "read") THEN "read" ELSE gl[p].phys

\* The lock manager grants the lock p waits for.
Grant(p) ==
  /\ gl[p].want # "none"
  /\ \A q \in Procs \ {p} : gl[q].phys = "none" \/ (gl[q].phys = "read" /\ gl[p].want = "read")
  /\ gl' = [gl EXCEPT ![p].phys = gl[p].want, ![p].want = "none", ![p].told = FALSE]
  /\ UNCHANGED <<disk, pool, locks, bm, ast, th, crashes>>

\* A mutant: missed_cycle is not looked for.
Actualized_kept(b) ==
  [b EXCEPT !.flush = FALSE, !.state = header.state, !.scn = header.scn,
            !.table = IF header.state = "normal" THEN {} ELSE @]

\* BackupManager::actualizeState, after fetch has ended the flush.
Actualized(b) ==
  [b EXCEPT !.flush = FALSE, !.state = header.state, !.scn = header.scn,
            !.table = IF header.state = "normal" \/ header.scn - b.scn > 1 THEN {} ELSE @]

\* Readers(p) of a process become left.  unlockStateRead after endRead: the
\* last reader releases the lock that an AST could not release.
Late(p, left) == bm[p].stateBlocking /\ left = {} /\ writer[p] = None
Left(b, p, left) == IF Late(p, left) THEN Invalid([b EXCEPT !.stateBlocking = FALSE]) ELSE b
LockLeft(p, left) == gl' = IF Late(p, left) THEN [gl EXCEPT ![p] = Gone(@)] ELSE gl
Released(p, left) == bm' = [bm EXCEPT ![p] = Left(@, p, left)] /\ LockLeft(p, left)

(***************************************************************************)
(* lockStateRead                                                           *)
(***************************************************************************)

\* beginRead; a page that is to be marked becomes the reader.
Enter(t) ==
  LET p == Home[t] IN
  /\ At(t, "enter") /\ MayRead(p)
  /\ IF th[t].why = "mark"
     THEN stamped' = stamped \union {th[t].page} /\ UNCHANGED guard
     ELSE guard' = guard \union {t} /\ UNCHANGED stamped
  /\ Goto(t, IF bm[p].state = "unknown" THEN "lockRead" ELSE th[t].why)
  /\ UNCHANGED <<disk, latest, buf, dirty, busy, target, writes, hlock, ending, writer, bm, gl, ast, crashes>>

\* GlobalRWLock::lockRead, and unlockRead at once when the lock is held.
LockRead(t) ==
  LET p == Home[t] IN
  /\ At(t, "lockRead") /\ gl[p].pending = None /\ ~gl[p].writer
  /\ IF gl[p].phys # "none"
     THEN /\ bm' = IF gl[p].blocking THEN [bm EXCEPT ![p] = Invalid(@)] ELSE bm
          /\ gl' = IF gl[p].blocking THEN [gl EXCEPT ![p] = Gone(@)] ELSE gl
          /\ Goto(t, th[t].why)
     ELSE /\ gl' = [gl EXCEPT ![p].pending = t, ![p].want = "read"]
          /\ Goto(t, "waitRead") /\ UNCHANGED bm
  /\ UNCHANGED <<disk, pool, locks, ast, crashes>>

\* lockRead goes on with fetch; unlockRead, which gives the lock up again when
\* an AST has come meanwhile.
GrantedRead(t) ==
  LET p == Home[t] IN
  /\ At(t, "waitRead") /\ gl[p].want = "none"
  /\ bm' = [bm EXCEPT ![p] = IF gl[p].blocking THEN Invalid(Actualized(@)) ELSE Actualized(@)]
  /\ gl' = [gl EXCEPT ![p] = [IF gl[p].blocking THEN Gone(@) ELSE @ EXCEPT !.pending = None]]
  /\ Goto(t, th[t].why)
  /\ UNCHANGED <<disk, pool, locks, ast, crashes>>

(***************************************************************************)
(* Pages                                                                   *)
(***************************************************************************)

\* A thread fetches a page for writing; its lock, and the buffer that is dirty
\* in the cache of another process, must be had first.
Fetched(t, pg) ==
  /\ busy[pg] = None /\ dirty[pg] \in {None, Home[t]}
  /\ busy' = [busy EXCEPT ![pg] = t]

\* A clean buffer is read again.  A page that is dirty is marked under the
\* lock it has.
Fetch(t, pg) ==
  /\ At(t, "idle") /\ Fetched(t, pg)
  /\ dirty[pg] # None => writes < MaxWrites
  /\ th' = [th EXCEPT ![t] = [@ EXCEPT !.op = "change", !.page = pg, !.why = "read",
                                      !.pc = IF dirty[pg] = None THEN "enter" ELSE "mark"]]
  /\ UNCHANGED <<disk, latest, buf, dirty, target, stamped, writes, locks, bm, gl, ast, crashes>>

\* A mutant: a page never written to the difference file is not read again.
Stored_blank(p, pg) ==
  IF bm[p].state # "normal" /\ pg \in bm[p].table \union DOMAIN delta
  THEN IF pg \notin DOMAIN delta THEN Blank ELSE delta[pg]
  ELSE file[pg]

\* What CCH_fetch_page finds: in the difference file if the page has been
\* written there.  A page of a table that is not that of the present
\* difference file is not there.
Stored(p, pg) ==
  IF bm[p].state # "normal" /\ pg \in bm[p].table \union DOMAIN delta
  THEN IF pg \notin DOMAIN delta THEN Blank
       ELSE IF delta[pg] = Blank THEN file[pg] ELSE delta[pg]
  ELSE file[pg]

\* getPageIndex reads the table when it does not know the page.
Looked(b, pg) ==
  IF b.state # "normal" /\ pg \notin b.table THEN [b EXCEPT !.table = DOMAIN delta] ELSE b

\* CCH_fetch_page; the thread goes on to CCH_mark or only releases the page.
\* The StateReadGuard of endBackup is left later.
Read(t) ==
  LET p == Home[t]
      pg == th[t].page
      left == Readers(p) \ {t}
  IN
  /\ At(t, "read")
  /\ buf' = [buf EXCEPT ![pg] = Stored(p, pg)]
  /\ \/ /\ th[t].op = "change"
        /\ guard' = guard \ {t}
        /\ bm' = [bm EXCEPT ![p] = Left(Looked(@, pg), p, left)] /\ LockLeft(p, left)
        /\ \/ /\ writes < MaxWrites /\ UNCHANGED busy
              /\ th' = [th EXCEPT ![t].pc = "enter", ![t].why = "mark"]
           \/ th' = [th EXCEPT ![t] = Idle] /\ busy' = [busy EXCEPT ![pg] = None]
     \/ /\ th[t].op = "merge"
        /\ bm' = [bm EXCEPT ![p] = Looked(@, pg)]
        /\ IF Stored(p, pg).scn # bm[p].scn
           THEN th' = [th EXCEPT ![t].pc = "enter", ![t].why = "mark"] /\ UNCHANGED busy
           ELSE Goto(t, "merge") /\ busy' = [busy EXCEPT ![pg] = None]
        /\ UNCHANGED <<guard, gl>>
  /\ UNCHANGED <<disk, latest, dirty, target, stamped, writes, hlock, ending, writer, ast, crashes>>

\* set_diff_page under the lock, and CCH_release.  To note a new SCN another
\* page is fetched, which needs another read lock.
Mark(t) ==
  LET p == Home[t]
      pg == th[t].page
      change == IF th[t].op = "change" THEN 1 ELSE 0
      stalled == bm[p].state = "stalled"
  IN
  /\ At(t, "mark")
  /\ buf[pg].scn # bm[p].scn => MayRead(p)
  /\ writes' = writes + change
  /\ latest' = [latest EXCEPT ![pg] = @ + change]
  /\ buf' = [buf EXCEPT ![pg] = [v |-> @.v + change, scn |-> bm[p].scn]]
  /\ dirty' = [dirty EXCEPT ![pg] = p]
  /\ busy' = [busy EXCEPT ![pg] = None]
  /\ delta' = IF stalled /\ pg \notin bm[p].table \union DOMAIN delta
              THEN [q \in DOMAIN delta \union {pg} |-> IF q = pg THEN Blank ELSE delta[q]] ELSE delta
  /\ bm' = [bm EXCEPT ![p] = IF stalled /\ pg \notin @.table
                             THEN [@ EXCEPT !.table = DOMAIN delta'] ELSE Looked(@, pg)]
  /\ target' = IF pg \in bm'[p].table /\ bm[p].state \in {"stalled", "merge"}
               THEN target \union {pg} ELSE target
  /\ th' = [th EXCEPT ![t] = IF @.op = "merge" THEN [@ EXCEPT !.pc = "merge"] ELSE Idle]
  /\ UNCHANGED <<header, file, stamped, locks, gl, ast, crashes>>

\* The end of write_page: the page has no place in the difference file now.
Untargeted(pg) == target \ {pg}

\* write_page: by the thread that changed the page, a flush, the AST of the
\* page lock or the cache writer.
Write(pg) ==
  LET p == dirty[pg]
      todelta == bm[p].state = "stalled" \/ (bm[p].state = "merge" /\ pg \in target)
  IN
  /\ p # None /\ busy[pg] = None
  /\ delta' = IF todelta /\ pg \in DOMAIN delta THEN [delta EXCEPT ![pg] = buf[pg]] ELSE delta
  /\ file' = IF bm[p].state = "stalled" THEN file ELSE [file EXCEPT ![pg] = buf[pg]]
  /\ dirty' = [dirty EXCEPT ![pg] = None]
  /\ target' = Untargeted(pg)
  /\ stamped' = stamped \ {pg}
  /\ Released(p, Readers(p) \ {pg})
  /\ ast' = [ast EXCEPT ![p].left = @ \ {pg}]
  /\ th' = [t \in Threads |-> IF th[t].pc = "flush" THEN [th[t] EXCEPT !.left = @ \ {pg}] ELSE th[t]]
  /\ UNCHANGED <<header, latest, buf, busy, writes, locks, crashes>>

(***************************************************************************)
(* StateWriteGuard                                                         *)
(***************************************************************************)

\* beginFlush and the start of CCH_flush, the master's flag set before it.
Flush(t, op, b) ==
  /\ bm' = [bm EXCEPT ![Home[t]] = [b EXCEPT !.master = TRUE, !.flush = TRUE]]
  /\ th' = [th EXCEPT ![t] = [Idle EXCEPT !.pc = "flush", !.op = op, !.left = Dirty(Home[t])]]

\* CCH_FETCH of the header page, its lock, ...
FetchHeader(t) ==
  /\ At(t, "flush") /\ th[t].left = {} /\ th[t].op # "merge"
  /\ hlock = None
  /\ hlock' = t
  /\ th' = [th EXCEPT ![t].pc = "enter", ![t].why = "header"]
  /\ UNCHANGED <<disk, pool, ending, guard, writer, bm, gl, ast, crashes>>

\* ... and the read, whose StateReadGuard is left.
ReadHeader(t) ==
  /\ At(t, "header")
  /\ guard' = guard \ {t}
  /\ Released(Home[t], Readers(Home[t]) \ {t})
  /\ Goto(t, "beginWrite")
  /\ UNCHANGED <<disk, pool, hlock, ending, writer, ast, crashes>>

\* localStateLock.beginWrite
BeginWrite(t) ==
  /\ At(t, "beginWrite") /\ Free(Home[t])
  /\ writer' = [writer EXCEPT ![Home[t]] = t]
  /\ Goto(t, "lockWrite")
  /\ UNCHANGED <<disk, pool, hlock, ending, guard, bm, gl, ast, crashes>>

\* GlobalRWLock::lockWrite: the lock is held already, or it is given up to be
\* asked for again; endFlush
LockWrite(t) ==
  LET p == Home[t] IN
  /\ At(t, "lockWrite") /\ gl[p].pending = None
  /\ IF gl[p].phys = "write"
     THEN /\ gl' = [gl EXCEPT ![p].writer = TRUE]
          /\ bm' = [bm EXCEPT ![p].flush = FALSE]
          /\ Goto(t, "locked")
     ELSE /\ gl' = [gl EXCEPT ![p] = [(IF @.phys = "none" THEN @ ELSE Gone(@))
                                        EXCEPT !.pending = t, !.want = "write"]]
          /\ bm' = IF gl[p].phys = "none" THEN bm ELSE [bm EXCEPT ![p] = Invalid(@)]
          /\ Goto(t, "waitWrite")
  /\ UNCHANGED <<disk, pool, locks, ast, crashes>>

GrantedWrite(t) ==
  LET p == Home[t] IN
  /\ At(t, "waitWrite") /\ gl[p].want = "none"
  /\ gl' = [gl EXCEPT ![p].pending = None, ![p].writer = TRUE]
  /\ bm' = [bm EXCEPT ![p] = Actualized(@)]
  /\ Goto(t, "locked")
  /\ UNCHANGED <<disk, pool, locks, ast, crashes>>

\* ~StateWriteGuard after the state became b: the header page is released,
\* unlockWrite, endWrite.  An AST has found the lock in use: it is downgraded.
UnlockWrite(t, b) ==
  LET p == Home[t]
      phys == IF gl[p].blocking THEN Downgraded(p) ELSE gl[p].phys
  IN
  /\ hlock' = None
  /\ writer' = [writer EXCEPT ![p] = None]
  /\ gl' = [gl EXCEPT ![p].writer = FALSE, ![p].blocking = FALSE, ![p].phys = phys,
                      ![p].told = @ /\ phys = gl[p].phys]
  /\ bm' = [bm EXCEPT ![p] = Without(b, phys)]

\* A new state of the backup, with a new SCN, in the header page and in memory.
NewState(p, state) == header' = [state |-> state, scn |-> bm[p].scn + 1]

Changed(b, state) == [b EXCEPT !.state = state, !.scn = @ + 1]

(***************************************************************************)
(* beginBackup and endBackup                                               *)
(***************************************************************************)

BeginBackup(t) ==
  /\ t \in Masters /\ At(t, "idle") /\ header.scn < MaxScn
  /\ Flush(t, "begin", bm[Home[t]])
  /\ UNCHANGED <<disk, pool, locks, gl, ast, crashes>>

\* An empty difference file is created.
Stall(t) ==
  LET p == Home[t] IN
  /\ At(t, "locked") /\ th[t].op = "begin"
  /\ IF bm[p].state = "normal"
     THEN /\ NewState(p, "stalled") /\ delta' = NoTable
          /\ UnlockWrite(t, [Changed(bm[p], "stalled") EXCEPT !.master = FALSE])
     ELSE UnlockWrite(t, [bm[p] EXCEPT !.master = FALSE]) /\ UNCHANGED <<header, delta>>
  /\ th' = [th EXCEPT ![t] = Idle]
  /\ UNCHANGED <<file, pool, ending, guard, ast, crashes>>

\* LCK_backup_end is not waited for.
EndBackup(t) ==
  /\ t \in Masters /\ At(t, "idle") /\ header.scn < MaxScn
  /\ ending = None
  /\ ending' = t
  /\ bm' = [bm EXCEPT ![Home[t]].master = TRUE]
  /\ th' = [th EXCEPT ![t] = [Idle EXCEPT !.op = "end", !.pc = "enter", !.why = "check"]]
  /\ UNCHANGED <<disk, pool, hlock, guard, writer, gl, ast, crashes>>

\* The state is looked at under a StateReadGuard ...
Check(t) ==
  LET p == Home[t]
      left == Readers(p) \ {t}
  IN
  /\ At(t, "check")
  /\ guard' = guard \ {t}
  /\ LockLeft(p, left)
  /\ IF bm[p].state \in {"stalled", "merge"}
     THEN Flush(t, "end", Left(bm[p], p, left)) /\ UNCHANGED ending
     ELSE /\ bm' = [bm EXCEPT ![p] = [Left(@, p, left) EXCEPT !.master = FALSE]]
          /\ th' = [th EXCEPT ![t] = Idle] /\ ending' = None
  /\ UNCHANGED <<disk, pool, hlock, writer, ast, crashes>>

\* ... and again under the write guard.
StartMerge(t) ==
  LET p == Home[t] IN
  /\ At(t, "locked") /\ th[t].op = "end"
  /\ IF bm[p].state \in {"stalled", "merge"}
     THEN /\ NewState(p, "merge") /\ UnlockWrite(t, Changed(bm[p], "merge"))
          /\ th' = [th EXCEPT ![t] = [@ EXCEPT !.op = "merge", !.pc = "enter", !.why = "table"]]
          /\ UNCHANGED ending
     ELSE /\ UnlockWrite(t, [bm[p] EXCEPT !.master = FALSE])
          /\ th' = [th EXCEPT ![t] = Idle] /\ ending' = None /\ UNCHANGED header
  /\ UNCHANGED <<file, delta, pool, guard, ast, crashes>>

\* A mutant: the merge takes the table as this process knows it.
Table_cached(t) ==
  /\ At(t, "table")
  /\ bm' = [bm EXCEPT ![Home[t]].table = DOMAIN delta]
  /\ th' = [th EXCEPT ![t] = [@ EXCEPT !.pc = "merge", !.left = bm[Home[t]].table]]
  /\ UNCHANGED <<disk, pool, locks, gl, ast, crashes>>

\* actualizeAlloc
Table(t) ==
  /\ At(t, "table")
  /\ bm' = [bm EXCEPT ![Home[t]].table = DOMAIN delta]
  /\ th' = [th EXCEPT ![t] = [@ EXCEPT !.pc = "merge", !.left = DOMAIN delta]]
  /\ UNCHANGED <<disk, pool, locks, gl, ast, crashes>>

\* The pages of the table are fetched, those not yet of this SCN are marked.
Merge(t, pg) ==
  LET p == Home[t] IN
  /\ At(t, "merge") /\ pg \in th[t].left
  /\ IF dirty[pg] = p /\ buf[pg].scn = bm[p].scn
     THEN /\ busy[pg] = None
          /\ th' = [th EXCEPT ![t].left = @ \ {pg}] /\ UNCHANGED busy
     ELSE /\ Fetched(t, pg)
          /\ th' = [th EXCEPT ![t].page = pg, ![t].left = @ \ {pg},
                              ![t].pc = IF dirty[pg] = p THEN "mark" ELSE "read"]
  /\ UNCHANGED <<disk, latest, buf, dirty, target, stamped, writes, locks, bm, gl, ast, crashes>>

MergeFlush(t) ==
  /\ At(t, "merge") /\ th[t].left = {}
  /\ th' = [th EXCEPT ![t].pc = "flush", ![t].left = Dirty(Home[t])]
  /\ UNCHANGED <<disk, pool, locks, bm, gl, ast, crashes>>

\* The StateReadGuard of the merge is left, the last write guard begins.
Merged(t) ==
  LET left == Readers(Home[t]) \ {t} IN
  /\ At(t, "flush") /\ th[t].op = "merge" /\ th[t].left = {}
  /\ guard' = guard \ {t}
  /\ LockLeft(Home[t], left) /\ Flush(t, "finish", Left(bm[Home[t]], Home[t], left))
  /\ UNCHANGED <<disk, pool, hlock, ending, writer, ast, crashes>>

\* The table is dropped, the difference file deleted.
Finish(t) ==
  LET p == Home[t] IN
  /\ At(t, "locked") /\ th[t].op = "finish"
  /\ NewState(p, "normal") /\ delta' = NoTable
  /\ UnlockWrite(t, [Changed(bm[p], "normal") EXCEPT !.master = FALSE, !.table = {}])
  /\ th' = [th EXCEPT ![t] = Idle] /\ ending' = None
  /\ UNCHANGED <<file, pool, guard, ast, crashes>>

(***************************************************************************)
(* The blocking AST                                                        *)
(***************************************************************************)

\* GlobalRWLock::blockingAstHandler
Handler(p, b) ==
  IF gl[p].pending = None /\ ~gl[p].writer
  THEN LET phys == Downgraded(p)
           nb == Without(b, phys)
       IN
       /\ gl' = [gl EXCEPT ![p].phys = phys, ![p].told = FALSE,
                           ![p].blocking = @ /\ phys # "none"]
       /\ bm' = [bm EXCEPT ![p] = IF phys = "read" /\ ~b.master THEN [nb EXCEPT !.flush = FALSE] ELSE nb]
  ELSE /\ gl' = [gl EXCEPT ![p].blocking = TRUE, ![p].told = TRUE]
       /\ bm' = [bm EXCEPT ![p] = b]

\* NBackupStateLock::blockingAstHandler: the process of a master neither
\* flushes nor asks for the local lock; the others flush, ...
Ast(p) ==
  /\ Conflict(p) /\ ~gl[p].told /\ ast[p].pc = "none"
  /\ IF bm[p].master THEN Handler(p, bm[p]) /\ UNCHANGED ast
     ELSE /\ gl' = [gl EXCEPT ![p].told = TRUE]
          /\ bm' = [bm EXCEPT ![p].flush = TRUE]
          /\ ast' = [ast EXCEPT ![p] = [pc |-> "try",
                                        left |-> IF bm[p].flush THEN {} ELSE Dirty(p)]]
  /\ UNCHANGED <<disk, pool, locks, th, crashes>>

\* A mutant: the readers are not looked at.
AstTry_forced(p) ==
  /\ ast[p].pc = "try" /\ ast[p].left = {}
  /\ IF writer[p] = None
     THEN /\ Handler(p, [bm[p] EXCEPT !.stateBlocking = FALSE])
          /\ ast' = [ast EXCEPT ![p].pc = "none"]
     ELSE ast' = [ast EXCEPT ![p].pc = "set"] /\ UNCHANGED <<bm, gl>>
  /\ UNCHANGED <<disk, pool, locks, th, crashes>>

\* ... try to lock the local lock for writing ...
AstTry(p) ==
  /\ ast[p].pc = "try" /\ ast[p].left = {}
  /\ IF Free(p)
     THEN /\ Handler(p, [bm[p] EXCEPT !.stateBlocking = FALSE])
          /\ ast' = [ast EXCEPT ![p].pc = "none"]
     ELSE ast' = [ast EXCEPT ![p].pc = "set"] /\ UNCHANGED <<bm, gl>>
  /\ UNCHANGED <<disk, pool, locks, th, crashes>>

\* ... or leave the lock to unlockStateRead.
AstSet(p) ==
  /\ ast[p].pc = "set"
  /\ bm' = [bm EXCEPT ![p].stateBlocking = TRUE]
  /\ ast' = [ast EXCEPT ![p].pc = "none"]
  /\ UNCHANGED <<disk, pool, locks, gl, th, crashes>>

\* What is stored of a page by the rules of the present state.
OnDisk(pg) ==
  IF header.state # "normal" /\ pg \in DOMAIN delta /\ delta[pg] # Blank
  THEN delta[pg] ELSE file[pg]

\* A process dies with what its cache has not written; its locks go, and it
\* comes back as a new process.
Crash(p) ==
  /\ crashes < MaxCrash /\ crashes' = crashes + 1
  /\ latest' = [pg \in Pages |-> IF dirty[pg] = p THEN OnDisk(pg).v ELSE latest[pg]]
  /\ stamped' = stamped \ (Readers(p) \ Threads) /\ target' = target \ Dirty(p)
  /\ dirty' = [pg \in Pages |-> IF dirty[pg] = p THEN None ELSE dirty[pg]]
  /\ busy' = [pg \in Pages |-> IF busy[pg] # None /\ Home[busy[pg]] = p THEN None ELSE busy[pg]]
  /\ guard' = {t \in guard : Home[t] # p}
  /\ hlock' = IF hlock # None /\ Home[hlock] = p THEN None ELSE hlock
  /\ ending' = IF ending # None /\ Home[ending] = p THEN None ELSE ending
  /\ writer' = [writer EXCEPT ![p] = None]
  /\ bm' = [bm EXCEPT ![p] = NewManager]
  /\ gl' = [gl EXCEPT ![p] = NewLock]
  /\ ast' = [ast EXCEPT ![p] = NoAst]
  /\ th' = [t \in Threads |-> IF Home[t] = p THEN Idle ELSE th[t]]
  /\ UNCHANGED <<disk, buf, writes>>

ThreadStep(t) ==
  \/ Enter(t) \/ LockRead(t) \/ GrantedRead(t)
  \/ Read(t) \/ Mark(t)
  \/ FetchHeader(t) \/ ReadHeader(t)
  \/ BeginWrite(t) \/ LockWrite(t) \/ GrantedWrite(t)
  \/ Stall(t) \/ Check(t) \/ StartMerge(t) \/ Table(t)
  \/ \E pg \in Pages : Merge(t, pg)
  \/ MergeFlush(t) \/ Merged(t) \/ Finish(t)

Next ==
  \/ \E t \in Threads :
       \/ ThreadStep(t)
       \/ \E pg \in Pages : Fetch(t, pg)
       \/ BeginBackup(t) \/ EndBackup(t)
  \/ \E pg \in Pages : Write(pg)
  \/ \E p \in Procs : Grant(p) \/ Ast(p) \/ AstTry(p) \/ AstSet(p) \/ Crash(p)

Spec == Init /\ [][Next]_vars

(***************************************************************************)
(* A condition                                                             *)
(***************************************************************************)

\* The AST of the process of a master gives the lock up without a flush and
\* without the local lock.  That is harmless in a step in which no page is
\* dirty or being read there when another process asks for the lock to change
\* the state.  The code does not see to it.
MastersQuiet ==
  \A p \in Procs : Ast(p) /\ bm[p].master /\ WantedFrom(p, "write") => Readers(p) = {}

(***************************************************************************)
(* Properties                                                              *)
(***************************************************************************)

TypeOK ==
  /\ header \in [state : {"normal", "stalled", "merge"}, scn : Nat]
  /\ hlock \in Threads \union {None} /\ ending \in Threads \union {None}
  /\ file \in [Pages -> [v : Nat, scn : Nat]]
  /\ DOMAIN delta \subseteq Pages
  /\ dirty \in [Pages -> Procs \union {None}] /\ busy \in [Pages -> Threads \union {None}]
  /\ target \subseteq {pg \in Pages : dirty[pg] # None}
  /\ stamped \subseteq Pages /\ guard \subseteq Threads
  /\ \A p \in Procs : /\ bm[p].state \in {"unknown", "normal", "stalled", "merge"}
                      /\ gl[p].phys \in {"none", "read", "write"}
                      /\ gl[p].want \in {"none", "read", "write"}
  /\ writes \in Nat

\* While the backup state stays stalled, which is while the file is copied, no
\* page of the database file is written (write_page and the flushes before a
\* change of the state).
FrozenWhileStalled ==
  [][header.state = "stalled" /\ header'.state = "stalled" => file' = file]_vars

\* A thread that has read a page has its last change, in whichever file it was
\* (CCH_fetch_page, getPageIndex, the merge).
ReadsLatest ==
  \A t \in Threads :
    LET pg == th[t].page IN
    th[t].why = "mark" /\ th[t].pc # "read" /\ busy[pg] = t => buf[pg].v = latest[pg]

\* What is not dirty is on disk: nothing is lost when a difference file is
\* merged and deleted.
NothingLost ==
  \A pg \in Pages : dirty[pg] = None => latest[pg] = OnDisk(pg).v

\* Under the local lock a process knows the backup state (the assertions on
\* hdr_nbak_unknown in CCH_fetch_page, CCH_mark and write_page).
KnownInside ==
  \A p \in Procs :
    /\ \A pg \in Pages : dirty[pg] = p => bm[p].state = header.state
    /\ \A t \in Threads :
         Home[t] = p /\ th[t].pc \in {"read", "mark", "check", "table"} => bm[p].state = header.state

\* A dirty page has the SCN of the state it will be written in: the next
\* incremental backup misses no change (StateWriteGuard flushes first).
DirtyOfThisScn == \A pg \in Pages : dirty[pg] # None => buf[pg].scn = header.scn

\* A table kept in memory is that of the present difference file
\* (actualizeState, missed_cycle).
TableFresh ==
  \A p \in Procs : bm[p].state # "unknown" => bm[p].table \subseteq DOMAIN delta
=============================================================================
