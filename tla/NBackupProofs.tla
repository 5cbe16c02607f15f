---------------------------- MODULE NBackupProofs ----------------------------
(* Proofs about NBackup, for any processes, threads, pages and bounds, and   *)
(* all steps in which the AST of a master has nothing to lose (MastersQuiet). *)
EXTENDS NBackup, TLAPS

(***************************************************************************)
(* Who begins and ends backups                                             *)
(***************************************************************************)

\* The thread is in a BEGIN BACKUP or an END BACKUP.
Working(t) == th[t].op \notin {"none", "change"}

\* Processes begin and end backups in turn, each when the other is done.
InTurn == \A t, u \in Threads : Working(t) /\ Working(u) => Home[t] = Home[u]

\* All backups are begun and ended by threads of one process, as they are in
\* the SuperServer.
OneBackupProcess == \A t, u \in Masters : Home[t] = Home[u]

(***************************************************************************)
(* The inductive invariant                                                 *)
(***************************************************************************)

PageImage == [v : Nat, scn : Nat]
Level == {"none", "read", "write"}
BackupState == {"normal", "stalled", "merge"}
ThreadPc == {"idle", "enter", "lockRead", "waitRead", "read", "mark", "check", "table", "merge",
             "header", "flush", "beginWrite", "lockWrite", "waitWrite", "locked"}
ThreadOp == {"none", "change", "begin", "end", "merge", "finish"}
ThreadWhy == {"none", "read", "mark", "header", "check", "table"}

KnownState == BackupState \union {"unknown"}
MaybeThread == Threads \union {None}
MaybePage == Pages \union {None}

Manager == [state : KnownState, scn : Nat, table : SUBSET Pages,
            flush : BOOLEAN, master : BOOLEAN, stateBlocking : BOOLEAN]
StateLock == [phys : Level, want : Level, told : BOOLEAN, pending : MaybeThread,
              writer : BOOLEAN, blocking : BOOLEAN]
AstThread == [pc : {"none", "try", "set"}, left : SUBSET Pages]
Thread == [pc : ThreadPc, op : ThreadOp, why : ThreadWhy, page : MaybePage, left : SUBSET Pages]

\* The types of what is on disk and in the page cache, ...
DataType ==
  /\ header \in [state : BackupState, scn : Nat]
  /\ file \in [Pages -> PageImage]
  /\ DOMAIN delta \subseteq Pages /\ delta \in [DOMAIN delta -> PageImage]
  /\ latest \in [Pages -> Nat] /\ buf \in [Pages -> PageImage] /\ writes \in Nat
  /\ dirty \in [Pages -> Procs \union {None}] /\ busy \in [Pages -> MaybeThread]
  /\ target \subseteq Pages /\ stamped \subseteq Pages

\* ... and of threads and processes.
ProcType ==
  /\ hlock \in MaybeThread /\ ending \in MaybeThread
  /\ guard \subseteq Threads /\ writer \in [Procs -> MaybeThread]
  /\ bm \in [Procs -> Manager] /\ gl \in [Procs -> StateLock] /\ ast \in [Procs -> AstThread]
  /\ th \in [Threads -> Thread]
  /\ crashes \in Nat

TypeInv == DataType /\ ProcType

Entering(t) == th[t].pc \in {"enter", "lockRead", "waitRead"}
Writing(t) == th[t].pc \in {"lockWrite", "waitWrite", "locked"}

\* A thread at pc does what it is there for.
Fits(pc, op, why) ==
  CASE pc = "idle" -> op = "none"
    [] pc \in {"enter", "lockRead", "waitRead"} ->
         \/ op = "change" /\ why \in {"read", "mark"}
         \/ op \in {"begin", "end", "finish"} /\ why = "header"
         \/ op = "end" /\ why = "check"
         \/ op = "merge" /\ why \in {"table", "mark"}
    [] pc = "read" -> op = "merge" \/ (op = "change" /\ why = "read")
    [] pc = "mark" -> op \in {"change", "merge"}
    [] pc = "check" -> op = "end"
    [] pc \in {"table", "merge"} -> op = "merge"
    [] pc = "flush" -> op \in {"begin", "end", "merge", "finish"}
    [] OTHER -> op \in {"begin", "end", "finish"}

\* The thread has fetched a page.
HoldsPage(t) ==
  th[t].pc \in {"read", "mark"} \/ (Entering(t) /\ th[t].why \in {"read", "mark"})

\* It has the lock of the page as a reader, not only the page.
Marking(t) ==
  th[t].pc = "mark" \/ (th[t].pc \in {"lockRead", "waitRead"} /\ th[t].why = "mark")

\* Inside the local lock as a reader; the merge stays inside.
Inside(t) ==
  \/ th[t].pc \in {"lockRead", "waitRead", "read", "mark", "check", "header", "table"}
  \/ th[t].op = "merge" /\ ~(th[t].pc = "enter" /\ th[t].why = "table")

\* Inside the global lock too.
Entered(t) == Inside(t) /\ th[t].pc \notin {"lockRead", "waitRead"}

\* Threads and their operations.
ThreadInv ==
  \A t \in Threads :
    /\ Fits(th[t].pc, th[t].op, th[t].why)
    /\ th[t].op \notin {"none", "change"} => t \in Masters
    /\ th[t].op \in {"end", "merge", "finish"} => ending = t

\* Pages fetched, dirty and stamped.
PageInv ==
  /\ \A pg \in Pages, t \in Threads : busy[pg] = t <=> HoldsPage(t) /\ th[t].page = pg
  /\ \A pg \in Pages : busy[pg] # None => dirty[pg] \in {None, Home[busy[pg]]}
  /\ \A t \in Threads : HoldsPage(t) =>
       /\ th[t].page \in Pages
       /\ IF Marking(t) THEN th[t].page \in stamped
                        ELSE th[t].page \notin stamped
  /\ \A pg \in Pages : dirty[pg] # None => pg \in stamped
  /\ \A pg \in stamped : dirty[pg] # None \/ busy[pg] # None
  /\ \A pg \in target : dirty[pg] # None

\* The local lock: readers and a writer exclude one another.
LocalInv ==
  /\ \A t \in Threads : Inside(t) => t \in guard \/ (HoldsPage(t) /\ Marking(t) /\ th[t].op = "change")
  /\ \A p \in Procs, t \in Threads : writer[p] = t <=> Home[t] = p /\ Writing(t)
  /\ \A p \in Procs : writer[p] # None => Readers(p) = {}

Known(p) == bm[p].state # "unknown"

\* The global lock: a write lock excludes others, ...
Exclusive == \A p, q \in Procs : p # q /\ gl[p].phys = "write" => gl[q].phys = "none"

\* ... a thread waits for it, ...
Waiting ==
  /\ \A p \in Procs : gl[p].want # "none" => gl[p].phys = "none" /\ gl[p].pending # None
  /\ \A t \in Threads : th[t].pc \in {"waitRead", "waitWrite"} <=> gl[Home[t]].pending = t
  /\ \A p \in Procs : gl[p].pending # None => Home[gl[p].pending] = p
  /\ \A t \in Threads, level \in {"read", "write"} :
       At(t, IF level = "read" THEN "waitRead" ELSE "waitWrite") =>
         gl[Home[t]].want = level \/ (gl[Home[t]].want = "none" /\ gl[Home[t]].phys = level)

\* ... or holds it for writing, ...
Holding ==
  /\ \A t \in Threads : At(t, "locked") => gl[Home[t]].writer /\ gl[Home[t]].phys = "write"
  /\ \A p \in Procs : gl[p].writer => \E t \in Threads : Home[t] = p /\ At(t, "locked")

\* ... and an AST finds it in use only while a thread writes.
Blocked == \A p \in Procs : gl[p].blocking => writer[p] # None

GlobalInv == Exclusive /\ Waiting /\ Holding /\ Blocked

\* The state is known under the global lock, and there it is that of the header.
StateInv ==
  /\ \A p \in Procs : Known(p) <=> gl[p].phys # "none" /\ gl[p].pending = None
  /\ \A p \in Procs : Known(p) => bm[p].state = header.state /\ bm[p].scn = header.scn
  /\ \A t \in Threads : Entered(t) => Known(Home[t])
  /\ \A t \in Threads : th[t].op = "merge" /\ th[t].pc \in {"lockRead", "waitRead"} => th[t].why = "table"
  /\ \A pg \in Pages : dirty[pg] # None => Known(dirty[pg])

\* A table kept since the SCN scn: if one change was missed, it is that of the
\* present difference file or, at the start of a backup, empty.
TableFits(scn, table) ==
  /\ scn <= header.scn
  /\ scn = header.scn => table \subseteq DOMAIN delta
  /\ scn + 1 = header.scn /\ header.state = "merge" => table \subseteq DOMAIN delta
  /\ scn + 1 = header.scn /\ header.state = "stalled" => table = {}

TableInv == \A p \in Procs : TableFits(bm[p].scn, bm[p].table)

\* A dirty page has its last change, and will be written where it is looked for.
DirtyInv ==
  \A pg \in Pages : dirty[pg] # None =>
    /\ buf[pg].v = latest[pg] /\ buf[pg].scn = header.scn
    /\ header.state = "stalled" => pg \in DOMAIN delta
    /\ header.state = "merge" /\ pg \in DOMAIN delta => pg \in target

\* The page is in the database file as far as the difference file has it.
InFile(pg) == delta[pg] = Blank \/ delta[pg] = file[pg]

\* The thread t has yet to fetch, or to mark, the page for the merge.
ToMerge(t, pg) ==
  \/ th[t].op = "merge" /\ th[t].pc \in {"merge", "read", "mark", "enter"} /\ pg \in th[t].left
  \/ HoldsPage(t) /\ th[t].page = pg

\* The merge has taken the table, ...
TableTaken(t) ==
  \/ th[t].op = "finish"
  \/ th[t].op = "merge" /\ th[t].pc \in {"read", "mark", "merge", "flush"}
  \/ th[t].op = "merge" /\ th[t].pc = "enter" /\ th[t].why = "mark"

\* ... and has gone through the pages not ToMerge.
MergeInv ==
  /\ \A t \in Threads : th[t].op \in {"merge", "finish"} => header.state = "merge"
  /\ \A t \in Threads : TableTaken(t) =>
       \A pg \in DOMAIN delta : ToMerge(t, pg) \/ dirty[pg] = Home[t] \/ InFile(pg)

\* What the two files have.
DiskInv ==
  /\ header.scn > 0
  /\ header.state = "normal" => DOMAIN delta = {}
  /\ \A pg \in DOMAIN delta : delta[pg].scn <= header.scn
  /\ header.state = "merge" => \A pg \in DOMAIN delta : delta[pg].scn = header.scn => delta[pg] = file[pg]
  /\ NothingLost

\* The thread has the contents of the page it holds.
HasPage(t) == HoldsPage(t) /\ (th[t].pc = "mark" \/ (th[t].pc # "read" /\ th[t].why = "mark"))

\* What is to be changed is the last change.
HeldInv == \A t \in Threads : HasPage(t) => buf[th[t].page].v = latest[th[t].page]

\* A thread that goes to mark a page has one.
NamedInv == \A t \in Threads : th[t].why = "mark" => th[t].page \in Pages

IInv ==
  /\ TypeInv /\ ThreadInv /\ PageInv /\ LocalInv /\ GlobalInv /\ StateInv
  /\ TableInv /\ DirtyInv /\ MergeInv /\ DiskInv /\ HeldInv /\ NamedInv

(***************************************************************************)
(* Records and their updates                                               *)
(***************************************************************************)

\* The names that occur are of their types.
LEMMA Names ==
  /\ {"idle", "enter", "lockRead", "waitRead", "read", "mark", "check", "table", "merge",
      "header", "flush", "beginWrite", "lockWrite", "waitWrite", "locked"} \subseteq ThreadPc
  /\ {"none", "change", "begin", "end", "merge", "finish"} \subseteq ThreadOp
  /\ {"none", "read", "mark", "header", "check", "table"} \subseteq ThreadWhy
  /\ ThreadWhy \ {"none"} \subseteq ThreadPc
  /\ {"normal", "stalled", "merge", "unknown"} \subseteq KnownState /\ BackupState \subseteq KnownState
  /\ {"normal", "stalled", "merge"} \subseteq BackupState
  /\ {"none", "read", "write"} \subseteq Level
  /\ None \in MaybePage /\ Pages \subseteq MaybePage
  /\ None \in MaybeThread /\ Threads \subseteq MaybeThread
BY DEF ThreadPc, ThreadOp, ThreadWhy, MaybePage, MaybeThread, KnownState, BackupState, Level

\* What the invariants see of a BackupManager, a lock and a thread.
IsManager(b, state, scn, table, master) ==
  b \in Manager /\ b.state = state /\ b.scn = scn /\ b.table = table /\ b.master = master

IsLock(g, phys, want, pending, w, blocking) ==
  /\ g \in StateLock /\ g.phys = phys /\ g.want = want /\ g.pending = pending
  /\ g.writer = w /\ g.blocking = blocking

IsThread(x, pc, op, why, page, left) ==
  x \in Thread /\ x.pc = pc /\ x.op = op /\ x.why = why /\ x.page = page /\ x.left = left

\* Nothing else changes in bm, gl, th than what belongs to p or t.
BmTo(p, state, scn, table, master) ==
  /\ bm' \in [Procs -> Manager] /\ IsManager(bm'[p], state, scn, table, master)
  /\ \A q \in Procs \ {p} : bm'[q] = bm[q]

GlTo(p, phys, want, pending, w, blocking) ==
  /\ gl' \in [Procs -> StateLock] /\ IsLock(gl'[p], phys, want, pending, w, blocking)
  /\ \A q \in Procs \ {p} : gl'[q] = gl[q]

ThTo(t, pc, op, why, page, left) ==
  /\ th' \in [Threads -> Thread] /\ IsThread(th'[t], pc, op, why, page, left)
  /\ \A u \in Threads \ {t} : th'[u] = th[u]

LEMMA BmUpdate ==
  ASSUME bm \in [Procs -> Manager], NEW p \in Procs, NEW b, bm' = [bm EXCEPT ![p] = b],
         NEW state, NEW scn, NEW table, NEW master, IsManager(b, state, scn, table, master)
  PROVE  BmTo(p, state, scn, table, master)
BY DEF BmTo, IsManager

LEMMA GlUpdate ==
  ASSUME gl \in [Procs -> StateLock], NEW p \in Procs, NEW g, gl' = [gl EXCEPT ![p] = g],
         NEW phys, NEW want, NEW pending, NEW w, NEW blocking, IsLock(g, phys, want, pending, w, blocking)
  PROVE  GlTo(p, phys, want, pending, w, blocking)
BY DEF GlTo, IsLock

LEMMA ThUpdate ==
  ASSUME th \in [Threads -> Thread], NEW t \in Threads, NEW x, th' = [th EXCEPT ![t] = x],
         NEW pc, NEW op, NEW why, NEW page, NEW left, IsThread(x, pc, op, why, page, left)
  PROVE  ThTo(t, pc, op, why, page, left)
BY DEF ThTo, IsThread

\* What the operations of BackupManager make of it.
LEMMA ManagerOps ==
  ASSUME NEW b \in Manager, header \in [state : BackupState, scn : Nat], DOMAIN delta \subseteq Pages
  PROVE  /\ IsManager(b, b.state, b.scn, b.table, b.master)
         /\ IsManager(Invalid(b), "unknown", b.scn, b.table, b.master)
         /\ IsManager(Actualized(b), header.state, header.scn,
                      IF header.state = "normal" \/ header.scn - b.scn > 1 THEN {} ELSE b.table, b.master)
         /\ \A pg : IsManager(Looked(b, pg), b.state, b.scn,
                      IF b.state # "normal" /\ pg \notin b.table THEN DOMAIN delta ELSE b.table, b.master)
         /\ \A state \in KnownState : IsManager(Changed(b, state), state, b.scn + 1, b.table, b.master)
         /\ \A v \in BOOLEAN :
              /\ IsManager([b EXCEPT !.flush = v], b.state, b.scn, b.table, b.master)
              /\ IsManager([b EXCEPT !.stateBlocking = v], b.state, b.scn, b.table, b.master)
              /\ IsManager([b EXCEPT !.master = v], b.state, b.scn, b.table, v)
         /\ \A S \in SUBSET Pages : IsManager([b EXCEPT !.table = S], b.state, b.scn, S, b.master)
<1> USE Names DEF IsManager, Manager
<1>1. IsManager(b, b.state, b.scn, b.table, b.master)
  OBVIOUS
<1>2. IsManager(Invalid(b), "unknown", b.scn, b.table, b.master)
  BY DEF Invalid
<1>3. IsManager(Actualized(b), header.state, header.scn,
                IF header.state = "normal" \/ header.scn - b.scn > 1 THEN {} ELSE b.table, b.master)
  <2> DEFINE c == IF header.state = "normal" \/ header.scn - b.scn > 1 THEN {} ELSE b.table
  <2>1. c \in SUBSET Pages /\ header.state \in KnownState /\ header.scn \in Nat
    OBVIOUS
  <2>2. Actualized(b) = [b EXCEPT !.flush = FALSE, !.state = header.state, !.scn = header.scn, !.table = c]
    BY DEF Actualized
  <2> HIDE DEF c
  <2> QED
    BY <2>1, <2>2 DEF c
<1>4. ASSUME NEW pg
      PROVE  IsManager(Looked(b, pg), b.state, b.scn,
                       IF b.state # "normal" /\ pg \notin b.table THEN DOMAIN delta ELSE b.table, b.master)
  BY DEF Looked
<1>5. ASSUME NEW state \in KnownState
      PROVE  IsManager(Changed(b, state), state, b.scn + 1, b.table, b.master)
  <2>1. b.scn + 1 \in Nat
    OBVIOUS
  <2> QED
    BY <2>1 DEF Changed
<1>6. ASSUME NEW v \in BOOLEAN
      PROVE  /\ IsManager([b EXCEPT !.flush = v], b.state, b.scn, b.table, b.master)
             /\ IsManager([b EXCEPT !.stateBlocking = v], b.state, b.scn, b.table, b.master)
             /\ IsManager([b EXCEPT !.master = v], b.state, b.scn, b.table, v)
  OBVIOUS
<1>7. ASSUME NEW S \in SUBSET Pages
      PROVE  IsManager([b EXCEPT !.table = S], b.state, b.scn, S, b.master)
  OBVIOUS
<1> QED
  BY <1>1, <1>2, <1>3, <1>4, <1>5, <1>6, <1>7

\* The last reader gives the lock up if an AST could not.
LEMMA LeftOp ==
  ASSUME TypeInv, NEW p \in Procs, NEW b \in Manager, NEW left
  PROVE  IsManager(Left(b, p, left), IF Late(p, left) THEN "unknown" ELSE b.state, b.scn, b.table, b.master)
<1> DEFINE c == [b EXCEPT !.stateBlocking = FALSE]
<1>1. IsManager(c, b.state, b.scn, b.table, b.master)
  BY ManagerOps DEF TypeInv, DataType
<1>2. IsManager(Invalid(c), "unknown", b.scn, b.table, b.master)
  BY <1>1, ManagerOps DEF TypeInv, DataType, IsManager
<1>3. IsManager(b, b.state, b.scn, b.table, b.master)
  BY ManagerOps DEF TypeInv, DataType
<1>4. Left(b, p, left) = IF Late(p, left) THEN Invalid(c) ELSE b
  BY DEF Left
<1> HIDE DEF c
<1> QED
  BY <1>1, <1>2, <1>3, <1>4

LEMMA LockOps ==
  ASSUME NEW g \in StateLock
  PROVE  /\ IsLock(g, g.phys, g.want, g.pending, g.writer, g.blocking)
         /\ IsLock(Gone(g), "none", g.want, g.pending, g.writer, FALSE)
         /\ \A u \in MaybeThread : IsLock([g EXCEPT !.pending = u], g.phys, g.want, u, g.writer, g.blocking)
         /\ \A u \in MaybeThread, level \in Level :
              IsLock([g EXCEPT !.pending = u, !.want = level], g.phys, level, u, g.writer, g.blocking)
         /\ \A v \in BOOLEAN : IsLock([g EXCEPT !.told = v], g.phys, g.want, g.pending, g.writer, g.blocking)
<1> USE Names DEF IsLock, StateLock
<1>1. IsLock(g, g.phys, g.want, g.pending, g.writer, g.blocking)
  OBVIOUS
<1>2. IsLock(Gone(g), "none", g.want, g.pending, g.writer, FALSE)
  BY DEF Gone
<1>3. \A u \in MaybeThread : IsLock([g EXCEPT !.pending = u], g.phys, g.want, u, g.writer, g.blocking)
  OBVIOUS
<1>4. \A u \in MaybeThread, level \in Level :
        IsLock([g EXCEPT !.pending = u, !.want = level], g.phys, level, u, g.writer, g.blocking)
  OBVIOUS
<1>5. \A v \in BOOLEAN : IsLock([g EXCEPT !.told = v], g.phys, g.want, g.pending, g.writer, g.blocking)
  OBVIOUS
<1> QED
  BY <1>1, <1>2, <1>3, <1>4, <1>5

LEMMA LockLeftOp ==
  ASSUME TypeInv, NEW p \in Procs, NEW left, LockLeft(p, left)
  PROVE  GlTo(p, IF Late(p, left) THEN "none" ELSE gl[p].phys, gl[p].want, gl[p].pending, gl[p].writer,
              IF Late(p, left) THEN FALSE ELSE gl[p].blocking)
<1>1. gl \in [Procs -> StateLock] /\ gl[p] \in StateLock
  BY DEF TypeInv, ProcType
<1>2. CASE Late(p, left)
  <2>1. gl' = [gl EXCEPT ![p] = Gone(gl[p])]
    BY <1>2, <1>1 DEF LockLeft
  <2>2. IsLock(Gone(gl[p]), "none", gl[p].want, gl[p].pending, gl[p].writer, FALSE)
    BY <1>1, LockOps
  <2> QED
    BY <1>1, <1>2, <2>1, <2>2, GlUpdate
<1>3. CASE ~Late(p, left)
  <2>1. gl' = gl
    BY <1>3 DEF LockLeft
  <2> QED
    BY <1>1, <1>3, <2>1, LockOps DEF GlTo
<1> QED
  BY <1>2, <1>3

LEMMA ReleasedOp ==
  ASSUME TypeInv, NEW p \in Procs, NEW left, Released(p, left)
  PROVE  /\ BmTo(p, IF Late(p, left) THEN "unknown" ELSE bm[p].state, bm[p].scn, bm[p].table, bm[p].master)
         /\ GlTo(p, IF Late(p, left) THEN "none" ELSE gl[p].phys, gl[p].want, gl[p].pending, gl[p].writer,
                 IF Late(p, left) THEN FALSE ELSE gl[p].blocking)
<1>1. bm \in [Procs -> Manager] /\ bm[p] \in Manager
  BY DEF TypeInv, ProcType
<1>2. bm' = [bm EXCEPT ![p] = Left(bm[p], p, left)]
  BY <1>1 DEF Released
<1> QED
  BY <1>1, <1>2, LeftOp, BmUpdate, LockLeftOp DEF Released

\* A thread goes on, or comes back.
LEMMA Moves ==
  ASSUME TypeInv, NEW t \in Threads, NEW pc \in ThreadPc, Goto(t, pc)
  PROVE  ThTo(t, pc, th[t].op, th[t].why, th[t].page, th[t].left)
<1>1. th \in [Threads -> Thread] /\ th[t] \in Thread
  BY DEF TypeInv, ProcType
<1>2. th' = [th EXCEPT ![t] = [th[t] EXCEPT !.pc = pc]]
  BY <1>1 DEF Goto
<1>3. IsThread([th[t] EXCEPT !.pc = pc], pc, th[t].op, th[t].why, th[t].page, th[t].left)
  BY <1>1 DEF IsThread, Thread
<1> QED
  BY <1>1, <1>2, <1>3, ThUpdate

LEMMA Stays ==
  ASSUME TypeInv, NEW t \in Threads, NEW p \in Procs
  PROVE  /\ IsThread(Idle, "idle", "none", "none", None, {})
         /\ IsThread(th[t], th[t].pc, th[t].op, th[t].why, th[t].page, th[t].left)
         /\ UNCHANGED bm => BmTo(p, bm[p].state, bm[p].scn, bm[p].table, bm[p].master)
         /\ UNCHANGED gl => GlTo(p, gl[p].phys, gl[p].want, gl[p].pending, gl[p].writer, gl[p].blocking)
<1> USE DEF TypeInv, ProcType
<1>1. IsThread(Idle, "idle", "none", "none", None, {})
  BY Names DEF Idle, IsThread, Thread
<1>2. IsThread(th[t], th[t].pc, th[t].op, th[t].why, th[t].page, th[t].left)
  BY DEF IsThread
<1>3. UNCHANGED bm => BmTo(p, bm[p].state, bm[p].scn, bm[p].table, bm[p].master)
  BY DEF IsManager, BmTo
<1>4. UNCHANGED gl => GlTo(p, gl[p].phys, gl[p].want, gl[p].pending, gl[p].writer, gl[p].blocking)
  BY DEF IsLock, GlTo
<1> QED
  BY <1>1, <1>2, <1>3, <1>4

LEMMA FlushOp ==
  ASSUME TypeInv, NEW t \in Threads, NEW op \in ThreadOp, NEW b \in Manager, Flush(t, op, b)
  PROVE  /\ BmTo(Home[t], b.state, b.scn, b.table, TRUE)
         /\ ThTo(t, "flush", op, "none", None, Dirty(Home[t]))
<1> DEFINE p == Home[t]
<1>1. p \in Procs /\ th \in [Threads -> Thread] /\ bm \in [Procs -> Manager]
  BY NBackupAssumption DEF TypeInv, ProcType
<1>2. IsManager([b EXCEPT !.master = TRUE, !.flush = TRUE], b.state, b.scn, b.table, TRUE)
  BY DEF IsManager, Manager
<1>3. BmTo(p, b.state, b.scn, b.table, TRUE)
  BY <1>1, <1>2, BmUpdate DEF Flush
<1>4. Dirty(p) \in SUBSET Pages
  BY DEF Dirty
<1>5. IsThread([Idle EXCEPT !.pc = "flush", !.op = op, !.left = Dirty(p)], "flush", op, "none", None, Dirty(p))
  BY <1>4, Names DEF IsThread, Idle, Thread
<1>6. ThTo(t, "flush", op, "none", None, Dirty(p))
  BY <1>1, <1>5, ThUpdate DEF Flush
<1> QED
  BY <1>3, <1>6

LEMMA DowngradedOp ==
  ASSUME TypeInv, NEW p \in Procs
  PROVE  /\ Downgraded(p) \in Level
         /\ Downgraded(p) = gl[p].phys \/ Downgraded(p) = "none" \/ (Downgraded(p) = "read" /\ gl[p].phys = "write")
         /\ Downgraded(p) = "none" => gl[p].phys = "none" \/ WantedFrom(p, "write")
BY Names DEF TypeInv, ProcType, StateLock, Downgraded

LEMMA UnlockWriteOp ==
  ASSUME TypeInv, NEW t \in Threads, NEW b \in Manager, UnlockWrite(t, b)
  PROVE  \E phys \in Level :
           /\ phys = gl[Home[t]].phys \/ phys = Downgraded(Home[t])
           /\ GlTo(Home[t], phys, gl[Home[t]].want, gl[Home[t]].pending, FALSE, FALSE)
           /\ BmTo(Home[t], IF phys = "none" THEN "unknown" ELSE b.state, b.scn, b.table, b.master)
<1> DEFINE p == Home[t]
           phys == IF gl[p].blocking THEN Downgraded(p) ELSE gl[p].phys
           told == gl[p].told /\ phys = gl[p].phys
<1>1. p \in Procs /\ gl \in [Procs -> StateLock] /\ bm \in [Procs -> Manager]
  BY NBackupAssumption DEF TypeInv, ProcType
<1>2. phys \in Level /\ told \in BOOLEAN /\ gl[p] \in StateLock
  BY <1>1, DowngradedOp DEF StateLock
<1>3. gl' = [gl EXCEPT ![p] = [gl[p] EXCEPT !.writer = FALSE, !.blocking = FALSE, !.phys = phys, !.told = told]]
  BY <1>1 DEF UnlockWrite
<1>4. IsLock([gl[p] EXCEPT !.writer = FALSE, !.blocking = FALSE, !.phys = phys, !.told = told],
             phys, gl[p].want, gl[p].pending, FALSE, FALSE)
  <2> HIDE DEF phys, told
  <2> QED
    BY <1>2 DEF IsLock, StateLock
<1>5. bm' = [bm EXCEPT ![p] = Without(b, phys)]
  BY <1>1 DEF UnlockWrite
<1>6. IsManager(Without(b, phys), IF phys = "none" THEN "unknown" ELSE b.state, b.scn, b.table, b.master)
  BY ManagerOps DEF Without, TypeInv, DataType
<1>7. phys = gl[p].phys \/ phys = Downgraded(p)
  OBVIOUS
<1> HIDE DEF phys, told, p
<1>8. GlTo(p, phys, gl[p].want, gl[p].pending, FALSE, FALSE)
  BY <1>1, <1>3, <1>4, GlUpdate
<1>9. BmTo(p, IF phys = "none" THEN "unknown" ELSE b.state, b.scn, b.table, b.master)
  BY <1>1, <1>5, <1>6, BmUpdate
<1> QED
  BY <1>2, <1>7, <1>8, <1>9 DEF p

LEMMA HandlerOp ==
  ASSUME TypeInv, NEW p \in Procs, NEW b \in Manager, Handler(p, b)
  PROVE  IF gl[p].pending = None /\ ~gl[p].writer
         THEN /\ GlTo(p, Downgraded(p), gl[p].want, gl[p].pending, gl[p].writer,
                      gl[p].blocking /\ Downgraded(p) # "none")
              /\ BmTo(p, IF Downgraded(p) = "none" THEN "unknown" ELSE b.state, b.scn, b.table, b.master)
         ELSE /\ GlTo(p, gl[p].phys, gl[p].want, gl[p].pending, gl[p].writer, TRUE)
              /\ BmTo(p, b.state, b.scn, b.table, b.master)
<1>1. gl \in [Procs -> StateLock] /\ bm \in [Procs -> Manager] /\ gl[p] \in StateLock
  BY DEF TypeInv, ProcType
<1>2. CASE gl[p].pending = None /\ ~gl[p].writer
  <2> DEFINE phys == Downgraded(p)
             blocking == gl[p].blocking /\ phys # "none"
             nb == Without(b, phys)
             c == IF phys = "read" /\ ~b.master THEN [nb EXCEPT !.flush = FALSE] ELSE nb
             state == IF phys = "none" THEN "unknown" ELSE b.state
  <2>1. phys \in Level /\ blocking \in BOOLEAN
    BY <1>1, DowngradedOp DEF StateLock
  <2>2. gl' = [gl EXCEPT ![p] = [gl[p] EXCEPT !.phys = phys, !.told = FALSE, !.blocking = blocking]]
    BY <1>1, <1>2 DEF Handler
  <2>3. IsLock([gl[p] EXCEPT !.phys = phys, !.told = FALSE, !.blocking = blocking],
               phys, gl[p].want, gl[p].pending, gl[p].writer, blocking)
    <3> HIDE DEF phys, blocking
    <3> QED
      BY <2>1, <1>1 DEF IsLock, StateLock
  <2>4. IsManager(nb, state, b.scn, b.table, b.master)
    BY ManagerOps DEF Without, TypeInv, DataType
  <2>5. IsManager([nb EXCEPT !.flush = FALSE], state, b.scn, b.table, b.master)
    <3> HIDE DEF nb, state
    <3>1. nb \in Manager /\ nb.state = state /\ nb.scn = b.scn /\ nb.table = b.table /\ nb.master = b.master
      BY <2>4 DEF IsManager
    <3> QED
      BY <3>1, ManagerOps DEF TypeInv, DataType
  <2>6. bm' = [bm EXCEPT ![p] = c]
    BY <1>1, <1>2 DEF Handler
  <2>7. IsManager(c, state, b.scn, b.table, b.master)
    <3> HIDE DEF nb, state
    <3> QED
      BY <2>4, <2>5
  <2> HIDE DEF c, state, blocking, phys
  <2>8. BmTo(p, state, b.scn, b.table, b.master) /\ GlTo(p, phys, gl[p].want, gl[p].pending, gl[p].writer, blocking)
    BY <1>1, <2>2, <2>3, <2>6, <2>7, BmUpdate, GlUpdate
  <2> QED
    BY <1>2, <2>8 DEF state, blocking, phys
<1>3. CASE ~(gl[p].pending = None /\ ~gl[p].writer)
  <2>1. gl' = [gl EXCEPT ![p] = [gl[p] EXCEPT !.blocking = TRUE, !.told = TRUE]] /\ bm' = [bm EXCEPT ![p] = b]
    BY <1>1, <1>3 DEF Handler
  <2>2. IsLock([gl[p] EXCEPT !.blocking = TRUE, !.told = TRUE],
               gl[p].phys, gl[p].want, gl[p].pending, gl[p].writer, TRUE)
    BY <1>1 DEF IsLock, StateLock
  <2>3. IsManager(b, b.state, b.scn, b.table, b.master)
    BY ManagerOps DEF TypeInv, DataType
  <2> QED
    BY <1>1, <1>3, <2>1, <2>2, <2>3, BmUpdate, GlUpdate
<1> QED
  BY <1>2, <1>3

(***************************************************************************)
(* What each action does to bm, gl and th                                  *)
(***************************************************************************)

LEMMA EnterEffect ==
  ASSUME TypeInv, ThreadInv, NEW t \in Threads, Enter(t)
  PROVE  /\ th[t].pc = "enter" /\ writer[Home[t]] = None
         /\ IF th[t].why = "mark" THEN stamped' = stamped \union {th[t].page} /\ guard' = guard
                                  ELSE guard' = guard \union {t} /\ stamped' = stamped
         /\ UNCHANGED <<bm, gl>>
         /\ UNCHANGED <<header, file, delta, latest, buf, dirty, busy, target, writes, hlock, ending, writer, ast, crashes>>
         /\ /\ th[t].why \in ThreadPc
            /\ ThTo(t, IF bm[Home[t]].state = "unknown" THEN "lockRead" ELSE th[t].why,
                    th[t].op, th[t].why, th[t].page, th[t].left)
<1>0. /\ th[t].pc = "enter" /\ writer[Home[t]] = None
      /\ IF th[t].why = "mark" THEN stamped' = stamped \union {th[t].page} /\ guard' = guard
                               ELSE guard' = guard \union {t} /\ stamped' = stamped
      /\ UNCHANGED <<bm, gl>>
      /\ UNCHANGED <<header, file, delta, latest, buf, dirty, busy, target, writes, hlock, ending, writer, ast, crashes>>
  BY DEF Enter, At, MayRead, disk
<1>1. th[t].why \in ThreadPc
  BY Names DEF Enter, At, ThreadInv, Fits
<1> QED
  BY <1>0, <1>1, Moves, Names DEF Enter

LEMMA LockReadEffect ==
  ASSUME TypeInv, ThreadInv, NEW t \in Threads, LockRead(t), ~gl[Home[t]].blocking
  PROVE  /\ th[t].pc = "lockRead" /\ gl[Home[t]].pending = None /\ ~gl[Home[t]].writer
         /\ UNCHANGED <<header, file, delta, latest, buf, dirty, busy, target, stamped, writes, hlock, ending, guard, writer, ast, crashes>>
         /\ LET p == Home[t] IN
            /\ th[t].why \in ThreadPc
            /\ ThTo(t, IF gl[p].phys # "none" THEN th[t].why ELSE "waitRead",
                    th[t].op, th[t].why, th[t].page, th[t].left)
            /\ UNCHANGED bm
            /\ IF gl[p].phys # "none" THEN UNCHANGED gl
               ELSE GlTo(p, gl[p].phys, "read", t, gl[p].writer, gl[p].blocking)
<1>0. /\ th[t].pc = "lockRead" /\ gl[Home[t]].pending = None /\ ~gl[Home[t]].writer
      /\ UNCHANGED <<header, file, delta, latest, buf, dirty, busy, target, stamped, writes, hlock, ending, guard, writer, ast, crashes>>
  BY DEF LockRead, At, disk, pool, locks
<1> DEFINE p == Home[t]
<1>1. p \in Procs /\ gl \in [Procs -> StateLock] /\ gl[p] \in StateLock
  BY NBackupAssumption DEF TypeInv, ProcType
<1>2. th[t].why \in ThreadPc
  BY Names DEF LockRead, At, ThreadInv, Fits
<1>3. CASE gl[p].phys # "none"
  <2>1. Goto(t, th[t].why) /\ UNCHANGED bm /\ UNCHANGED gl
    BY <1>3 DEF LockRead
  <2> QED
    BY <1>0, <1>2, <1>3, <2>1, Moves
<1>4. CASE gl[p].phys = "none"
  <2>1. Goto(t, "waitRead") /\ UNCHANGED bm
    BY <1>4 DEF LockRead
  <2>2. gl' = [gl EXCEPT ![p] = [gl[p] EXCEPT !.pending = t, !.want = "read"]]
    BY <1>1, <1>4 DEF LockRead
  <2>3. GlTo(p, gl[p].phys, "read", t, gl[p].writer, gl[p].blocking)
    BY <1>1, <2>2, LockOps, GlUpdate, Names
  <2> QED
    BY <1>0, <1>2, <1>4, <2>1, <2>3, Moves, Names
<1> QED
  BY <1>0, <1>3, <1>4

LEMMA GrantedReadEffect ==
  ASSUME TypeInv, ThreadInv, NEW t \in Threads, GrantedRead(t), ~gl[Home[t]].blocking
  PROVE  /\ th[t].pc = "waitRead" /\ gl[Home[t]].want = "none"
         /\ UNCHANGED <<header, file, delta, latest, buf, dirty, busy, target, stamped, writes, hlock, ending, guard, writer, ast, crashes>>
         /\ LET p == Home[t] IN
            /\ th[t].why \in ThreadPc
            /\ ThTo(t, th[t].why, th[t].op, th[t].why, th[t].page, th[t].left)
            /\ BmTo(p, header.state, header.scn,
                    IF header.state = "normal" \/ header.scn - bm[p].scn > 1 THEN {} ELSE bm[p].table, bm[p].master)
            /\ GlTo(p, gl[p].phys, gl[p].want, None, gl[p].writer, gl[p].blocking)
<1>0. /\ th[t].pc = "waitRead" /\ gl[Home[t]].want = "none"
      /\ UNCHANGED <<header, file, delta, latest, buf, dirty, busy, target, stamped, writes, hlock, ending, guard, writer, ast, crashes>>
  BY DEF GrantedRead, At, disk, pool, locks
<1> DEFINE p == Home[t]
<1>1. /\ p \in Procs /\ gl \in [Procs -> StateLock] /\ gl[p] \in StateLock
      /\ bm \in [Procs -> Manager] /\ bm[p] \in Manager
  BY NBackupAssumption DEF TypeInv, ProcType
<1>2. th[t].why \in ThreadPc
  BY Names DEF GrantedRead, At, ThreadInv, Fits
<1>3. ThTo(t, th[t].why, th[t].op, th[t].why, th[t].page, th[t].left)
  BY <1>2, Moves DEF GrantedRead
<1>4. bm' = [bm EXCEPT ![p] = Actualized(bm[p])]
  BY <1>1 DEF GrantedRead
<1>5. BmTo(p, header.state, header.scn,
           IF header.state = "normal" \/ header.scn - bm[p].scn > 1 THEN {} ELSE bm[p].table, bm[p].master)
  BY <1>1, <1>4, ManagerOps, BmUpdate DEF TypeInv, DataType
<1>6. gl' = [gl EXCEPT ![p] = [gl[p] EXCEPT !.pending = None]]
  BY <1>1 DEF GrantedRead
<1>7. GlTo(p, gl[p].phys, gl[p].want, None, gl[p].writer, gl[p].blocking)
  BY <1>1, <1>6, LockOps, GlUpdate, Names
<1> QED
  BY <1>0, <1>2, <1>3, <1>5, <1>7

LEMMA FetchEffect ==
  ASSUME TypeInv, NEW t \in Threads, NEW pg \in Pages, Fetch(t, pg)
  PROVE  /\ th[t].pc = "idle" /\ busy[pg] = None /\ dirty[pg] \in {None, Home[t]}
         /\ busy' = [busy EXCEPT ![pg] = t]
         /\ UNCHANGED <<bm, gl>>
         /\ UNCHANGED <<header, file, delta, latest, buf, dirty, target, stamped, writes, hlock, ending, guard, writer, ast, crashes>>
         /\ ThTo(t, IF dirty[pg] = None THEN "enter" ELSE "mark", "change", "read", pg, th[t].left)
<1>0. /\ th[t].pc = "idle" /\ busy[pg] = None /\ dirty[pg] \in {None, Home[t]}
      /\ busy' = [busy EXCEPT ![pg] = t]
      /\ UNCHANGED <<bm, gl>>
      /\ UNCHANGED <<header, file, delta, latest, buf, dirty, target, stamped, writes, hlock, ending, guard, writer, ast, crashes>>
  BY DEF Fetch, At, Fetched, disk, locks
<1> DEFINE pc == IF dirty[pg] = None THEN "enter" ELSE "mark"
<1>1. th \in [Threads -> Thread] /\ th[t] \in Thread /\ pc \in ThreadPc
  BY Names DEF TypeInv, ProcType
<1>2. th' = [th EXCEPT ![t] = [th[t] EXCEPT !.op = "change", !.page = pg, !.why = "read", !.pc = pc]]
  BY <1>1 DEF Fetch
<1> HIDE DEF pc
<1>3. IsThread([th[t] EXCEPT !.op = "change", !.page = pg, !.why = "read", !.pc = pc],
               pc, "change", "read", pg, th[t].left)
  BY <1>1, Names DEF IsThread, Thread
<1>4. ThTo(t, pc, "change", "read", pg, th[t].left)
  BY <1>1, <1>2, <1>3, ThUpdate
<1> QED
  BY <1>0, <1>4 DEF pc

\* The last reader but t, or but the page.
LEMMA ReadEffect ==
  ASSUME TypeInv, NEW t \in Threads, Read(t)
  PROVE  /\ th[t].pc = "read" /\ buf' = [buf EXCEPT ![th[t].page] = Stored(Home[t], th[t].page)]
         /\ UNCHANGED <<header, file, delta, latest, dirty, target, stamped, writes, hlock, ending, writer, ast, crashes>>
         /\ LET p == Home[t]
                pg == th[t].page
                table == IF bm[p].state # "normal" /\ pg \notin bm[p].table THEN DOMAIN delta ELSE bm[p].table
                late == Late(p, Readers(p) \ {t})
            IN
            \/ /\ th[t].op = "change" /\ guard' = guard \ {t}
               /\ BmTo(p, IF late THEN "unknown" ELSE bm[p].state, bm[p].scn, table, bm[p].master)
               /\ GlTo(p, IF late THEN "none" ELSE gl[p].phys, gl[p].want, gl[p].pending, gl[p].writer,
                       IF late THEN FALSE ELSE gl[p].blocking)
               /\ \/ ThTo(t, "enter", th[t].op, "mark", th[t].page, th[t].left) /\ UNCHANGED busy
                  \/ ThTo(t, "idle", "none", "none", None, {}) /\ busy' = [busy EXCEPT ![pg] = None]
            \/ /\ th[t].op = "merge"
               /\ UNCHANGED <<guard, gl>>
               /\ BmTo(p, bm[p].state, bm[p].scn, table, bm[p].master)
               /\ IF Stored(p, pg).scn # bm[p].scn
                  THEN ThTo(t, "enter", th[t].op, "mark", th[t].page, th[t].left) /\ UNCHANGED busy
                  ELSE /\ ThTo(t, "merge", th[t].op, th[t].why, th[t].page, th[t].left)
                       /\ busy' = [busy EXCEPT ![pg] = None]
<1>0. /\ th[t].pc = "read" /\ buf' = [buf EXCEPT ![th[t].page] = Stored(Home[t], th[t].page)]
      /\ UNCHANGED <<header, file, delta, latest, dirty, target, stamped, writes, hlock, ending, writer, ast, crashes>>
  BY DEF Read, At, disk
<1> DEFINE p == Home[t]
           pg == th[t].page
           table == IF bm[p].state # "normal" /\ pg \notin bm[p].table THEN DOMAIN delta ELSE bm[p].table
           left == Readers(p) \ {t}
<1>1. /\ p \in Procs /\ gl \in [Procs -> StateLock] /\ gl[p] \in StateLock
      /\ bm \in [Procs -> Manager] /\ bm[p] \in Manager
      /\ th \in [Threads -> Thread] /\ th[t] \in Thread
  BY NBackupAssumption DEF TypeInv, ProcType
<1>2. IsManager(Looked(bm[p], pg), bm[p].state, bm[p].scn, table, bm[p].master)
  BY <1>1, ManagerOps DEF TypeInv, DataType
<1>3. IsThread([th[t] EXCEPT !.pc = "enter", !.why = "mark"], "enter", th[t].op, "mark", th[t].page, th[t].left)
  BY <1>1, Names DEF IsThread, Thread
<1>4. th' = [th EXCEPT ![t].pc = "enter", ![t].why = "mark"] =>
        ThTo(t, "enter", th[t].op, "mark", th[t].page, th[t].left)
  <2> SUFFICES ASSUME th' = [th EXCEPT ![t].pc = "enter", ![t].why = "mark"]
               PROVE  ThTo(t, "enter", th[t].op, "mark", th[t].page, th[t].left)
    OBVIOUS
  <2>1. th' = [th EXCEPT ![t] = [th[t] EXCEPT !.pc = "enter", !.why = "mark"]]
    BY <1>1
  <2> QED
    BY <1>0, <1>1, <1>3, <2>1, ThUpdate
<1>5. th' = [th EXCEPT ![t] = Idle] => ThTo(t, "idle", "none", "none", None, {})
  BY <1>1, Stays, ThUpdate
<1>6. CASE th[t].op = "change"
  <2>1. guard' = guard \ {t} /\ LockLeft(p, left)
    BY <1>6 DEF Read
  <2>2. bm' = [bm EXCEPT ![p] = Left(Looked(bm[p], pg), p, left)]
    BY <1>6, <1>1 DEF Read
  <2>3. IsManager(Left(Looked(bm[p], pg), p, left),
                  IF Late(p, left) THEN "unknown" ELSE bm[p].state, bm[p].scn, table, bm[p].master)
    BY <1>1, <1>2, LeftOp DEF IsManager
  <2>4. BmTo(p, IF Late(p, left) THEN "unknown" ELSE bm[p].state, bm[p].scn, table, bm[p].master)
    BY <1>1, <2>2, <2>3, BmUpdate
  <2>5. \/ th' = [th EXCEPT ![t].pc = "enter", ![t].why = "mark"] /\ UNCHANGED busy
        \/ th' = [th EXCEPT ![t] = Idle] /\ busy' = [busy EXCEPT ![pg] = None]
    BY <1>6 DEF Read
  <2> HIDE DEF left, table, p, pg
  <2>6. GlTo(p, IF Late(p, left) THEN "none" ELSE gl[p].phys, gl[p].want, gl[p].pending, gl[p].writer,
             IF Late(p, left) THEN FALSE ELSE gl[p].blocking)
    BY <1>1, <2>1, LockLeftOp
  <2> QED
    BY <1>0, <1>4, <1>5, <1>6, <2>1, <2>4, <2>5, <2>6 DEF left, table, p, pg
<1>7. CASE th[t].op = "merge"
  <2>1. UNCHANGED <<guard, gl>> /\ bm' = [bm EXCEPT ![p] = Looked(bm[p], pg)]
    BY <1>7, <1>1 DEF Read
  <2>2. BmTo(p, bm[p].state, bm[p].scn, table, bm[p].master)
    BY <1>1, <1>2, <2>1, BmUpdate
  <2>3. IF Stored(p, pg).scn # bm[p].scn
        THEN th' = [th EXCEPT ![t].pc = "enter", ![t].why = "mark"] /\ UNCHANGED busy
        ELSE Goto(t, "merge") /\ busy' = [busy EXCEPT ![pg] = None]
    BY <1>7 DEF Read
  <2> HIDE DEF table, p, pg
  <2> QED
    BY <1>0, <1>4, <1>7, <2>1, <2>2, <2>3, Moves, Names DEF table, p, pg
<1>8. th[t].op \in {"change", "merge"}
  BY DEF Read
<1> QED
  BY <1>0, <1>6, <1>7, <1>8

LEMMA MarkEffect ==
  ASSUME TypeInv, NEW t \in Threads, Mark(t), DOMAIN delta' \subseteq Pages
  PROVE  /\ th[t].pc = "mark"
         /\ \E change \in {0, 1} :
              /\ writes' = writes + change
              /\ latest' = [latest EXCEPT ![th[t].page] = @ + change]
              /\ buf' = [buf EXCEPT ![th[t].page] = [v |-> @.v + change, scn |-> bm[Home[t]].scn]]
              /\ th[t].op = "change" \/ change = 0
         /\ dirty' = [dirty EXCEPT ![th[t].page] = Home[t]] /\ busy' = [busy EXCEPT ![th[t].page] = None]
         /\ delta' = IF bm[Home[t]].state = "stalled" /\ th[t].page \notin bm[Home[t]].table \union DOMAIN delta
                     THEN [q \in DOMAIN delta \union {th[t].page} |-> IF q = th[t].page THEN Blank ELSE delta[q]]
                     ELSE delta
         /\ target' = IF th[t].page \in bm'[Home[t]].table /\ bm[Home[t]].state \in {"stalled", "merge"}
                      THEN target \union {th[t].page} ELSE target
         /\ UNCHANGED gl
         /\ UNCHANGED <<header, file, stamped, hlock, ending, guard, writer, ast, crashes>>
         /\ LET p == Home[t]
                pg == th[t].page
                new == IF bm[p].state # "normal" /\ pg \notin bm[p].table THEN DOMAIN delta ELSE bm[p].table
            IN
            /\ BmTo(p, bm[p].state, bm[p].scn,
                    IF bm[p].state = "stalled" /\ pg \notin bm[p].table THEN DOMAIN delta' ELSE new, bm[p].master)
            /\ IF th[t].op = "merge" THEN ThTo(t, "merge", th[t].op, th[t].why, th[t].page, th[t].left)
                                     ELSE ThTo(t, "idle", "none", "none", None, {})
<1>0. /\ th[t].pc = "mark"
      /\ \E change \in {0, 1} :
           /\ writes' = writes + change
           /\ latest' = [latest EXCEPT ![th[t].page] = @ + change]
           /\ buf' = [buf EXCEPT ![th[t].page] = [v |-> @.v + change, scn |-> bm[Home[t]].scn]]
           /\ th[t].op = "change" \/ change = 0
      /\ dirty' = [dirty EXCEPT ![th[t].page] = Home[t]] /\ busy' = [busy EXCEPT ![th[t].page] = None]
      /\ delta' = IF bm[Home[t]].state = "stalled" /\ th[t].page \notin bm[Home[t]].table \union DOMAIN delta
                  THEN [q \in DOMAIN delta \union {th[t].page} |-> IF q = th[t].page THEN Blank ELSE delta[q]]
                  ELSE delta
      /\ target' = IF th[t].page \in bm'[Home[t]].table /\ bm[Home[t]].state \in {"stalled", "merge"}
                   THEN target \union {th[t].page} ELSE target
      /\ UNCHANGED gl
      /\ UNCHANGED <<header, file, stamped, hlock, ending, guard, writer, ast, crashes>>
  BY DEF Mark, At, locks
<1> DEFINE p == Home[t]
           pg == th[t].page
           new == IF bm[p].state # "normal" /\ pg \notin bm[p].table THEN DOMAIN delta ELSE bm[p].table
           table == IF bm[p].state = "stalled" /\ pg \notin bm[p].table THEN DOMAIN delta' ELSE new
<1>1. /\ p \in Procs /\ bm \in [Procs -> Manager] /\ bm[p] \in Manager
      /\ th \in [Threads -> Thread] /\ th[t] \in Thread
  BY NBackupAssumption DEF TypeInv, ProcType
<1>2. BmTo(p, bm[p].state, bm[p].scn, table, bm[p].master)
  <2>1. CASE bm[p].state = "stalled" /\ pg \notin bm[p].table
    <3>1. bm' = [bm EXCEPT ![p] = [bm[p] EXCEPT !.table = DOMAIN delta']]
      BY <1>1, <2>1 DEF Mark
    <3>2. IsManager([bm[p] EXCEPT !.table = DOMAIN delta'], bm[p].state, bm[p].scn, DOMAIN delta', bm[p].master)
      BY <1>1, ManagerOps DEF TypeInv, DataType
    <3> QED
      BY <1>1, <2>1, <3>1, <3>2, BmUpdate
  <2>2. CASE ~(bm[p].state = "stalled" /\ pg \notin bm[p].table)
    <3>1. bm' = [bm EXCEPT ![p] = Looked(bm[p], pg)]
      BY <1>1, <2>2 DEF Mark
    <3>2. IsManager(Looked(bm[p], pg), bm[p].state, bm[p].scn, new, bm[p].master)
      BY <1>1, ManagerOps DEF TypeInv, DataType
    <3> QED
      BY <1>1, <2>2, <3>1, <3>2, BmUpdate
  <2> QED
    BY <2>1, <2>2
<1>3. IF th[t].op = "merge" THEN ThTo(t, "merge", th[t].op, th[t].why, th[t].page, th[t].left)
                            ELSE ThTo(t, "idle", "none", "none", None, {})
  <2>1. CASE th[t].op = "merge"
    <3>1. th' = [th EXCEPT ![t] = [th[t] EXCEPT !.pc = "merge"]]
      BY <1>1, <2>1 DEF Mark
    <3>2. IsThread([th[t] EXCEPT !.pc = "merge"], "merge", th[t].op, th[t].why, th[t].page, th[t].left)
      BY <1>1, Names DEF IsThread, Thread
    <3> QED
      BY <1>1, <2>1, <3>1, <3>2, ThUpdate
  <2>2. CASE th[t].op # "merge"
    <3>1. th' = [th EXCEPT ![t] = Idle]
      BY <1>1, <2>2 DEF Mark
    <3> QED
      BY <1>1, <2>2, <3>1, Stays, ThUpdate
  <2> QED
    BY <2>1, <2>2
<1> QED
  BY <1>0, <1>2, <1>3

LEMMA WriteEffect ==
  ASSUME TypeInv, NEW pg \in Pages, Write(pg)
  PROVE  /\ dirty[pg] # None /\ busy[pg] = None
         /\ delta' = IF /\ bm[dirty[pg]].state = "stalled" \/ (bm[dirty[pg]].state = "merge" /\ pg \in target)
                        /\ pg \in DOMAIN delta
                     THEN [delta EXCEPT ![pg] = buf[pg]] ELSE delta
         /\ file' = IF bm[dirty[pg]].state = "stalled" THEN file ELSE [file EXCEPT ![pg] = buf[pg]]
         /\ dirty' = [dirty EXCEPT ![pg] = None]
         /\ target' = target \ {pg} /\ stamped' = stamped \ {pg}
         /\ ast' = [ast EXCEPT ![dirty[pg]].left = @ \ {pg}]
         /\ UNCHANGED <<header, latest, buf, busy, writes, hlock, ending, guard, writer, crashes>>
         /\ LET p == dirty[pg]
                late == Late(p, Readers(p) \ {pg})
            IN
            /\ p \in Procs
            /\ BmTo(p, IF late THEN "unknown" ELSE bm[p].state, bm[p].scn, bm[p].table, bm[p].master)
            /\ GlTo(p, IF late THEN "none" ELSE gl[p].phys, gl[p].want, gl[p].pending, gl[p].writer,
                    IF late THEN FALSE ELSE gl[p].blocking)
            /\ th' \in [Threads -> Thread]
            /\ \A t \in Threads :
                 IsThread(th'[t], th[t].pc, th[t].op, th[t].why, th[t].page,
                          IF th[t].pc = "flush" THEN th[t].left \ {pg} ELSE th[t].left)
<1>0. /\ dirty[pg] # None /\ busy[pg] = None
      /\ delta' = IF /\ bm[dirty[pg]].state = "stalled" \/ (bm[dirty[pg]].state = "merge" /\ pg \in target)
                     /\ pg \in DOMAIN delta
                  THEN [delta EXCEPT ![pg] = buf[pg]] ELSE delta
      /\ file' = IF bm[dirty[pg]].state = "stalled" THEN file ELSE [file EXCEPT ![pg] = buf[pg]]
      /\ dirty' = [dirty EXCEPT ![pg] = None]
      /\ target' = target \ {pg} /\ stamped' = stamped \ {pg}
      /\ UNCHANGED <<header, latest, buf, busy, writes, hlock, ending, guard, writer, crashes>>
  BY DEF Write, Untargeted, locks
<1>1. dirty[pg] \in Procs
  BY DEF Write, TypeInv, DataType
<1>5. ast' = [ast EXCEPT ![dirty[pg]].left = @ \ {pg}]
  BY DEF Write
<1>2. Released(dirty[pg], Readers(dirty[pg]) \ {pg})
  BY DEF Write
<1>3. ASSUME NEW t \in Threads
      PROVE  IsThread(th'[t], th[t].pc, th[t].op, th[t].why, th[t].page,
                      IF th[t].pc = "flush" THEN th[t].left \ {pg} ELSE th[t].left)
  <2>1. th[t] \in Thread
    BY DEF TypeInv, ProcType
  <2>2. th'[t] = IF th[t].pc = "flush" THEN [th[t] EXCEPT !.left = th[t].left \ {pg}] ELSE th[t]
    BY DEF Write
  <2> QED
    BY <2>1, <2>2 DEF IsThread, Thread
<1>4. th' \in [Threads -> Thread]
  <2>1. th' = [t \in Threads |-> IF th[t].pc = "flush" THEN [th[t] EXCEPT !.left = @ \ {pg}] ELSE th[t]]
    BY DEF Write
  <2>2. \A t \in Threads : th'[t] \in Thread
    BY <1>3 DEF IsThread
  <2> QED
    BY <2>1, <2>2
<1> QED
  BY <1>0, <1>5, <1>1, <1>2, <1>3, <1>4, ReleasedOp

LEMMA FetchHeaderEffect ==
  ASSUME TypeInv, NEW t \in Threads, FetchHeader(t)
  PROVE  /\ th[t].pc = "flush" /\ th[t].left = {} /\ th[t].op # "merge" /\ hlock' = t
         /\ UNCHANGED <<bm, gl>>
         /\ UNCHANGED <<header, file, delta, latest, buf, dirty, busy, target, stamped, writes, ending, guard, writer, ast, crashes>>
         /\ ThTo(t, "enter", th[t].op, "header", th[t].page, th[t].left)
<1>0. /\ th[t].pc = "flush" /\ th[t].left = {} /\ th[t].op # "merge" /\ hlock' = t
      /\ UNCHANGED <<bm, gl>>
      /\ UNCHANGED <<header, file, delta, latest, buf, dirty, busy, target, stamped, writes, ending, guard, writer, ast, crashes>>
  BY DEF FetchHeader, At, disk, pool
<1>1. th \in [Threads -> Thread] /\ th[t] \in Thread
  BY DEF TypeInv, ProcType
<1>2. th' = [th EXCEPT ![t] = [th[t] EXCEPT !.pc = "enter", !.why = "header"]]
  BY <1>1 DEF FetchHeader
<1>3. IsThread([th[t] EXCEPT !.pc = "enter", !.why = "header"], "enter", th[t].op, "header", th[t].page, th[t].left)
  BY <1>1, Names DEF IsThread, Thread
<1> QED
  BY <1>0, <1>1, <1>2, <1>3, ThUpdate

LEMMA LockWriteEffect ==
  ASSUME TypeInv, NEW t \in Threads, LockWrite(t)
  PROVE  /\ th[t].pc = "lockWrite" /\ gl[Home[t]].pending = None
         /\ UNCHANGED <<header, file, delta, latest, buf, dirty, busy, target, stamped, writes, hlock, ending, guard, writer, ast, crashes>>
         /\ LET p == Home[t] IN
            IF gl[p].phys = "write"
            THEN /\ GlTo(p, gl[p].phys, gl[p].want, gl[p].pending, TRUE, gl[p].blocking)
                 /\ BmTo(p, bm[p].state, bm[p].scn, bm[p].table, bm[p].master)
                 /\ ThTo(t, "locked", th[t].op, th[t].why, th[t].page, th[t].left)
            ELSE /\ GlTo(p, "none", "write", t, gl[p].writer, IF gl[p].phys = "none" THEN gl[p].blocking ELSE FALSE)
                 /\ BmTo(p, IF gl[p].phys = "none" THEN bm[p].state ELSE "unknown",
                         bm[p].scn, bm[p].table, bm[p].master)
                 /\ ThTo(t, "waitWrite", th[t].op, th[t].why, th[t].page, th[t].left)
<1>0. /\ th[t].pc = "lockWrite" /\ gl[Home[t]].pending = None
      /\ UNCHANGED <<header, file, delta, latest, buf, dirty, busy, target, stamped, writes, hlock, ending, guard, writer, ast, crashes>>
  BY DEF LockWrite, At, disk, pool, locks
<1> DEFINE p == Home[t]
<1>1. /\ p \in Procs /\ gl \in [Procs -> StateLock] /\ gl[p] \in StateLock
      /\ bm \in [Procs -> Manager] /\ bm[p] \in Manager
  BY NBackupAssumption DEF TypeInv, ProcType
<1>2. CASE gl[p].phys = "write"
  <2>1. /\ gl' = [gl EXCEPT ![p] = [gl[p] EXCEPT !.writer = TRUE]]
        /\ bm' = [bm EXCEPT ![p] = [bm[p] EXCEPT !.flush = FALSE]]
        /\ Goto(t, "locked")
    BY <1>1, <1>2 DEF LockWrite
  <2>2. IsLock([gl[p] EXCEPT !.writer = TRUE], gl[p].phys, gl[p].want, gl[p].pending, TRUE, gl[p].blocking)
    BY <1>1 DEF IsLock, StateLock
  <2>3. IsManager([bm[p] EXCEPT !.flush = FALSE], bm[p].state, bm[p].scn, bm[p].table, bm[p].master)
    BY <1>1, ManagerOps DEF TypeInv, DataType
  <2> QED
    BY <1>0, <1>1, <1>2, <2>1, <2>2, <2>3, GlUpdate, BmUpdate, Moves, Names
<1>3. CASE gl[p].phys # "write"
  <2> DEFINE g == IF gl[p].phys = "none" THEN gl[p] ELSE Gone(gl[p])
             b == IF gl[p].phys = "none" THEN bm[p] ELSE Invalid(bm[p])
             blocking == IF gl[p].phys = "none" THEN gl[p].blocking ELSE FALSE
             state == IF gl[p].phys = "none" THEN bm[p].state ELSE "unknown"
  <2>1. gl' = [gl EXCEPT ![p] = [g EXCEPT !.pending = t, !.want = "write"]] /\ Goto(t, "waitWrite")
    BY <1>1, <1>3 DEF LockWrite
  <2>2. bm' = [bm EXCEPT ![p] = b]
    BY <1>1, <1>3 DEF LockWrite
  <2>3. IsLock(g, "none", gl[p].want, gl[p].pending, gl[p].writer, blocking)
    BY <1>1, LockOps
  <2>4. IsManager(b, state, bm[p].scn, bm[p].table, bm[p].master)
    BY <1>1, ManagerOps DEF TypeInv, DataType
  <2> HIDE DEF g, b, blocking, state
  <2>5. IsLock([g EXCEPT !.pending = t, !.want = "write"], "none", "write", t, gl[p].writer, blocking)
    <3>1. g \in StateLock /\ g.phys = "none" /\ g.writer = gl[p].writer /\ g.blocking = blocking
      BY <2>3 DEF IsLock
    <3> QED
      BY <3>1, LockOps, Names
  <2>6. GlTo(p, "none", "write", t, gl[p].writer, blocking)
    BY <1>1, <2>1, <2>5, GlUpdate
  <2>7. BmTo(p, state, bm[p].scn, bm[p].table, bm[p].master)
    BY <1>1, <2>2, <2>4, BmUpdate
  <2>8. ThTo(t, "waitWrite", th[t].op, th[t].why, th[t].page, th[t].left)
    BY <2>1, Moves, Names
  <2> QED
    BY <1>0, <1>3, <2>6, <2>7, <2>8 DEF blocking, state
<1> QED
  BY <1>0, <1>2, <1>3

LEMMA GrantedWriteEffect ==
  ASSUME TypeInv, NEW t \in Threads, GrantedWrite(t)
  PROVE  /\ th[t].pc = "waitWrite" /\ gl[Home[t]].want = "none"
         /\ UNCHANGED <<header, file, delta, latest, buf, dirty, busy, target, stamped, writes, hlock, ending, guard, writer, ast, crashes>>
         /\ LET p == Home[t] IN
            /\ ThTo(t, "locked", th[t].op, th[t].why, th[t].page, th[t].left)
            /\ BmTo(p, header.state, header.scn,
                    IF header.state = "normal" \/ header.scn - bm[p].scn > 1 THEN {} ELSE bm[p].table, bm[p].master)
            /\ GlTo(p, gl[p].phys, gl[p].want, None, TRUE, gl[p].blocking)
<1>0. /\ th[t].pc = "waitWrite" /\ gl[Home[t]].want = "none"
      /\ UNCHANGED <<header, file, delta, latest, buf, dirty, busy, target, stamped, writes, hlock, ending, guard, writer, ast, crashes>>
  BY DEF GrantedWrite, At, disk, pool, locks
<1> DEFINE p == Home[t]
<1>1. /\ p \in Procs /\ gl \in [Procs -> StateLock] /\ gl[p] \in StateLock
      /\ bm \in [Procs -> Manager] /\ bm[p] \in Manager
  BY NBackupAssumption DEF TypeInv, ProcType
<1>2. ThTo(t, "locked", th[t].op, th[t].why, th[t].page, th[t].left)
  BY Moves, Names DEF GrantedWrite
<1>3. bm' = [bm EXCEPT ![p] = Actualized(bm[p])]
  BY <1>1 DEF GrantedWrite
<1>4. BmTo(p, header.state, header.scn,
           IF header.state = "normal" \/ header.scn - bm[p].scn > 1 THEN {} ELSE bm[p].table, bm[p].master)
  BY <1>1, <1>3, ManagerOps, BmUpdate DEF TypeInv, DataType
<1>5. gl' = [gl EXCEPT ![p] = [gl[p] EXCEPT !.pending = None, !.writer = TRUE]]
  BY <1>1 DEF GrantedWrite
<1>6. IsLock([gl[p] EXCEPT !.pending = None, !.writer = TRUE], gl[p].phys, gl[p].want, None, TRUE, gl[p].blocking)
  BY <1>1, Names DEF IsLock, StateLock
<1>7. GlTo(p, gl[p].phys, gl[p].want, None, TRUE, gl[p].blocking)
  BY <1>1, <1>5, <1>6, GlUpdate
<1> QED
  BY <1>0, <1>2, <1>4, <1>7

LEMMA StallEffect ==
  ASSUME TypeInv, NEW t \in Threads, Stall(t)
  PROVE  /\ th[t].pc = "locked" /\ th[t].op = "begin"
         /\ writer' = [writer EXCEPT ![Home[t]] = None]
         /\ UNCHANGED <<file, latest, buf, dirty, busy, target, stamped, writes, ending, guard, ast, crashes>>
         /\ ThTo(t, "idle", "none", "none", None, {})
         /\ hlock' = None
         /\ \E b \in Manager :
              /\ UnlockWrite(t, b)
              /\ IF bm[Home[t]].state = "normal"
                 THEN /\ header' = [state |-> "stalled", scn |-> bm[Home[t]].scn + 1] /\ delta' = NoTable
                      /\ IsManager(b, "stalled", bm[Home[t]].scn + 1, bm[Home[t]].table, FALSE)
                 ELSE /\ UNCHANGED <<header, delta>>
                      /\ IsManager(b, bm[Home[t]].state, bm[Home[t]].scn, bm[Home[t]].table, FALSE)
<1> DEFINE p == Home[t]
           c == Changed(bm[p], "stalled")
<1>1. p \in Procs /\ bm[p] \in Manager /\ th \in [Threads -> Thread]
  BY NBackupAssumption DEF TypeInv, ProcType
<1>2. IsManager(c, "stalled", bm[p].scn + 1, bm[p].table, bm[p].master)
  BY <1>1, ManagerOps, Names DEF TypeInv, DataType
<1>3. IsManager([c EXCEPT !.master = FALSE], "stalled", bm[p].scn + 1, bm[p].table, FALSE)
  <2>1. c \in Manager /\ c.state = "stalled" /\ c.scn = bm[p].scn + 1 /\ c.table = bm[p].table
    BY <1>2 DEF IsManager
  <2> HIDE DEF c
  <2> QED
    BY <2>1, ManagerOps DEF TypeInv, DataType
<1>4. IsManager([bm[p] EXCEPT !.master = FALSE], bm[p].state, bm[p].scn, bm[p].table, FALSE)
  BY <1>1, ManagerOps DEF TypeInv, DataType
<1>5. ThTo(t, "idle", "none", "none", None, {})
  BY <1>1, Stays, ThUpdate DEF Stall
<1>6. \E b \in Manager :
        /\ UnlockWrite(t, b)
        /\ IF bm[p].state = "normal"
           THEN /\ header' = [state |-> "stalled", scn |-> bm[p].scn + 1] /\ delta' = NoTable
                /\ IsManager(b, "stalled", bm[p].scn + 1, bm[p].table, FALSE)
           ELSE /\ UNCHANGED <<header, delta>>
                /\ IsManager(b, bm[p].state, bm[p].scn, bm[p].table, FALSE)
  <2>1. CASE bm[p].state = "normal"
    <3>1. [c EXCEPT !.master = FALSE] \in Manager
      BY <1>3 DEF IsManager
    <3>2. /\ UnlockWrite(t, [c EXCEPT !.master = FALSE])
          /\ header' = [state |-> "stalled", scn |-> bm[p].scn + 1] /\ delta' = NoTable
      BY <2>1 DEF Stall, NewState
    <3> QED
      BY <1>3, <2>1, <3>1, <3>2
  <2>2. CASE bm[p].state # "normal"
    <3>1. [bm[p] EXCEPT !.master = FALSE] \in Manager
      BY <1>4 DEF IsManager
    <3>2. UnlockWrite(t, [bm[p] EXCEPT !.master = FALSE]) /\ UNCHANGED <<header, delta>>
      BY <2>2 DEF Stall
    <3> QED
      BY <1>4, <2>2, <3>1, <3>2
  <2> QED
    BY <2>1, <2>2
<1>7. /\ th[t].pc = "locked" /\ th[t].op = "begin"
      /\ UNCHANGED <<file, latest, buf, dirty, busy, target, stamped, writes, ending, guard, ast, crashes>>
  BY DEF Stall, At, pool
<1>8. writer' = [writer EXCEPT ![p] = None] /\ hlock' = None
  BY <1>6 DEF UnlockWrite
<1> QED
  BY <1>5, <1>6, <1>7, <1>8

LEMMA StartMergeEffect ==
  ASSUME TypeInv, NEW t \in Threads, StartMerge(t)
  PROVE  /\ th[t].pc = "locked" /\ th[t].op = "end"
         /\ writer' = [writer EXCEPT ![Home[t]] = None]
         /\ UNCHANGED <<file, delta, latest, buf, dirty, busy, target, stamped, writes, guard, ast, crashes>>
         /\ hlock' = None
         /\ \E b \in Manager :
              /\ UnlockWrite(t, b)
              /\ IF bm[Home[t]].state \in {"stalled", "merge"}
                 THEN /\ header' = [state |-> "merge", scn |-> bm[Home[t]].scn + 1]
                      /\ UNCHANGED ending
                      /\ ThTo(t, "enter", "merge", "table", th[t].page, th[t].left)
                      /\ IsManager(b, "merge", bm[Home[t]].scn + 1, bm[Home[t]].table, bm[Home[t]].master)
                 ELSE /\ UNCHANGED header
                      /\ ending' = None
                      /\ ThTo(t, "idle", "none", "none", None, {})
                      /\ IsManager(b, bm[Home[t]].state, bm[Home[t]].scn, bm[Home[t]].table, FALSE)
<1> DEFINE p == Home[t]
           c == Changed(bm[p], "merge")
<1>1. p \in Procs /\ bm[p] \in Manager /\ th \in [Threads -> Thread] /\ th[t] \in Thread
  BY NBackupAssumption DEF TypeInv, ProcType
<1>2. IsManager(c, "merge", bm[p].scn + 1, bm[p].table, bm[p].master)
  BY <1>1, ManagerOps, Names DEF TypeInv, DataType
<1>3. IsManager([bm[p] EXCEPT !.master = FALSE], bm[p].state, bm[p].scn, bm[p].table, FALSE)
  BY <1>1, ManagerOps DEF TypeInv, DataType
<1>4. /\ th[t].pc = "locked" /\ th[t].op = "end"
      /\ UNCHANGED <<file, delta, latest, buf, dirty, busy, target, stamped, writes, guard, ast, crashes>>
  BY DEF StartMerge, At, pool
<1>5. CASE bm[p].state \in {"stalled", "merge"}
  <2>1. /\ UnlockWrite(t, c) /\ c \in Manager
        /\ header' = [state |-> "merge", scn |-> bm[p].scn + 1] /\ UNCHANGED ending
    BY <1>2, <1>5 DEF StartMerge, NewState, IsManager
  <2>2. th' = [th EXCEPT ![t] = [th[t] EXCEPT !.op = "merge", !.pc = "enter", !.why = "table"]]
    BY <1>1, <1>5 DEF StartMerge
  <2>3. IsThread([th[t] EXCEPT !.op = "merge", !.pc = "enter", !.why = "table"],
                 "enter", "merge", "table", th[t].page, th[t].left)
    BY <1>1, Names DEF IsThread, Thread
  <2>4. ThTo(t, "enter", "merge", "table", th[t].page, th[t].left)
    BY <1>1, <2>2, <2>3, ThUpdate
  <2>5. writer' = [writer EXCEPT ![p] = None] /\ hlock' = None
    BY <2>1 DEF UnlockWrite
  <2> QED
    BY <1>2, <1>4, <1>5, <2>1, <2>4, <2>5
<1>6. CASE bm[p].state \notin {"stalled", "merge"}
  <2>1. /\ UnlockWrite(t, [bm[p] EXCEPT !.master = FALSE]) /\ ending' = None /\ UNCHANGED header
        /\ th' = [th EXCEPT ![t] = Idle]
    BY <1>6 DEF StartMerge
  <2>2. [bm[p] EXCEPT !.master = FALSE] \in Manager
    BY <1>3 DEF IsManager
  <2>3. ThTo(t, "idle", "none", "none", None, {})
    BY <1>1, <2>1, Stays, ThUpdate
  <2>4. writer' = [writer EXCEPT ![p] = None] /\ hlock' = None
    BY <2>1 DEF UnlockWrite
  <2> QED
    BY <1>3, <1>4, <1>6, <2>1, <2>2, <2>3, <2>4
<1> QED
  BY <1>5, <1>6

LEMMA FinishEffect ==
  ASSUME TypeInv, NEW t \in Threads, Finish(t)
  PROVE  /\ th[t].pc = "locked" /\ th[t].op = "finish"
         /\ writer' = [writer EXCEPT ![Home[t]] = None] /\ hlock' = None /\ ending' = None
         /\ UNCHANGED <<file, latest, buf, dirty, busy, target, stamped, writes, guard, ast, crashes>>
         /\ header' = [state |-> "normal", scn |-> bm[Home[t]].scn + 1] /\ delta' = NoTable
         /\ ThTo(t, "idle", "none", "none", None, {})
         /\ \E b \in Manager : UnlockWrite(t, b) /\ IsManager(b, "normal", bm[Home[t]].scn + 1, {}, FALSE)
<1> DEFINE p == Home[t]
           c == Changed(bm[p], "normal")
           d == [c EXCEPT !.master = FALSE]
<1>1. p \in Procs /\ bm[p] \in Manager /\ th \in [Threads -> Thread]
  BY NBackupAssumption DEF TypeInv, ProcType
<1>2. IsManager(c, "normal", bm[p].scn + 1, bm[p].table, bm[p].master)
  BY <1>1, ManagerOps, Names DEF TypeInv, DataType
<1>3. IsManager([c EXCEPT !.master = FALSE, !.table = {}], "normal", bm[p].scn + 1, {}, FALSE)
  <2>1. c \in Manager /\ c.state = "normal" /\ c.scn = bm[p].scn + 1
    BY <1>2 DEF IsManager
  <2> HIDE DEF c
  <2>2. IsManager(d, "normal", bm[p].scn + 1, c.table, FALSE)
    BY <2>1, ManagerOps DEF TypeInv, DataType
  <2>3. d \in Manager /\ d.state = "normal" /\ d.scn = bm[p].scn + 1 /\ d.master = FALSE
    BY <2>2 DEF IsManager
  <2>4. [c EXCEPT !.master = FALSE, !.table = {}] = [d EXCEPT !.table = {}]
    BY <2>1 DEF Manager
  <2> HIDE DEF d
  <2>5. IsManager([d EXCEPT !.table = {}], "normal", bm[p].scn + 1, {}, FALSE)
    BY <2>3, ManagerOps DEF TypeInv, DataType
  <2> QED
    BY <2>4, <2>5
<1>4. UnlockWrite(t, [c EXCEPT !.master = FALSE, !.table = {}])
  BY DEF Finish
<1>5. [c EXCEPT !.master = FALSE, !.table = {}] \in Manager
  BY <1>3 DEF IsManager
<1>6. ThTo(t, "idle", "none", "none", None, {})
  BY <1>1, Stays, ThUpdate DEF Finish
<1>7. writer' = [writer EXCEPT ![Home[t]] = None] /\ hlock' = None
  BY <1>4 DEF UnlockWrite
<1>8. /\ th[t].pc = "locked" /\ th[t].op = "finish" /\ ending' = None
      /\ UNCHANGED <<file, latest, buf, dirty, busy, target, stamped, writes, guard, ast, crashes>>
      /\ header' = [state |-> "normal", scn |-> bm[Home[t]].scn + 1] /\ delta' = NoTable
  BY DEF Finish, At, pool, NewState
<1> QED
  BY <1>3, <1>4, <1>5, <1>6, <1>7, <1>8

LEMMA TableEffect ==
  ASSUME TypeInv, NEW t \in Threads, Table(t)
  PROVE  /\ th[t].pc = "table"
         /\ UNCHANGED <<gl, header, file, delta, latest, buf, dirty, busy, target, stamped, writes,
                        hlock, ending, guard, writer, ast, crashes>>
         /\ BmTo(Home[t], bm[Home[t]].state, bm[Home[t]].scn, DOMAIN delta, bm[Home[t]].master)
         /\ ThTo(t, "merge", th[t].op, th[t].why, th[t].page, DOMAIN delta)
<1> DEFINE p == Home[t]
<1>1. /\ p \in Procs /\ bm \in [Procs -> Manager] /\ bm[p] \in Manager
      /\ th \in [Threads -> Thread] /\ th[t] \in Thread /\ DOMAIN delta \in SUBSET Pages
  BY NBackupAssumption DEF TypeInv, ProcType, DataType
<1>2. /\ th[t].pc = "table"
      /\ UNCHANGED <<gl, header, file, delta, latest, buf, dirty, busy, target, stamped, writes,
                     hlock, ending, guard, writer, ast, crashes>>
  BY DEF Table, At, disk, pool, locks
<1>3. bm' = [bm EXCEPT ![p] = [bm[p] EXCEPT !.table = DOMAIN delta]]
  BY DEF Table
<1>4. BmTo(p, bm[p].state, bm[p].scn, DOMAIN delta, bm[p].master)
  BY <1>1, <1>3, ManagerOps, BmUpdate DEF TypeInv, DataType
<1>5. th' = [th EXCEPT ![t] = [th[t] EXCEPT !.pc = "merge", !.left = DOMAIN delta]]
  BY <1>1 DEF Table
<1>6. IsThread([th[t] EXCEPT !.pc = "merge", !.left = DOMAIN delta],
               "merge", th[t].op, th[t].why, th[t].page, DOMAIN delta)
  BY <1>1, Names DEF IsThread, Thread
<1>7. ThTo(t, "merge", th[t].op, th[t].why, th[t].page, DOMAIN delta)
  BY <1>1, <1>5, <1>6, ThUpdate
<1> QED
  BY <1>2, <1>4, <1>7

LEMMA MergeEffect ==
  ASSUME TypeInv, NEW t \in Threads, NEW pg \in Pages, Merge(t, pg)
  PROVE  /\ th[t].pc = "merge" /\ pg \in th[t].left /\ busy[pg] = None
         /\ UNCHANGED <<bm, gl, header, file, delta, latest, buf, dirty, target, stamped, writes,
                        hlock, ending, guard, writer, ast, crashes>>
         /\ IF dirty[pg] = Home[t] /\ buf[pg].scn = bm[Home[t]].scn
            THEN /\ UNCHANGED busy
                 /\ ThTo(t, "merge", th[t].op, th[t].why, th[t].page, th[t].left \ {pg})
            ELSE /\ dirty[pg] \in {None, Home[t]} /\ busy' = [busy EXCEPT ![pg] = t]
                 /\ ThTo(t, IF dirty[pg] = Home[t] THEN "mark" ELSE "read",
                         th[t].op, th[t].why, pg, th[t].left \ {pg})
<1> DEFINE p == Home[t]
           pc == IF dirty[pg] = p THEN "mark" ELSE "read"
<1>1. th \in [Threads -> Thread] /\ th[t] \in Thread /\ pc \in ThreadPc
  BY Names DEF TypeInv, ProcType
<1>2. /\ th[t].pc = "merge" /\ pg \in th[t].left
      /\ UNCHANGED <<bm, gl, header, file, delta, latest, buf, dirty, target, stamped, writes,
                     hlock, ending, guard, writer, ast, crashes>>
  BY DEF Merge, At, disk, locks
<1>3. CASE dirty[pg] = p /\ buf[pg].scn = bm[p].scn
  <2>1. th' = [th EXCEPT ![t] = [th[t] EXCEPT !.left = th[t].left \ {pg}]] /\ busy[pg] = None /\ UNCHANGED busy
    BY <1>1, <1>3 DEF Merge
  <2>2. IsThread([th[t] EXCEPT !.left = th[t].left \ {pg}],
                 th[t].pc, th[t].op, th[t].why, th[t].page, th[t].left \ {pg})
    BY <1>1 DEF IsThread, Thread
  <2>3. ThTo(t, th[t].pc, th[t].op, th[t].why, th[t].page, th[t].left \ {pg})
    BY <1>1, <2>1, <2>2, ThUpdate
  <2> QED
    BY <1>2, <1>3, <2>1, <2>3
<1>4. CASE ~(dirty[pg] = p /\ buf[pg].scn = bm[p].scn)
  <2>4. busy[pg] = None /\ dirty[pg] \in {None, p} /\ busy' = [busy EXCEPT ![pg] = t]
    BY <1>4 DEF Merge, Fetched
  <2>1. th' = [th EXCEPT ![t] = [th[t] EXCEPT !.left = th[t].left \ {pg}, !.page = pg, !.pc = pc]]
    BY <1>1, <1>4 DEF Merge
  <2> HIDE DEF pc
  <2>2. IsThread([th[t] EXCEPT !.left = th[t].left \ {pg}, !.page = pg, !.pc = pc],
                 pc, th[t].op, th[t].why, pg, th[t].left \ {pg})
    BY <1>1, Names DEF IsThread, Thread
  <2>3. ThTo(t, pc, th[t].op, th[t].why, pg, th[t].left \ {pg})
    BY <1>1, <2>1, <2>2, ThUpdate
  <2> QED
    BY <1>2, <1>4, <2>3, <2>4 DEF pc
<1> QED
  BY <1>3, <1>4

LEMMA MergeFlushEffect ==
  ASSUME TypeInv, NEW t \in Threads, MergeFlush(t)
  PROVE  /\ th[t].pc = "merge" /\ th[t].left = {}
         /\ UNCHANGED <<bm, gl, header, file, delta, latest, buf, dirty, busy, target, stamped, writes,
                        hlock, ending, guard, writer, ast, crashes>>
         /\ ThTo(t, "flush", th[t].op, th[t].why, th[t].page, Dirty(Home[t]))
<1>1. th \in [Threads -> Thread] /\ th[t] \in Thread /\ Dirty(Home[t]) \in SUBSET Pages
  BY DEF TypeInv, ProcType, Dirty
<1>2. /\ th[t].pc = "merge" /\ th[t].left = {}
      /\ UNCHANGED <<bm, gl, header, file, delta, latest, buf, dirty, busy, target, stamped, writes,
                     hlock, ending, guard, writer, ast, crashes>>
  BY DEF MergeFlush, At, disk, pool, locks
<1>3. th' = [th EXCEPT ![t] = [th[t] EXCEPT !.pc = "flush", !.left = Dirty(Home[t])]]
  BY <1>1 DEF MergeFlush
<1>4. IsThread([th[t] EXCEPT !.pc = "flush", !.left = Dirty(Home[t])],
               "flush", th[t].op, th[t].why, th[t].page, Dirty(Home[t]))
  BY <1>1, Names DEF IsThread, Thread
<1> QED
  BY <1>1, <1>2, <1>3, <1>4, ThUpdate

LEMMA MergedEffect ==
  ASSUME TypeInv, NEW t \in Threads, Merged(t)
  PROVE  LET p == Home[t]
             late == Late(p, Readers(p) \ {t})
         IN
         /\ th[t].pc = "flush" /\ th[t].op = "merge" /\ th[t].left = {}
         /\ guard' = guard \ {t}
         /\ UNCHANGED <<header, file, delta, latest, buf, dirty, busy, target, stamped, writes,
                        hlock, ending, writer, ast, crashes>>
         /\ BmTo(p, IF late THEN "unknown" ELSE bm[p].state, bm[p].scn, bm[p].table, TRUE)
         /\ GlTo(p, IF late THEN "none" ELSE gl[p].phys, gl[p].want, gl[p].pending, gl[p].writer,
                 IF late THEN FALSE ELSE gl[p].blocking)
         /\ ThTo(t, "flush", "finish", "none", None, Dirty(p))
<1> DEFINE p == Home[t]
           left == Readers(p) \ {t}
           b == Left(bm[p], p, left)
<1>1. p \in Procs /\ bm[p] \in Manager
  BY NBackupAssumption DEF TypeInv, ProcType
<1>2. /\ th[t].pc = "flush" /\ th[t].op = "merge" /\ th[t].left = {}
      /\ guard' = guard \ {t}
      /\ UNCHANGED <<header, file, delta, latest, buf, dirty, busy, target, stamped, writes,
                     hlock, ending, writer, ast, crashes>>
      /\ LockLeft(p, left) /\ Flush(t, "finish", b)
  BY DEF Merged, At, disk, pool
<1>3. IsManager(b, IF Late(p, left) THEN "unknown" ELSE bm[p].state, bm[p].scn, bm[p].table, bm[p].master)
  BY <1>1, LeftOp
<1> HIDE DEF left, b, p
<1>4. b \in Manager
  BY <1>3 DEF IsManager
<1>5. BmTo(p, b.state, b.scn, b.table, TRUE) /\ ThTo(t, "flush", "finish", "none", None, Dirty(p))
  BY <1>2, <1>4, FlushOp, Names DEF p
<1>6. BmTo(p, IF Late(p, left) THEN "unknown" ELSE bm[p].state, bm[p].scn, bm[p].table, TRUE)
  BY <1>3, <1>5 DEF IsManager
<1> QED
  BY <1>1, <1>2, <1>5, <1>6, LockLeftOp DEF p, left

LEMMA CheckEffect ==
  ASSUME TypeInv, NEW t \in Threads, Check(t)
  PROVE  LET p == Home[t]
             late == Late(p, Readers(p) \ {t})
             found == bm[p].state \in {"stalled", "merge"}
         IN
         /\ th[t].pc = "check"
         /\ guard' = guard \ {t}
         /\ UNCHANGED <<header, file, delta, latest, buf, dirty, busy, target, stamped, writes,
                        hlock, writer, ast, crashes>>
         /\ GlTo(p, IF late THEN "none" ELSE gl[p].phys, gl[p].want, gl[p].pending, gl[p].writer,
                 IF late THEN FALSE ELSE gl[p].blocking)
         /\ IF found
            THEN /\ BmTo(p, IF late THEN "unknown" ELSE bm[p].state, bm[p].scn, bm[p].table, TRUE)
                 /\ ThTo(t, "flush", "end", "none", None, Dirty(p)) /\ UNCHANGED ending
            ELSE /\ BmTo(p, IF late THEN "unknown" ELSE bm[p].state, bm[p].scn, bm[p].table, FALSE)
                 /\ ThTo(t, "idle", "none", "none", None, {}) /\ ending' = None
<1> DEFINE p == Home[t]
           left == Readers(p) \ {t}
           b == Left(bm[p], p, left)
           late == Late(p, left)
           state == IF late THEN "unknown" ELSE bm[p].state
<1>1. /\ p \in Procs /\ bm \in [Procs -> Manager] /\ bm[p] \in Manager
      /\ th \in [Threads -> Thread]
  BY NBackupAssumption DEF TypeInv, ProcType
<1>2. /\ th[t].pc = "check"
      /\ guard' = guard \ {t}
      /\ UNCHANGED <<header, file, delta, latest, buf, dirty, busy, target, stamped, writes,
                     hlock, writer, ast, crashes>>
      /\ LockLeft(p, left)
  BY DEF Check, At, disk, pool
<1>3. IsManager(b, state, bm[p].scn, bm[p].table, bm[p].master)
  BY <1>1, LeftOp
<1>4. GlTo(p, IF late THEN "none" ELSE gl[p].phys, gl[p].want, gl[p].pending, gl[p].writer,
           IF late THEN FALSE ELSE gl[p].blocking)
  <2> HIDE DEF left
  <2> QED
    BY <1>1, <1>2, LockLeftOp
<1>5. CASE bm[p].state \in {"stalled", "merge"}
  <2>1. Flush(t, "end", b) /\ UNCHANGED ending
    BY <1>5 DEF Check
  <2> HIDE DEF b, state
  <2>2. b \in Manager
    BY <1>3 DEF IsManager
  <2>3. BmTo(p, b.state, b.scn, b.table, TRUE) /\ ThTo(t, "flush", "end", "none", None, Dirty(p))
    BY <2>1, <2>2, FlushOp, Names
  <2>4. BmTo(p, state, bm[p].scn, bm[p].table, TRUE)
    BY <1>3, <2>3 DEF IsManager
  <2> QED
    BY <1>2, <1>4, <1>5, <2>1, <2>3, <2>4 DEF state
<1>6. CASE bm[p].state \notin {"stalled", "merge"}
  <2>1. /\ bm' = [bm EXCEPT ![p] = [b EXCEPT !.master = FALSE]]
        /\ th' = [th EXCEPT ![t] = Idle] /\ ending' = None
    BY <1>1, <1>6 DEF Check
  <2>2. ThTo(t, "idle", "none", "none", None, {})
    BY <1>1, <2>1, Stays, ThUpdate
  <2>3. IsManager([b EXCEPT !.master = FALSE], state, bm[p].scn, bm[p].table, FALSE)
    <3> HIDE DEF b, state
    <3>1. b \in Manager /\ b.state = state /\ b.scn = bm[p].scn /\ b.table = bm[p].table
      BY <1>3 DEF IsManager
    <3> QED
      BY <3>1, ManagerOps DEF TypeInv, DataType
  <2>4. BmTo(p, state, bm[p].scn, bm[p].table, FALSE)
    <3> HIDE DEF b, state
    <3> QED
      BY <1>1, <2>1, <2>3, BmUpdate
  <2> QED
    BY <1>2, <1>4, <1>6, <2>1, <2>2, <2>4
<1> QED
  BY <1>5, <1>6

LEMMA ReadHeaderEffect ==
  ASSUME TypeInv, NEW t \in Threads, ReadHeader(t)
  PROVE  LET p == Home[t]
             late == Late(p, Readers(p) \ {t})
         IN
         /\ th[t].pc = "header"
         /\ guard' = guard \ {t}
         /\ UNCHANGED <<header, file, delta, latest, buf, dirty, busy, target, stamped, writes,
                        hlock, ending, writer, ast, crashes>>
         /\ BmTo(p, IF late THEN "unknown" ELSE bm[p].state, bm[p].scn, bm[p].table, bm[p].master)
         /\ GlTo(p, IF late THEN "none" ELSE gl[p].phys, gl[p].want, gl[p].pending, gl[p].writer,
                 IF late THEN FALSE ELSE gl[p].blocking)
         /\ ThTo(t, "beginWrite", th[t].op, th[t].why, th[t].page, th[t].left)
<1>1. /\ th[t].pc = "header"
      /\ guard' = guard \ {t}
      /\ UNCHANGED <<header, file, delta, latest, buf, dirty, busy, target, stamped, writes,
                     hlock, ending, writer, ast, crashes>>
      /\ Released(Home[t], Readers(Home[t]) \ {t}) /\ Goto(t, "beginWrite")
  BY DEF ReadHeader, At, disk, pool
<1>2. Home[t] \in Procs
  BY NBackupAssumption
<1> QED
  BY <1>1, <1>2, ReleasedOp, Moves, Names

LEMMA BeginWriteEffect ==
  ASSUME TypeInv, NEW t \in Threads, BeginWrite(t)
  PROVE  /\ th[t].pc = "beginWrite" /\ Free(Home[t])
         /\ writer' = [writer EXCEPT ![Home[t]] = t]
         /\ UNCHANGED <<bm, gl, header, file, delta, latest, buf, dirty, busy, target, stamped, writes,
                        hlock, ending, guard, ast, crashes>>
         /\ ThTo(t, "lockWrite", th[t].op, th[t].why, th[t].page, th[t].left)
<1>1. /\ th[t].pc = "beginWrite" /\ Free(Home[t])
      /\ writer' = [writer EXCEPT ![Home[t]] = t]
      /\ UNCHANGED <<bm, gl, header, file, delta, latest, buf, dirty, busy, target, stamped, writes,
                     hlock, ending, guard, ast, crashes>>
      /\ Goto(t, "lockWrite")
  BY DEF BeginWrite, At, disk, pool
<1> QED
  BY <1>1, Moves, Names

LEMMA BeginBackupEffect ==
  ASSUME TypeInv, NEW t \in Threads, BeginBackup(t)
  PROVE  /\ t \in Masters /\ th[t].pc = "idle"
         /\ UNCHANGED <<gl, header, file, delta, latest, buf, dirty, busy, target, stamped, writes,
                        hlock, ending, guard, writer, ast, crashes>>
         /\ BmTo(Home[t], bm[Home[t]].state, bm[Home[t]].scn, bm[Home[t]].table, TRUE)
         /\ ThTo(t, "flush", "begin", "none", None, Dirty(Home[t]))
<1>1. /\ t \in Masters /\ th[t].pc = "idle" /\ Flush(t, "begin", bm[Home[t]])
      /\ UNCHANGED <<gl, header, file, delta, latest, buf, dirty, busy, target, stamped, writes,
                     hlock, ending, guard, writer, ast, crashes>>
  BY DEF BeginBackup, At, disk, pool, locks
<1>2. bm[Home[t]] \in Manager
  BY NBackupAssumption DEF TypeInv, ProcType
<1> QED
  BY <1>1, <1>2, FlushOp, Names

LEMMA EndBackupEffect ==
  ASSUME TypeInv, NEW t \in Threads, EndBackup(t)
  PROVE  /\ t \in Masters /\ th[t].pc = "idle" /\ ending = None /\ ending' = t
         /\ UNCHANGED <<gl, header, file, delta, latest, buf, dirty, busy, target, stamped, writes,
                        hlock, guard, writer, ast, crashes>>
         /\ BmTo(Home[t], bm[Home[t]].state, bm[Home[t]].scn, bm[Home[t]].table, TRUE)
         /\ ThTo(t, "enter", "end", "check", None, {})
<1> DEFINE p == Home[t]
<1>1. /\ p \in Procs /\ bm \in [Procs -> Manager] /\ bm[p] \in Manager
      /\ th \in [Threads -> Thread]
  BY NBackupAssumption DEF TypeInv, ProcType
<1>2. /\ t \in Masters /\ th[t].pc = "idle" /\ ending = None /\ ending' = t
      /\ UNCHANGED <<gl, header, file, delta, latest, buf, dirty, busy, target, stamped, writes,
                     hlock, guard, writer, ast, crashes>>
  BY DEF EndBackup, At, disk, pool
<1>3. bm' = [bm EXCEPT ![p] = [bm[p] EXCEPT !.master = TRUE]]
  BY DEF EndBackup
<1>4. BmTo(p, bm[p].state, bm[p].scn, bm[p].table, TRUE)
  BY <1>1, <1>3, ManagerOps, BmUpdate DEF TypeInv, DataType
<1>5. IsThread([Idle EXCEPT !.op = "end", !.pc = "enter", !.why = "check"], "enter", "end", "check", None, {})
  BY Names DEF IsThread, Idle, Thread
<1>6. ThTo(t, "enter", "end", "check", None, {})
  BY <1>1, <1>5, ThUpdate DEF EndBackup
<1> QED
  BY <1>2, <1>4, <1>6

LEMMA GrantEffect ==
  ASSUME TypeInv, NEW p \in Procs, Grant(p)
  PROVE  /\ gl[p].want # "none"
         /\ \A q \in Procs \ {p} : gl[q].phys = "none" \/ (gl[q].phys = "read" /\ gl[p].want = "read")
         /\ GlTo(p, gl[p].want, "none", gl[p].pending, gl[p].writer, gl[p].blocking)
         /\ UNCHANGED <<bm, th, header, file, delta, latest, buf, dirty, busy, target, stamped, writes,
                        hlock, ending, guard, writer, ast, crashes>>
<1> DEFINE want == gl[p].want
<1>1. gl \in [Procs -> StateLock] /\ gl[p] \in StateLock /\ want \in Level
  BY DEF TypeInv, ProcType, StateLock
<1>2. gl' = [gl EXCEPT ![p] = [gl[p] EXCEPT !.phys = want, !.want = "none", !.told = FALSE]]
  BY <1>1 DEF Grant
<1>3. /\ gl[p].want # "none"
      /\ \A q \in Procs \ {p} : gl[q].phys = "none" \/ (gl[q].phys = "read" /\ gl[p].want = "read")
      /\ UNCHANGED <<bm, th, header, file, delta, latest, buf, dirty, busy, target, stamped, writes,
                     hlock, ending, guard, writer, ast, crashes>>
  BY DEF Grant, disk, pool, locks
<1>4. IsLock([gl[p] EXCEPT !.phys = want, !.want = "none", !.told = FALSE],
             want, "none", gl[p].pending, gl[p].writer, gl[p].blocking)
  <2> HIDE DEF want
  <2> QED
    BY <1>1, Names DEF IsLock, StateLock
<1> HIDE DEF want
<1>5. GlTo(p, want, "none", gl[p].pending, gl[p].writer, gl[p].blocking)
  BY <1>1, <1>2, <1>4, GlUpdate
<1> QED
  BY <1>3, <1>5 DEF want

\* The AST leaves the lock and the state alone, or runs the handler.
LEMMA AstEffect ==
  ASSUME TypeInv, NEW p \in Procs, Ast(p) \/ AstTry(p) \/ AstSet(p)
  PROVE  /\ UNCHANGED <<th, header, file, delta, latest, buf, dirty, busy, target, stamped, writes,
                        hlock, ending, guard, writer, crashes>>
         /\ ast' \in [Procs -> AstThread]
         /\ \/ /\ BmTo(p, bm[p].state, bm[p].scn, bm[p].table, bm[p].master)
               /\ GlTo(p, gl[p].phys, gl[p].want, gl[p].pending, gl[p].writer, gl[p].blocking)
            \/ /\ (Ast(p) /\ bm[p].master) \/ Free(p)
               /\ \E b \in Manager :
                    IsManager(b, bm[p].state, bm[p].scn, bm[p].table, bm[p].master) /\ Handler(p, b)
<1>1. /\ gl \in [Procs -> StateLock] /\ gl[p] \in StateLock
      /\ bm \in [Procs -> Manager] /\ bm[p] \in Manager /\ ast \in [Procs -> AstThread]
  BY DEF TypeInv, ProcType
<1>2. UNCHANGED <<th, header, file, delta, latest, buf, dirty, busy, target, stamped, writes,
                  hlock, ending, guard, writer, crashes>>
  BY DEF Ast, AstTry, AstSet, disk, pool, locks
<1>3. IsManager([bm[p] EXCEPT !.stateBlocking = FALSE], bm[p].state, bm[p].scn, bm[p].table, bm[p].master)
  BY <1>1, ManagerOps DEF TypeInv, DataType
<1>4. [bm[p] EXCEPT !.stateBlocking = FALSE] \in Manager
  BY <1>3 DEF IsManager
<1>5. Dirty(p) \in SUBSET Pages
  BY DEF Dirty
<1>6. CASE Ast(p)
  <2>1. CASE bm[p].master
    <3>1. Conflict(p) /\ Handler(p, bm[p]) /\ ast' = ast
      BY <1>6, <2>1 DEF Ast
    <3>2. IsManager(bm[p], bm[p].state, bm[p].scn, bm[p].table, bm[p].master)
      BY <1>1 DEF IsManager
    <3> QED
      BY <1>1, <1>2, <1>6, <2>1, <3>1, <3>2
  <2>2. CASE ~bm[p].master
    <3> DEFINE left == IF bm[p].flush THEN {} ELSE Dirty(p)
    <3>1. /\ gl' = [gl EXCEPT ![p] = [gl[p] EXCEPT !.told = TRUE]]
          /\ bm' = [bm EXCEPT ![p] = [bm[p] EXCEPT !.flush = TRUE]]
          /\ ast' = [ast EXCEPT ![p] = [pc |-> "try", left |-> left]]
      BY <1>1, <1>6, <2>2 DEF Ast
    <3>2. BmTo(p, bm[p].state, bm[p].scn, bm[p].table, bm[p].master)
      BY <1>1, <3>1, ManagerOps, BmUpdate DEF TypeInv, DataType
    <3>3. GlTo(p, gl[p].phys, gl[p].want, gl[p].pending, gl[p].writer, gl[p].blocking)
      BY <1>1, <3>1, LockOps, GlUpdate
    <3>4. [pc |-> "try", left |-> left] \in AstThread
      BY <1>5 DEF AstThread
    <3> HIDE DEF left
    <3>5. ast' \in [Procs -> AstThread]
      BY <1>1, <3>1, <3>4
    <3> QED
      BY <1>2, <3>2, <3>3, <3>5
  <2> QED
    BY <2>1, <2>2
<1>7. CASE AstTry(p)
  <2>1. CASE Free(p)
    <3>1. Handler(p, [bm[p] EXCEPT !.stateBlocking = FALSE]) /\ ast' = [ast EXCEPT ![p] = [ast[p] EXCEPT !.pc = "none"]]
      BY <1>7, <2>1 DEF AstTry
    <3>2. [ast[p] EXCEPT !.pc = "none"] \in AstThread
      BY <1>1 DEF AstThread
    <3>3. ast' \in [Procs -> AstThread]
      BY <1>1, <3>1, <3>2
    <3> QED
      BY <1>2, <1>3, <1>4, <2>1, <3>1, <3>3
  <2>2. CASE ~Free(p)
    <3>1. ast' = [ast EXCEPT ![p] = [ast[p] EXCEPT !.pc = "set"]] /\ UNCHANGED <<bm, gl>>
      BY <1>7, <2>2 DEF AstTry
    <3>2. [ast[p] EXCEPT !.pc = "set"] \in AstThread
      BY <1>1 DEF AstThread
    <3>3. ast' \in [Procs -> AstThread]
      BY <1>1, <3>1, <3>2
    <3>4. /\ BmTo(p, bm[p].state, bm[p].scn, bm[p].table, bm[p].master)
          /\ GlTo(p, gl[p].phys, gl[p].want, gl[p].pending, gl[p].writer, gl[p].blocking)
      BY <1>1, <3>1 DEF BmTo, GlTo, IsManager, IsLock
    <3> QED
      BY <1>2, <3>3, <3>4
  <2> QED
    BY <2>1, <2>2
<1>8. CASE AstSet(p)
  <2>1. /\ ast' = [ast EXCEPT ![p] = [ast[p] EXCEPT !.pc = "none"]]
        /\ bm' = [bm EXCEPT ![p] = [bm[p] EXCEPT !.stateBlocking = TRUE]] /\ gl' = gl
    BY <1>1, <1>8 DEF AstSet
  <2>2. [ast[p] EXCEPT !.pc = "none"] \in AstThread
    BY <1>1 DEF AstThread
  <2>3. ast' \in [Procs -> AstThread]
    BY <1>1, <2>1, <2>2
  <2>4. BmTo(p, bm[p].state, bm[p].scn, bm[p].table, bm[p].master)
    BY <1>1, <2>1, ManagerOps, BmUpdate DEF TypeInv, DataType
  <2>5. GlTo(p, gl[p].phys, gl[p].want, gl[p].pending, gl[p].writer, gl[p].blocking)
    BY <1>1, <2>1 DEF GlTo, IsLock
  <2> QED
    BY <1>2, <2>3, <2>4, <2>5
<1> QED
  BY <1>6, <1>7, <1>8

LEMMA CrashEffect ==
  ASSUME TypeInv, NEW p \in Procs, Crash(p)
  PROVE  /\ latest' = [pg \in Pages |-> IF dirty[pg] = p THEN OnDisk(pg).v ELSE latest[pg]]
         /\ stamped' = stamped \ (Readers(p) \ Threads) /\ target' = target \ Dirty(p)
         /\ dirty' = [pg \in Pages |-> IF dirty[pg] = p THEN None ELSE dirty[pg]]
         /\ busy' = [pg \in Pages |-> IF busy[pg] # None /\ Home[busy[pg]] = p THEN None ELSE busy[pg]]
         /\ guard' = {t \in guard : Home[t] # p}
         /\ hlock' \in {hlock, None}
         /\ ending' = IF ending # None /\ Home[ending] = p THEN None ELSE ending
         /\ writer' = [writer EXCEPT ![p] = None] /\ ast' = [ast EXCEPT ![p] = NoAst]
         /\ crashes' = crashes + 1
         /\ BmTo(p, "unknown", 0, {}, FALSE)
         /\ GlTo(p, "none", "none", None, FALSE, FALSE)
         /\ th' = [t \in Threads |-> IF Home[t] = p THEN Idle ELSE th[t]]
         /\ th' \in [Threads -> Thread]
         /\ \A t \in Threads : IF Home[t] = p THEN IsThread(th'[t], "idle", "none", "none", None, {})
                                              ELSE th'[t] = th[t]
         /\ UNCHANGED <<header, file, delta, buf, writes>>
<1>1. gl \in [Procs -> StateLock] /\ bm \in [Procs -> Manager] /\ th \in [Threads -> Thread]
  BY DEF TypeInv, ProcType
<1>2. IsManager(NewManager, "unknown", 0, {}, FALSE) /\ IsLock(NewLock, "none", "none", None, FALSE, FALSE)
  BY Names DEF IsManager, IsLock, NewManager, NewLock, Manager, StateLock
<1>3. bm' = [bm EXCEPT ![p] = NewManager] /\ gl' = [gl EXCEPT ![p] = NewLock]
  BY DEF Crash
<1>4. BmTo(p, "unknown", 0, {}, FALSE) /\ GlTo(p, "none", "none", None, FALSE, FALSE)
  BY <1>1, <1>2, <1>3, BmUpdate, GlUpdate
<1>5. th' = [t \in Threads |-> IF Home[t] = p THEN Idle ELSE th[t]]
  BY DEF Crash
<1>6. IsThread(Idle, "idle", "none", "none", None, {}) /\ Idle \in Thread
  BY Names DEF IsThread, Idle, Thread
<1>7. /\ th' \in [Threads -> Thread]
      /\ \A t \in Threads : IF Home[t] = p THEN IsThread(th'[t], "idle", "none", "none", None, {})
                                           ELSE th'[t] = th[t]
  BY <1>1, <1>5, <1>6
<1>8. /\ latest' = [pg \in Pages |-> IF dirty[pg] = p THEN OnDisk(pg).v ELSE latest[pg]]
      /\ stamped' = stamped \ (Readers(p) \ Threads) /\ target' = target \ Dirty(p)
      /\ dirty' = [pg \in Pages |-> IF dirty[pg] = p THEN None ELSE dirty[pg]]
      /\ busy' = [pg \in Pages |-> IF busy[pg] # None /\ Home[busy[pg]] = p THEN None ELSE busy[pg]]
      /\ guard' = {t \in guard : Home[t] # p}
      /\ hlock' \in {hlock, None}
      /\ ending' = IF ending # None /\ Home[ending] = p THEN None ELSE ending
      /\ writer' = [writer EXCEPT ![p] = None] /\ ast' = [ast EXCEPT ![p] = NoAst]
      /\ crashes' = crashes + 1
      /\ UNCHANGED <<header, file, delta, buf, writes>>
  BY DEF Crash, disk
<1> QED
  BY <1>4, <1>5, <1>7, <1>8

(***************************************************************************)
(* What the invariant says of those inside a lock                          *)
(***************************************************************************)

LEMMA TypedThreads ==
  ASSUME TypeInv
  PROVE  /\ None \notin Threads /\ None \notin Pages /\ None \notin Procs
         /\ \A t \in Threads : t \notin Pages /\ Home[t] \in Procs
         /\ \A t \in Threads : th[t] \in Thread
         /\ \A p \in Procs : gl[p] \in StateLock /\ bm[p] \in Manager
         /\ \A p \in Procs : gl[p].pending \in MaybeThread /\ gl[p].writer \in BOOLEAN /\ gl[p].blocking \in BOOLEAN
         /\ \A pg \in Pages : busy[pg] \in MaybeThread /\ dirty[pg] \in Procs \union {None}
BY NBackupAssumption DEF TypeInv, ProcType, DataType, StateLock

\* A dirty page is a reader, ...
LEMMA DirtyReads ==
  ASSUME TypeInv, PageInv, NEW pg \in Pages, dirty[pg] # None
  PROVE  pg \in Readers(dirty[pg])
BY DEF PageInv, Readers

\* ... and so is a thread inside, or its page.
LEMMA InsideReads ==
  ASSUME TypeInv, PageInv, LocalInv, NEW t \in Threads, Inside(t)
  PROVE  \/ t \in Readers(Home[t])
         \/ th[t].page \in Readers(Home[t]) /\ th[t].page \in Pages /\ busy[th[t].page] = t
<1>1. CASE t \in guard
  BY <1>1 DEF Readers
<1>2. CASE HoldsPage(t) /\ Marking(t)
  <2>1. th[t].page \in Pages /\ th[t].page \in stamped /\ busy[th[t].page] = t
    BY <1>2 DEF PageInv
  <2>2. busy[th[t].page] # None
    BY <2>1, TypedThreads
  <2> QED
    BY <2>1, <2>2 DEF Readers
<1> QED
  BY <1>1, <1>2 DEF LocalInv

\* A thread that holds the local lock for writing is alone in its process.
LEMMA WriterAlone ==
  ASSUME TypeInv, PageInv, LocalInv, NEW p \in Procs, writer[p] # None
  PROVE  /\ \A pg \in Pages : dirty[pg] # p
         /\ \A t \in Threads : Home[t] = p => ~Inside(t)
<1>1. Readers(p) = {}
  BY DEF LocalInv
<1>2. ASSUME NEW pg \in Pages, dirty[pg] = p PROVE FALSE
  BY <1>1, <1>2, DirtyReads, TypedThreads
<1>3. ASSUME NEW t \in Threads, Home[t] = p, Inside(t) PROVE FALSE
  BY <1>1, <1>3, InsideReads
<1> QED
  BY <1>2, <1>3

LEMMA NoReaders ==
  ASSUME TypeInv, PageInv, LocalInv, NEW p \in Procs, Readers(p) = {}
  PROVE  /\ \A pg \in Pages : dirty[pg] # p
         /\ \A t \in Threads : Home[t] = p => ~Inside(t)
<1>1. ASSUME NEW pg \in Pages, dirty[pg] = p PROVE FALSE
  BY <1>1, DirtyReads, TypedThreads
<1>2. ASSUME NEW t \in Threads, Home[t] = p, Inside(t) PROVE FALSE
  BY <1>2, InsideReads
<1> QED
  BY <1>1, <1>2

\* No AST has found the lock in use where a thread reads.
LEMMA NotBlocked ==
  ASSUME TypeInv, PageInv, LocalInv, GlobalInv, NEW t \in Threads, Inside(t)
  PROVE  ~gl[Home[t]].blocking /\ writer[Home[t]] = None
BY TypedThreads, WriterAlone DEF GlobalInv, Exclusive, Waiting, Holding, Blocked

\* Who waits for the lock or has it for writing is inside the local lock.
LEMMA WaiterInside ==
  ASSUME TypeInv, LocalInv, GlobalInv, NEW p \in Procs, gl[p].pending # None \/ gl[p].writer
  PROVE  \/ writer[p] # None
         \/ gl[p].pending \in Threads /\ Home[gl[p].pending] = p /\ At(gl[p].pending, "waitRead")
<1>1. CASE gl[p].writer
  <2>1. PICK t \in Threads : Home[t] = p /\ At(t, "locked")
    BY <1>1 DEF GlobalInv, Exclusive, Waiting, Holding, Blocked
  <2>2. writer[p] = t
    BY <2>1 DEF LocalInv, Writing, At
  <2> QED
    BY <2>2, TypedThreads
<1>2. CASE gl[p].pending # None
  <2> DEFINE t == gl[p].pending
  <2>1. t \in Threads /\ Home[t] = p
    BY <1>2, TypedThreads DEF MaybeThread, GlobalInv, Exclusive, Waiting, Holding, Blocked
  <2>2. th[t].pc \in {"waitRead", "waitWrite"}
    BY <2>1 DEF GlobalInv, Exclusive, Waiting, Holding, Blocked
  <2>3. CASE th[t].pc = "waitWrite"
    <3>1. writer[p] = t
      BY <2>1, <2>3 DEF LocalInv, Writing
    <3> QED
      BY <2>1, <3>1, TypedThreads
  <2> QED
    BY <2>1, <2>2, <2>3 DEF At
<1> QED
  BY <1>1, <1>2

\* x, which leaves the local lock, is the last reader.
LEMMA LastReader ==
  ASSUME TypeInv, PageInv, LocalInv, GlobalInv, NEW p \in Procs, NEW x, Late(p, Readers(p) \ {x}),
         \/ x \in Threads /\ th[x].pc \notin {"lockRead", "waitRead"}
         \/ x \in Pages /\ busy[x] = None
  PROVE  /\ gl[p].pending = None /\ ~gl[p].writer /\ writer[p] = None
         /\ \A pg \in Pages : dirty[pg] = p => pg = x
         /\ \A t \in Threads : Home[t] = p /\ Inside(t) => t = x
<1>1. writer[p] = None /\ Readers(p) \subseteq {x}
  BY DEF Late
<1>2. ASSUME NEW pg \in Pages, dirty[pg] = p PROVE pg = x
  BY <1>1, <1>2, DirtyReads, TypedThreads
<1>3. ASSUME NEW t \in Threads, Home[t] = p, Inside(t) PROVE t = x
  <2>1. CASE th[t].page \in Readers(Home[t]) /\ th[t].page \in Pages /\ busy[th[t].page] = t
    BY <1>1, <1>3, <2>1, TypedThreads
  <2> QED
    BY <1>1, <1>3, <2>1, InsideReads
<1>4. ASSUME gl[p].pending # None \/ gl[p].writer PROVE FALSE
  <2>1. gl[p].pending \in Threads /\ Home[gl[p].pending] = p /\ th[gl[p].pending].pc = "waitRead"
    BY <1>1, <1>4, WaiterInside DEF At
  <2>2. gl[p].pending = x
    BY <1>3, <2>1 DEF Inside
  <2> QED
    BY <2>1, <2>2, TypedThreads
<1> QED
  BY <1>1, <1>2, <1>3, <1>4

\* A thread that may change the state is alone in all processes.
LEMMA LockedAlone ==
  ASSUME TypeInv, ThreadInv, PageInv, LocalInv, GlobalInv, StateInv, NEW t \in Threads, At(t, "locked")
  PROVE  /\ writer[Home[t]] = t /\ gl[Home[t]].phys = "write" /\ gl[Home[t]].pending = None
         /\ gl[Home[t]].want = "none"
         /\ Known(Home[t]) /\ \A q \in Procs \ {Home[t]} : ~Known(q) /\ gl[q].phys = "none"
         /\ \A pg \in Pages : dirty[pg] = None
         /\ \A u \in Threads : ~Entered(u)
<1> DEFINE p == Home[t]
<1>1. p \in Procs /\ t # None
  BY TypedThreads
<1>2. writer[p] = t
  BY <1>1 DEF LocalInv, At, Writing
<1>3. gl[p].phys = "write" /\ gl[p].writer
  BY DEF GlobalInv, Exclusive, Waiting, Holding, Blocked
<1>4. gl[p].pending = None
  <2> SUFFICES ASSUME gl[p].pending # None PROVE FALSE
    OBVIOUS
  <2>1. gl[p].pending \in Threads /\ Home[gl[p].pending] = p
    BY <1>1, TypedThreads DEF MaybeThread, GlobalInv, Exclusive, Waiting, Holding, Blocked
  <2>2. th[gl[p].pending].pc \in {"waitRead", "waitWrite"}
    BY <2>1 DEF GlobalInv, Exclusive, Waiting, Holding, Blocked
  <2>3. ~Inside(gl[p].pending)
    BY <1>1, <1>2, <2>1, WriterAlone
  <2>4. th[gl[p].pending].pc = "waitWrite"
    BY <2>2, <2>3 DEF Inside
  <2>5. writer[p] = gl[p].pending
    BY <1>1, <2>1, <2>4 DEF LocalInv, Writing
  <2> QED
    BY <1>2, <2>4, <2>5 DEF At
<1>5. gl[p].want = "none"
  BY <1>1, <1>3 DEF GlobalInv, Exclusive, Waiting, Holding, Blocked
<1>6. Known(p)
  BY <1>1, <1>3, <1>4 DEF StateInv
<1>7. \A q \in Procs \ {p} : gl[q].phys = "none"
  BY <1>1, <1>3 DEF GlobalInv, Exclusive, Waiting, Holding, Blocked
<1>8. \A q \in Procs \ {p} : ~Known(q)
  BY <1>7 DEF StateInv
<1>9. ASSUME NEW pg \in Pages, dirty[pg] # None PROVE FALSE
  <2>1. dirty[pg] \in Procs /\ Known(dirty[pg])
    BY <1>9, TypedThreads DEF StateInv
  <2>2. dirty[pg] = p
    BY <1>8, <2>1
  <2> QED
    BY <1>1, <1>2, <2>2, WriterAlone
<1>10. ASSUME NEW u \in Threads, Entered(u) PROVE FALSE
  <2>1. Home[u] \in Procs /\ Known(Home[u])
    BY <1>10, TypedThreads DEF StateInv
  <2>2. Home[u] = p
    BY <1>8, <2>1
  <2> QED
    BY <1>1, <1>2, <1>10, <2>2, WriterAlone DEF Entered
<1> QED
  BY <1>2, <1>3, <1>4, <1>5, <1>6, <1>7, <1>8, <1>9, <1>10

LEMMA Held ==
  ASSUME TypeInv, PageInv, NEW t \in Threads, HoldsPage(t)
  PROVE  /\ th[t].page \in Pages /\ busy[th[t].page] = t
         /\ dirty[th[t].page] = None \/ dirty[th[t].page] = Home[t]
BY TypedThreads DEF PageInv

\* The one who changes the state keeps the lock, unless another process waits
\* to change it next.
LEMMA UnlockStep ==
  ASSUME IInv, NEW t \in Threads, At(t, "locked"), NEW b \in Manager, UnlockWrite(t, b), b.state \in BackupState
  PROVE  /\ \E phys \in Level :
              /\ GlTo(Home[t], phys, "none", None, FALSE, FALSE)
              /\ bm'[Home[t]].state = IF phys = "none" THEN "unknown" ELSE b.state
         /\ BmTo(Home[t], bm'[Home[t]].state, b.scn, b.table, b.master)
<1>1. /\ gl[Home[t]].pending = None /\ gl[Home[t]].want = "none"
  BY LockedAlone DEF IInv
<1>2. PICK phys \in Level :
        /\ GlTo(Home[t], phys, gl[Home[t]].want, gl[Home[t]].pending, FALSE, FALSE)
        /\ BmTo(Home[t], IF phys = "none" THEN "unknown" ELSE b.state, b.scn, b.table, b.master)
  BY UnlockWriteOp DEF IInv
<1>3. bm'[Home[t]].state = IF phys = "none" THEN "unknown" ELSE b.state
  BY <1>2 DEF BmTo, IsManager
<1> QED
  BY <1>1, <1>2, <1>3

\* What the blocking AST does to a process: nothing but to find the lock in
\* use; give it up when the local lock is free; or keep it for reading.
LEMMA AstStep ==
  ASSUME MastersQuiet, IInv, NEW p \in Procs, Ast(p) \/ AstTry(p) \/ AstSet(p)
  PROVE  \/ /\ BmTo(p, bm[p].state, bm[p].scn, bm[p].table, bm[p].master)
            /\ \E blocking \in BOOLEAN :
                 /\ GlTo(p, gl[p].phys, gl[p].want, gl[p].pending, gl[p].writer, blocking)
                 /\ blocking => gl[p].blocking \/ writer[p] # None
         \/ /\ Readers(p) = {} /\ gl[p].pending = None /\ ~gl[p].writer
            /\ BmTo(p, "unknown", bm[p].scn, bm[p].table, bm[p].master)
            /\ GlTo(p, "none", gl[p].want, None, FALSE, FALSE)
         \/ /\ gl[p].phys = "write" /\ gl[p].pending = None /\ ~gl[p].writer
            /\ BmTo(p, bm[p].state, bm[p].scn, bm[p].table, bm[p].master)
            /\ \E blocking \in BOOLEAN :
                 /\ GlTo(p, "read", gl[p].want, None, FALSE, blocking)
                 /\ blocking => gl[p].blocking
<1>1. /\ gl[p].blocking \in BOOLEAN /\ gl[p].writer \in BOOLEAN
      /\ gl[p].phys \in Level /\ bm[p] \in Manager
  BY TypedThreads DEF IInv, StateLock
<1>2. CASE /\ BmTo(p, bm[p].state, bm[p].scn, bm[p].table, bm[p].master)
           /\ GlTo(p, gl[p].phys, gl[p].want, gl[p].pending, gl[p].writer, gl[p].blocking)
  BY <1>1, <1>2
<1>3. ASSUME (Ast(p) /\ bm[p].master) \/ Free(p), NEW b \in Manager,
             IsManager(b, bm[p].state, bm[p].scn, bm[p].table, bm[p].master), Handler(p, b)
      PROVE  \/ /\ BmTo(p, bm[p].state, bm[p].scn, bm[p].table, bm[p].master)
                /\ \E blocking \in BOOLEAN :
                     /\ GlTo(p, gl[p].phys, gl[p].want, gl[p].pending, gl[p].writer, blocking)
                     /\ blocking => gl[p].blocking \/ writer[p] # None
             \/ /\ Readers(p) = {} /\ gl[p].pending = None /\ ~gl[p].writer
                /\ BmTo(p, "unknown", bm[p].scn, bm[p].table, bm[p].master)
                /\ GlTo(p, "none", gl[p].want, None, FALSE, FALSE)
             \/ /\ gl[p].phys = "write" /\ gl[p].pending = None /\ ~gl[p].writer
                /\ BmTo(p, bm[p].state, bm[p].scn, bm[p].table, bm[p].master)
                /\ \E blocking \in BOOLEAN :
                     /\ GlTo(p, "read", gl[p].want, None, FALSE, blocking)
                     /\ blocking => gl[p].blocking
  <2>1. b.state = bm[p].state /\ b.scn = bm[p].scn /\ b.table = bm[p].table /\ b.master = bm[p].master
    BY <1>3 DEF IsManager
  <2>2. WantedFrom(p, "write") => Readers(p) = {}
    BY <1>3 DEF MastersQuiet, Free
  <2>3. CASE gl[p].pending = None /\ ~gl[p].writer
    <3> DEFINE phys == Downgraded(p)
               blocking == gl[p].blocking /\ phys # "none"
    <3>1. /\ GlTo(p, phys, gl[p].want, None, FALSE, blocking)
          /\ BmTo(p, IF phys = "none" THEN "unknown" ELSE bm[p].state, bm[p].scn, bm[p].table, bm[p].master)
      <4>1. gl[p].writer = FALSE
        BY <1>1, <2>3
      <4> QED
        BY <1>3, <2>1, <2>3, <4>1, HandlerOp DEF IInv
    <3>2. phys = gl[p].phys \/ phys = "none" \/ (phys = "read" /\ gl[p].phys = "write")
      BY DowngradedOp DEF IInv
    <3>3. phys = "none" => Readers(p) = {}
      BY <1>3, <2>2, DowngradedOp DEF IInv, Conflict, Free, Ast
    <3>4. blocking \in BOOLEAN /\ (blocking => gl[p].blocking) /\ (phys = "none" => blocking = FALSE)
      BY <1>1
    <3> HIDE DEF phys, blocking
    <3>5. CASE phys = "none"
      BY <2>3, <3>1, <3>3, <3>4, <3>5
    <3>6. CASE phys = "read" /\ gl[p].phys = "write"
      BY <2>3, <3>1, <3>4, <3>6
    <3>7. CASE phys = gl[p].phys /\ phys # "none"
      <4>1. gl[p].writer = FALSE
        BY <1>1, <2>3
      <4> QED
        BY <2>3, <3>1, <3>4, <3>7, <4>1
    <3> QED
      BY <3>2, <3>5, <3>6, <3>7
  <2>4. CASE ~(gl[p].pending = None /\ ~gl[p].writer)
    <3>1. /\ GlTo(p, gl[p].phys, gl[p].want, gl[p].pending, gl[p].writer, TRUE)
          /\ BmTo(p, bm[p].state, bm[p].scn, bm[p].table, bm[p].master)
      BY <1>3, <2>1, <2>4, HandlerOp DEF IInv
    <3>2. writer[p] # None
      <4> SUFFICES ASSUME writer[p] = None PROVE FALSE
        OBVIOUS
      <4> DEFINE t == gl[p].pending
      <4>1. t \in Threads /\ Home[t] = p /\ th[t].pc = "waitRead"
        BY <2>4, WaiterInside DEF IInv, At
      <4>2. Readers(p) # {}
        BY <4>1, InsideReads DEF IInv, Inside
      <4>3. Conflict(p) /\ ~WantedFrom(p, "write")
        BY <1>3, <2>2, <4>2 DEF Free, Ast
      <4>4. gl[p].phys = "write"
        BY <4>3 DEF Conflict
      <4>5. gl[p].want = "read" \/ (gl[p].want = "none" /\ gl[p].phys = "read")
        BY <4>1 DEF IInv, GlobalInv, Exclusive, Waiting, Holding, Blocked, At
      <4> QED
        BY <4>4, <4>5 DEF IInv, GlobalInv, Exclusive, Waiting, Holding, Blocked
    <3> QED
      BY <3>1, <3>2
  <2> QED
    BY <2>3, <2>4
<1> QED
  BY <1>2, <1>3, AstEffect DEF IInv

LEMMA ReadsUnblocked ==
  ASSUME IInv, NEW t \in Threads, LockRead(t) \/ GrantedRead(t)
  PROVE  ~gl[Home[t]].blocking
BY NotBlocked DEF IInv, LockRead, GrantedRead, At, Inside

\* The write lock is given back: p keeps it, or a read lock, and the state it
\* has written; or it lets the next process in.
LockTurned(p) ==
  \E phys \in Level :
    /\ GlTo(p, phys, "none", None, FALSE, FALSE)
    /\ bm'[p].state = IF phys = "none" THEN "unknown" ELSE header'.state

\* The changes of the state, by a thread that knows it.
LEMMA StallStep ==
  ASSUME IInv, NEW t \in Threads, Stall(t)
  PROVE  /\ At(t, "locked") /\ th[t].op = "begin"
         /\ writer' = [writer EXCEPT ![Home[t]] = None]
         /\ UNCHANGED <<file, latest, buf, dirty, busy, target, stamped, writes, ending, guard, ast, crashes>>
         /\ ThTo(t, "idle", "none", "none", None, {})
         /\ hlock' = None
         /\ LockTurned(Home[t])
         /\ IF header.state = "normal"
            THEN /\ header' = [state |-> "stalled", scn |-> header.scn + 1] /\ delta' = NoTable
                 /\ BmTo(Home[t], bm'[Home[t]].state, header.scn + 1, bm[Home[t]].table, FALSE)
            ELSE /\ UNCHANGED <<header, delta>>
                 /\ BmTo(Home[t], bm'[Home[t]].state, header.scn, bm[Home[t]].table, FALSE)
<1> DEFINE p == Home[t]
<1>1. /\ th[t].pc = "locked" /\ th[t].op = "begin"
      /\ writer' = [writer EXCEPT ![p] = None]
      /\ UNCHANGED <<file, latest, buf, dirty, busy, target, stamped, writes, ending, guard, ast, crashes>>
      /\ ThTo(t, "idle", "none", "none", None, {})
      /\ hlock' = None
  BY StallEffect DEF IInv
<1>2. PICK b \in Manager :
        /\ UnlockWrite(t, b)
        /\ IF bm[p].state = "normal"
           THEN /\ header' = [state |-> "stalled", scn |-> bm[p].scn + 1] /\ delta' = NoTable
                /\ IsManager(b, "stalled", bm[p].scn + 1, bm[p].table, FALSE)
           ELSE /\ UNCHANGED <<header, delta>>
                /\ IsManager(b, bm[p].state, bm[p].scn, bm[p].table, FALSE)
  BY StallEffect DEF IInv
<1>3. At(t, "locked")
  BY <1>1 DEF At
<1>4. bm[p].state = header.state /\ bm[p].scn = header.scn
  BY <1>3, LockedAlone, TypedThreads DEF IInv, StateInv
<1>5. /\ \E phys \in Level :
             /\ GlTo(p, phys, "none", None, FALSE, FALSE)
             /\ bm'[p].state = IF phys = "none" THEN "unknown" ELSE b.state
      /\ BmTo(p, bm'[p].state, b.scn, b.table, b.master)
  BY <1>2, <1>3, <1>4, UnlockStep DEF IsManager, IInv, TypeInv, DataType, BackupState
<1>6. b.state = header'.state
  BY <1>2, <1>4 DEF IsManager
<1> QED
  BY <1>1, <1>2, <1>3, <1>4, <1>5, <1>6 DEF IsManager, LockTurned

LEMMA StartMergeStep ==
  ASSUME IInv, NEW t \in Threads, StartMerge(t)
  PROVE  /\ At(t, "locked") /\ th[t].op = "end"
         /\ writer' = [writer EXCEPT ![Home[t]] = None]
         /\ UNCHANGED <<file, delta, latest, buf, dirty, busy, target, stamped, writes, guard, ast, crashes>>
         /\ hlock' = None
         /\ LockTurned(Home[t])
         /\ IF header.state # "normal"
            THEN /\ header' = [state |-> "merge", scn |-> header.scn + 1]
                 /\ UNCHANGED ending
                 /\ ThTo(t, "enter", "merge", "table", th[t].page, th[t].left)
                 /\ BmTo(Home[t], bm'[Home[t]].state, header.scn + 1, bm[Home[t]].table, bm[Home[t]].master)
            ELSE /\ UNCHANGED header
                 /\ ending' = None
                 /\ ThTo(t, "idle", "none", "none", None, {})
                 /\ BmTo(Home[t], bm'[Home[t]].state, header.scn, bm[Home[t]].table, FALSE)
<1> DEFINE p == Home[t]
<1>1. /\ th[t].pc = "locked" /\ th[t].op = "end"
      /\ writer' = [writer EXCEPT ![p] = None]
      /\ UNCHANGED <<file, delta, latest, buf, dirty, busy, target, stamped, writes, guard, ast, crashes>>
      /\ hlock' = None
  BY StartMergeEffect DEF IInv
<1>2. PICK b \in Manager :
        /\ UnlockWrite(t, b)
        /\ IF bm[p].state \in {"stalled", "merge"}
           THEN /\ header' = [state |-> "merge", scn |-> bm[p].scn + 1]
                /\ UNCHANGED ending
                /\ ThTo(t, "enter", "merge", "table", th[t].page, th[t].left)
                /\ IsManager(b, "merge", bm[p].scn + 1, bm[p].table, bm[p].master)
           ELSE /\ UNCHANGED header
                /\ ending' = None
                /\ ThTo(t, "idle", "none", "none", None, {})
                /\ IsManager(b, bm[p].state, bm[p].scn, bm[p].table, FALSE)
  BY StartMergeEffect DEF IInv
<1>3. At(t, "locked")
  BY <1>1 DEF At
<1>4. bm[p].state = header.state /\ bm[p].scn = header.scn
  BY <1>3, LockedAlone, TypedThreads DEF IInv, StateInv
<1>5. header.state \in {"stalled", "merge"} <=> header.state # "normal"
  BY DEF IInv, TypeInv, DataType, BackupState
<1>6. /\ \E phys \in Level :
             /\ GlTo(p, phys, "none", None, FALSE, FALSE)
             /\ bm'[p].state = IF phys = "none" THEN "unknown" ELSE b.state
      /\ BmTo(p, bm'[p].state, b.scn, b.table, b.master)
  BY <1>2, <1>3, <1>4, UnlockStep DEF IsManager, IInv, TypeInv, DataType, BackupState
<1>7. b.state = header'.state
  BY <1>2, <1>4 DEF IsManager
<1> QED
  BY <1>1, <1>2, <1>3, <1>4, <1>5, <1>6, <1>7 DEF IsManager, LockTurned

LEMMA FinishStep ==
  ASSUME IInv, NEW t \in Threads, Finish(t)
  PROVE  /\ At(t, "locked") /\ th[t].op = "finish"
         /\ writer' = [writer EXCEPT ![Home[t]] = None] /\ hlock' = None /\ ending' = None
         /\ UNCHANGED <<file, latest, buf, dirty, busy, target, stamped, writes, guard, ast, crashes>>
         /\ header' = [state |-> "normal", scn |-> header.scn + 1] /\ delta' = NoTable
         /\ ThTo(t, "idle", "none", "none", None, {})
         /\ LockTurned(Home[t])
         /\ BmTo(Home[t], bm'[Home[t]].state, header.scn + 1, {}, FALSE)
<1> DEFINE p == Home[t]
<1>1. /\ th[t].pc = "locked" /\ th[t].op = "finish"
      /\ writer' = [writer EXCEPT ![p] = None] /\ hlock' = None /\ ending' = None
      /\ UNCHANGED <<file, latest, buf, dirty, busy, target, stamped, writes, guard, ast, crashes>>
      /\ header' = [state |-> "normal", scn |-> bm[p].scn + 1] /\ delta' = NoTable
      /\ ThTo(t, "idle", "none", "none", None, {})
  BY FinishEffect DEF IInv
<1>2. PICK b \in Manager : UnlockWrite(t, b) /\ IsManager(b, "normal", bm[p].scn + 1, {}, FALSE)
  BY FinishEffect DEF IInv
<1>3. At(t, "locked")
  BY <1>1 DEF At
<1>4. bm[p].scn = header.scn
  BY <1>3, LockedAlone, TypedThreads DEF IInv, StateInv
<1>5. /\ \E phys \in Level :
             /\ GlTo(p, phys, "none", None, FALSE, FALSE)
             /\ bm'[p].state = IF phys = "none" THEN "unknown" ELSE b.state
      /\ BmTo(p, bm'[p].state, b.scn, b.table, b.master)
  BY <1>2, <1>3, <1>4, UnlockStep DEF IsManager, IInv, TypeInv, DataType, BackupState
<1>6. b.state = header'.state
  BY <1>1, <1>2 DEF IsManager
<1> QED
  BY <1>1, <1>2, <1>3, <1>4, <1>5, <1>6 DEF IsManager, LockTurned

LEMMA DataTypeStep ==
  ASSUME MastersQuiet, IInv, [Next]_vars
  PROVE  DataType'
<1>1. ASSUME NEW t \in Threads, Enter(t) PROVE DataType'
  <2>1. th[t].why = "mark" => th[t].page \in Pages
    BY <1>1, EnterEffect, Held DEF IInv, HoldsPage, Entering
  <2> QED
    BY <1>1, <2>1, EnterEffect DEF IInv, TypeInv, DataType
<1>2. ASSUME NEW t \in Threads, LockRead(t) PROVE DataType'
  BY <1>2, ReadsUnblocked, LockReadEffect, Names, TypedThreads DEF IInv, TypeInv, DataType
<1>3. ASSUME NEW t \in Threads, GrantedRead(t) PROVE DataType'
  BY <1>3, ReadsUnblocked, GrantedReadEffect, Names, TypedThreads DEF IInv, TypeInv, DataType
<1>4. ASSUME NEW t \in Threads, Read(t) PROVE DataType'
  <2>1. th[t].page \in Pages
    BY <1>4, ReadEffect, Held DEF IInv, HoldsPage
  <2>2. Stored(Home[t], th[t].page) \in PageImage
    BY <2>1 DEF Stored, Blank, PageImage, IInv, TypeInv, DataType
  <2>5. /\ buf' = [buf EXCEPT ![th[t].page] = Stored(Home[t], th[t].page)]
        /\ UNCHANGED busy \/ busy' = [busy EXCEPT ![th[t].page] = None]
    BY <1>4, ReadEffect DEF IInv
  <2>6. None \in MaybeThread
    BY Names
  <2>3. buf' \in [Pages -> PageImage] /\ busy' \in [Pages -> MaybeThread]
    BY <2>1, <2>2, <2>5, <2>6 DEF IInv, TypeInv, DataType
  <2>4. UNCHANGED <<header, file, delta, latest, dirty, target, stamped, writes>>
    BY <1>4, ReadEffect DEF IInv
  <2> QED
    BY <2>3, <2>4 DEF IInv, TypeInv, DataType
<1>5. ASSUME NEW t \in Threads, Mark(t) PROVE DataType'
  <2> DEFINE p == Home[t]
             q == th[t].page
  <2>0. At(t, "mark")
    BY <1>5 DEF Mark
  <2>1. q \in Pages /\ p \in Procs /\ bm[p].scn \in Nat
    BY <2>0, Held, TypedThreads DEF IInv, HoldsPage, At, Manager
  <2>2. delta' = IF bm[p].state = "stalled" /\ q \notin bm[p].table \union DOMAIN delta
                 THEN [r \in DOMAIN delta \union {q} |-> IF r = q THEN Blank ELSE delta[r]] ELSE delta
    BY <1>5 DEF Mark
  <2>3. DOMAIN delta' \subseteq Pages /\ delta' \in [DOMAIN delta' -> PageImage]
    <3>1. Blank \in PageImage
      BY DEF Blank, PageImage
    <3> HIDE DEF p, q
    <3>2. CASE bm[p].state = "stalled" /\ q \notin bm[p].table \union DOMAIN delta
      BY <2>1, <2>2, <3>1, <3>2 DEF IInv, TypeInv, DataType
    <3>3. CASE ~(bm[p].state = "stalled" /\ q \notin bm[p].table \union DOMAIN delta)
      BY <2>2, <3>3 DEF IInv, TypeInv, DataType
    <3> QED
      BY <3>2, <3>3
  <2>4. PICK change \in {0, 1} :
          /\ writes' = writes + change
          /\ latest' = [latest EXCEPT ![q] = @ + change]
          /\ buf' = [buf EXCEPT ![q] = [v |-> @.v + change, scn |-> bm[p].scn]]
    BY <1>5, <2>3, MarkEffect DEF IInv
  <2>5. [v |-> buf[q].v + change, scn |-> bm[p].scn] \in PageImage
    BY <2>1 DEF IInv, TypeInv, DataType, PageImage
  <2>6. latest' \in [Pages -> Nat] /\ writes' \in Nat /\ buf' \in [Pages -> PageImage]
    BY <2>1, <2>4, <2>5 DEF IInv, TypeInv, DataType
  <2>7. /\ dirty' = [dirty EXCEPT ![q] = p] /\ busy' = [busy EXCEPT ![q] = None]
        /\ target' \subseteq target \union {q} /\ UNCHANGED <<header, file, stamped>>
    BY <1>5, <2>3, MarkEffect DEF IInv
  <2>8. dirty' \in [Pages -> Procs \union {None}] /\ busy' \in [Pages -> MaybeThread] /\ target' \subseteq Pages
    BY <2>1, <2>7, Names DEF IInv, TypeInv, DataType
  <2> QED
    BY <2>3, <2>6, <2>7, <2>8 DEF IInv, TypeInv, DataType
<1>6. ASSUME NEW t \in Threads, FetchHeader(t) PROVE DataType'
  BY <1>6, FetchHeaderEffect, Names, TypedThreads DEF IInv, TypeInv, DataType
<1>7. ASSUME NEW t \in Threads, ReadHeader(t) PROVE DataType'
  BY <1>7, ReadHeaderEffect, Names, TypedThreads DEF IInv, TypeInv, DataType
<1>8. ASSUME NEW t \in Threads, BeginWrite(t) PROVE DataType'
  BY <1>8, BeginWriteEffect, Names, TypedThreads DEF IInv, TypeInv, DataType
<1>9. ASSUME NEW t \in Threads, LockWrite(t) PROVE DataType'
  BY <1>9, LockWriteEffect, Names, TypedThreads DEF IInv, TypeInv, DataType
<1>10. ASSUME NEW t \in Threads, GrantedWrite(t) PROVE DataType'
  BY <1>10, GrantedWriteEffect, Names, TypedThreads DEF IInv, TypeInv, DataType
<1>11. ASSUME NEW t \in Threads, Stall(t) PROVE DataType'
  <2>3. UNCHANGED header \/ header' = [state |-> "stalled", scn |-> header.scn + 1]
    BY <1>11, StallStep
  <2>4. "stalled" \in BackupState
    BY Names
  <2>1. header' \in [state : BackupState, scn : Nat]
    BY <2>3, <2>4 DEF IInv, TypeInv, DataType
  <2>2. DOMAIN delta' \subseteq Pages /\ delta' \in [DOMAIN delta' -> PageImage]
    <3>1. UNCHANGED delta \/ delta' = NoTable
      BY <1>11, StallStep
    <3> QED
      BY <3>1 DEF IInv, TypeInv, DataType, NoTable
  <2> QED
    BY <1>11, <2>1, <2>2, StallStep DEF IInv, TypeInv, DataType
<1>12. ASSUME NEW t \in Threads, Check(t) PROVE DataType'
  BY <1>12, CheckEffect, Names, TypedThreads DEF IInv, TypeInv, DataType
<1>13. ASSUME NEW t \in Threads, StartMerge(t) PROVE DataType'
  <2>3. UNCHANGED header \/ header' = [state |-> "merge", scn |-> header.scn + 1]
    BY <1>13, StartMergeStep
  <2>4. "merge" \in BackupState
    BY Names
  <2>1. header' \in [state : BackupState, scn : Nat]
    BY <2>3, <2>4 DEF IInv, TypeInv, DataType
  <2> QED
    BY <1>13, <2>1, StartMergeStep DEF IInv, TypeInv, DataType
<1>14. ASSUME NEW t \in Threads, Table(t) PROVE DataType'
  BY <1>14, TableEffect, Names, TypedThreads DEF IInv, TypeInv, DataType
<1>15. ASSUME NEW t \in Threads, MergeFlush(t) PROVE DataType'
  BY <1>15, MergeFlushEffect, Names, TypedThreads DEF IInv, TypeInv, DataType
<1>16. ASSUME NEW t \in Threads, Merged(t) PROVE DataType'
  BY <1>16, MergedEffect, Names, TypedThreads DEF IInv, TypeInv, DataType
<1>17. ASSUME NEW t \in Threads, Finish(t) PROVE DataType'
  <2>3. UNCHANGED header \/ header' = [state |-> "normal", scn |-> header.scn + 1]
    BY <1>17, FinishStep
  <2>4. "normal" \in BackupState
    BY Names
  <2>1. header' \in [state : BackupState, scn : Nat]
    BY <2>3, <2>4 DEF IInv, TypeInv, DataType
  <2>2. DOMAIN delta' \subseteq Pages /\ delta' \in [DOMAIN delta' -> PageImage]
    BY <1>17, FinishStep DEF IInv, TypeInv, DataType, NoTable
  <2> QED
    BY <1>17, <2>1, <2>2, FinishStep DEF IInv, TypeInv, DataType
<1>18. ASSUME NEW t \in Threads, BeginBackup(t) PROVE DataType'
  BY <1>18, BeginBackupEffect, Names, TypedThreads DEF IInv, TypeInv, DataType
<1>19. ASSUME NEW t \in Threads, EndBackup(t) PROVE DataType'
  BY <1>19, EndBackupEffect, Names, TypedThreads DEF IInv, TypeInv, DataType
<1>20. ASSUME NEW t \in Threads, NEW pg \in Pages, Merge(t, pg) PROVE DataType'
  <2>2. UNCHANGED busy \/ busy' = [busy EXCEPT ![pg] = t]
    BY <1>20, MergeEffect DEF IInv
  <2>3. Threads \subseteq MaybeThread
    BY Names
  <2>1. busy' \in [Pages -> MaybeThread]
    BY <2>2, <2>3 DEF IInv, TypeInv, DataType
  <2> QED
    BY <1>20, <2>1, MergeEffect DEF IInv, TypeInv, DataType
<1>21. ASSUME NEW t \in Threads, NEW pg \in Pages, Fetch(t, pg) PROVE DataType'
  BY <1>21, FetchEffect, Names, TypedThreads DEF IInv, TypeInv, DataType
<1>22. ASSUME NEW pg \in Pages, Write(pg) PROVE DataType'
  <2> USE <1>22, WriteEffect
  <2>1. dirty' \in [Pages -> Procs \union {None}] /\ target' \subseteq Pages /\ stamped' \subseteq Pages
    BY DEF IInv, TypeInv, DataType
  <2>2. file' \in [Pages -> PageImage]
    BY DEF IInv, TypeInv, DataType
  <2>3. DOMAIN delta' \subseteq Pages /\ delta' \in [DOMAIN delta' -> PageImage]
    BY DEF IInv, TypeInv, DataType
  <2>4. UNCHANGED <<header, latest, buf, busy, writes>>
    BY DEF IInv
  <2> QED
    BY <2>1, <2>2, <2>3, <2>4 DEF IInv, TypeInv, DataType
<1>23. ASSUME NEW p \in Procs, Grant(p) PROVE DataType'
  BY <1>23, GrantEffect, Names, TypedThreads DEF IInv, TypeInv, DataType
<1>24. ASSUME NEW p \in Procs, Ast(p) PROVE DataType'
  BY <1>24, AstEffect, AstStep, Names, TypedThreads DEF IInv, TypeInv, DataType
<1>25. ASSUME NEW p \in Procs, AstTry(p) PROVE DataType'
  BY <1>25, AstEffect, AstStep, Names, TypedThreads DEF IInv, TypeInv, DataType
<1>26. ASSUME NEW p \in Procs, AstSet(p) PROVE DataType'
  BY <1>26, AstEffect, AstStep, Names, TypedThreads DEF IInv, TypeInv, DataType
<1>27. ASSUME NEW p \in Procs, Crash(p) PROVE DataType'
  <2>1. \A pg \in Pages : OnDisk(pg).v \in Nat
    BY DEF OnDisk, IInv, TypeInv, DataType, PageImage
  <2>2. /\ latest' = [pg \in Pages |-> IF dirty[pg] = p THEN OnDisk(pg).v ELSE latest[pg]]
        /\ dirty' = [pg \in Pages |-> IF dirty[pg] = p THEN None ELSE dirty[pg]]
        /\ busy' = [pg \in Pages |-> IF busy[pg] # None /\ Home[busy[pg]] = p THEN None ELSE busy[pg]]
        /\ target' \subseteq target /\ stamped' \subseteq stamped
        /\ UNCHANGED <<header, file, delta, buf, writes>>
    BY <1>27, CrashEffect DEF IInv
  <2>3. None \in MaybeThread
    BY Names
  <2>4. latest' \in [Pages -> Nat]
    BY <2>1, <2>2 DEF IInv, TypeInv, DataType
  <2>5. dirty' \in [Pages -> Procs \union {None}] /\ busy' \in [Pages -> MaybeThread]
    BY <2>2, <2>3 DEF IInv, TypeInv, DataType
  <2> QED
    BY <2>2, <2>4, <2>5 DEF IInv, TypeInv, DataType
<1>28. CASE UNCHANGED vars
  BY <1>28 DEF vars, disk, pool, locks, IInv, TypeInv, DataType
<1> QED
  BY <1>1, <1>2, <1>3, <1>4, <1>5, <1>6, <1>7, <1>8, <1>9, <1>10, <1>11, <1>12, <1>13, <1>14, <1>15, <1>16, <1>17, <1>18, <1>19, <1>20, <1>21, <1>22, <1>23, <1>24, <1>25, <1>26, <1>27, <1>28 DEF Next, ThreadStep

LEMMA ProcTypeStep ==
  ASSUME MastersQuiet, IInv, [Next]_vars
  PROVE  ProcType'
<1>1. ASSUME NEW t \in Threads, Enter(t) PROVE ProcType'
  BY <1>1, EnterEffect, Names DEF IInv, TypeInv, ProcType, BmTo, GlTo, ThTo
<1>2. ASSUME NEW t \in Threads, LockRead(t) PROVE ProcType'
  BY <1>2, ReadsUnblocked, LockReadEffect, Names DEF IInv, TypeInv, ProcType, BmTo, GlTo, ThTo
<1>3. ASSUME NEW t \in Threads, GrantedRead(t) PROVE ProcType'
  BY <1>3, ReadsUnblocked, GrantedReadEffect, Names DEF IInv, TypeInv, ProcType, BmTo, GlTo, ThTo
<1>4. ASSUME NEW t \in Threads, Read(t) PROVE ProcType'
  BY <1>4, ReadEffect, Names DEF IInv, TypeInv, ProcType, BmTo, GlTo, ThTo
<1>5. ASSUME NEW t \in Threads, Mark(t) PROVE ProcType'
  <2>1. DOMAIN delta' \subseteq Pages
    BY <1>5, DataTypeStep DEF DataType, Next, ThreadStep
  <2> QED
    BY <1>5, <2>1, MarkEffect DEF IInv, TypeInv, ProcType, BmTo, ThTo
<1>6. ASSUME NEW t \in Threads, FetchHeader(t) PROVE ProcType'
  BY <1>6, FetchHeaderEffect, Names DEF IInv, TypeInv, ProcType, BmTo, GlTo, ThTo
<1>7. ASSUME NEW t \in Threads, ReadHeader(t) PROVE ProcType'
  BY <1>7, ReadHeaderEffect, Names DEF IInv, TypeInv, ProcType, BmTo, GlTo, ThTo
<1>8. ASSUME NEW t \in Threads, BeginWrite(t) PROVE ProcType'
  BY <1>8, BeginWriteEffect, Names DEF IInv, TypeInv, ProcType, BmTo, GlTo, ThTo
<1>9. ASSUME NEW t \in Threads, LockWrite(t) PROVE ProcType'
  BY <1>9, LockWriteEffect, Names DEF IInv, TypeInv, ProcType, BmTo, GlTo, ThTo
<1>10. ASSUME NEW t \in Threads, GrantedWrite(t) PROVE ProcType'
  BY <1>10, GrantedWriteEffect, Names DEF IInv, TypeInv, ProcType, BmTo, GlTo, ThTo
<1>11. ASSUME NEW t \in Threads, Stall(t) PROVE ProcType'
  BY <1>11, StallStep, Names DEF IInv, TypeInv, ProcType, LockTurned, BmTo, GlTo, ThTo
<1>12. ASSUME NEW t \in Threads, Check(t) PROVE ProcType'
  BY <1>12, CheckEffect, Names DEF IInv, TypeInv, ProcType, BmTo, GlTo, ThTo
<1>13. ASSUME NEW t \in Threads, StartMerge(t) PROVE ProcType'
  BY <1>13, StartMergeStep, Names DEF IInv, TypeInv, ProcType, LockTurned, BmTo, GlTo, ThTo
<1>14. ASSUME NEW t \in Threads, Table(t) PROVE ProcType'
  BY <1>14, TableEffect, Names DEF IInv, TypeInv, ProcType, BmTo, GlTo, ThTo
<1>15. ASSUME NEW t \in Threads, MergeFlush(t) PROVE ProcType'
  BY <1>15, MergeFlushEffect, Names DEF IInv, TypeInv, ProcType, BmTo, GlTo, ThTo
<1>16. ASSUME NEW t \in Threads, Merged(t) PROVE ProcType'
  BY <1>16, MergedEffect, Names DEF IInv, TypeInv, ProcType, BmTo, GlTo, ThTo
<1>17. ASSUME NEW t \in Threads, Finish(t) PROVE ProcType'
  BY <1>17, FinishStep, Names DEF IInv, TypeInv, ProcType, LockTurned, BmTo, GlTo, ThTo
<1>18. ASSUME NEW t \in Threads, BeginBackup(t) PROVE ProcType'
  BY <1>18, BeginBackupEffect, Names DEF IInv, TypeInv, ProcType, BmTo, GlTo, ThTo
<1>19. ASSUME NEW t \in Threads, EndBackup(t) PROVE ProcType'
  BY <1>19, EndBackupEffect, Names DEF IInv, TypeInv, ProcType, BmTo, GlTo, ThTo
<1>20. ASSUME NEW t \in Threads, NEW pg \in Pages, Merge(t, pg) PROVE ProcType'
  BY <1>20, MergeEffect, Names DEF IInv, TypeInv, ProcType, BmTo, GlTo, ThTo
<1>21. ASSUME NEW t \in Threads, NEW pg \in Pages, Fetch(t, pg) PROVE ProcType'
  BY <1>21, FetchEffect, Names DEF IInv, TypeInv, ProcType, BmTo, GlTo, ThTo
<1>22. ASSUME NEW pg \in Pages, Write(pg) PROVE ProcType'
  <2> DEFINE p == dirty[pg]
  <2>1. /\ p \in Procs /\ ast' = [ast EXCEPT ![p].left = @ \ {pg}]
        /\ UNCHANGED <<hlock, ending, guard, writer, crashes>>
        /\ bm' \in [Procs -> Manager] /\ gl' \in [Procs -> StateLock] /\ th' \in [Threads -> Thread]
    BY <1>22, WriteEffect DEF IInv, BmTo, GlTo
  <2> HIDE DEF p
  <2>2. ast[p] \in AstThread
    BY <2>1 DEF IInv, TypeInv, ProcType
  <2>3. [ast[p] EXCEPT !.left = @ \ {pg}] \in AstThread
    BY <2>2 DEF AstThread
  <2>4. ast' \in [Procs -> AstThread]
    BY <2>1, <2>3 DEF IInv, TypeInv, ProcType
  <2> QED
    BY <2>1, <2>4 DEF IInv, TypeInv, ProcType
<1>23. ASSUME NEW p \in Procs, Grant(p) PROVE ProcType'
  BY <1>23, GrantEffect, Names DEF IInv, TypeInv, ProcType, BmTo, GlTo, ThTo
<1>24. ASSUME NEW p \in Procs, Ast(p) PROVE ProcType'
  BY <1>24, AstEffect, AstStep, Names DEF IInv, TypeInv, ProcType, BmTo, GlTo, ThTo
<1>25. ASSUME NEW p \in Procs, AstTry(p) PROVE ProcType'
  BY <1>25, AstEffect, AstStep, Names DEF IInv, TypeInv, ProcType, BmTo, GlTo, ThTo
<1>26. ASSUME NEW p \in Procs, AstSet(p) PROVE ProcType'
  BY <1>26, AstEffect, AstStep, Names DEF IInv, TypeInv, ProcType, BmTo, GlTo, ThTo
<1>27. ASSUME NEW p \in Procs, Crash(p) PROVE ProcType'
  <2>1. NoAst \in AstThread
    BY DEF NoAst, AstThread
  <2>5. /\ hlock' \in {hlock, None} /\ ending' \in {ending, None} /\ guard' \subseteq guard
        /\ crashes' = crashes + 1 /\ writer' = [writer EXCEPT ![p] = None] /\ ast' = [ast EXCEPT ![p] = NoAst]
    BY <1>27, CrashEffect DEF IInv
  <2>6. None \in MaybeThread
    BY Names
  <2>2. hlock' \in MaybeThread /\ ending' \in MaybeThread /\ guard' \subseteq Threads /\ crashes' \in Nat
    BY <2>5, <2>6 DEF IInv, TypeInv, ProcType
  <2>3. bm' \in [Procs -> Manager] /\ gl' \in [Procs -> StateLock] /\ th' \in [Threads -> Thread]
    BY <1>27, CrashEffect DEF IInv, BmTo, GlTo
  <2>4. writer' \in [Procs -> MaybeThread] /\ ast' \in [Procs -> AstThread]
    BY <2>1, <2>5, <2>6 DEF IInv, TypeInv, ProcType
  <2> QED
    BY <2>2, <2>3, <2>4 DEF ProcType
<1>28. CASE UNCHANGED vars
  BY <1>28 DEF vars, disk, pool, locks, IInv, TypeInv, ProcType, BmTo, GlTo, ThTo
<1> QED
  BY <1>1, <1>2, <1>3, <1>4, <1>5, <1>6, <1>7, <1>8, <1>9, <1>10, <1>11, <1>12, <1>13, <1>14, <1>15, <1>16, <1>17, <1>18, <1>19, <1>20, <1>21, <1>22, <1>23, <1>24, <1>25, <1>26, <1>27, <1>28 DEF Next, ThreadStep

\* A thread that goes on as it may, and leaves LCK_backup_end to who has it.
LEMMA ThreadMoves ==
  ASSUME ThreadInv, NEW t \in Threads, NEW pc, NEW op, NEW why, NEW page, NEW left,
         ThTo(t, pc, op, why, page, left), Fits(pc, op, why),
         op \notin {"none", "change"} => t \in Masters,
         op \in {"end", "merge", "finish"} => ending' = t,
         \A u \in Threads \ {t} : th[u].op \in {"end", "merge", "finish"} => ending' = u
  PROVE  ThreadInv'
<1> SUFFICES ASSUME NEW u \in Threads
             PROVE  /\ Fits(th'[u].pc, th'[u].op, th'[u].why)
                    /\ th'[u].op \notin {"none", "change"} => u \in Masters
                    /\ th'[u].op \in {"end", "merge", "finish"} => ending' = u
  BY DEF ThreadInv
<1>1. CASE u = t
  BY <1>1 DEF ThTo, IsThread
<1>2. CASE u # t
  BY <1>2 DEF ThTo, ThreadInv
<1> QED
  BY <1>1, <1>2

LEMMA ThreadStepInv ==
  ASSUME MastersQuiet, IInv, [Next]_vars
  PROVE  ThreadInv'
<1>1. ASSUME NEW t \in Threads, Enter(t) PROVE ThreadInv'
  BY <1>1, EnterEffect, TypedThreads, ThreadMoves DEF IInv, ThreadInv, Fits
<1>2. ASSUME NEW t \in Threads, LockRead(t) PROVE ThreadInv'
  BY <1>2, ReadsUnblocked, LockReadEffect, TypedThreads, ThreadMoves DEF IInv, ThreadInv, Fits
<1>3. ASSUME NEW t \in Threads, GrantedRead(t) PROVE ThreadInv'
  BY <1>3, ReadsUnblocked, GrantedReadEffect, TypedThreads, ThreadMoves DEF IInv, ThreadInv, Fits
<1>4. ASSUME NEW t \in Threads, Read(t) PROVE ThreadInv'
  <2>1. th[t].pc = "read" /\ UNCHANGED ending /\ (ThTo(t, "enter", th[t].op, "mark", th[t].page, th[t].left) \/ (th[t].op = "merge" /\ ThTo(t, "merge", th[t].op, th[t].why, th[t].page, th[t].left)) \/ ThTo(t, "idle", "none", "none", None, {}))
    BY <1>4, ReadEffect DEF IInv
  <2>2. (th[t].op = "merge" /\ t \in Masters /\ ending = t) \/ th[t].op = "change"
    BY <2>1 DEF IInv, ThreadInv, Fits
  <2> QED
    BY <2>1, <2>2, TypedThreads, ThreadMoves DEF IInv, ThreadInv, Fits
<1>5. ASSUME NEW t \in Threads, Mark(t) PROVE ThreadInv'
  <2>1. /\ th[t].pc = "mark" /\ UNCHANGED ending
        /\ IF th[t].op = "merge" THEN ThTo(t, "merge", th[t].op, th[t].why, th[t].page, th[t].left)
                                 ELSE ThTo(t, "idle", "none", "none", None, {})
    <3>1. DOMAIN delta' \subseteq Pages
      BY <1>5, DataTypeStep DEF DataType, Next, ThreadStep
    <3> QED
      BY <1>5, <3>1, MarkEffect DEF IInv
  <2>2. th[t].op = "merge" => t \in Masters /\ ending = t
    BY DEF IInv, ThreadInv
  <2>3. th[t].op # "merge" => th[t].op = "change"
    BY <2>1 DEF IInv, ThreadInv, Fits
  <2> QED
    BY <2>1, <2>2, <2>3, ThreadMoves DEF IInv, ThreadInv, Fits
<1>6. ASSUME NEW t \in Threads, FetchHeader(t) PROVE ThreadInv'
  BY <1>6, FetchHeaderEffect, TypedThreads, ThreadMoves DEF IInv, ThreadInv, Fits
<1>7. ASSUME NEW t \in Threads, ReadHeader(t) PROVE ThreadInv'
  <2>1. th[t].pc = "header" /\ UNCHANGED ending /\ (ThTo(t, "beginWrite", th[t].op, th[t].why, th[t].page, th[t].left))
    BY <1>7, ReadHeaderEffect DEF IInv
  <2>2. th[t].op \in {"begin", "end", "finish"} /\ t \in Masters /\ (th[t].op = "begin" \/ ending = t)
    BY <2>1 DEF IInv, ThreadInv, Fits
  <2> QED
    BY <2>1, <2>2, TypedThreads, ThreadMoves DEF IInv, ThreadInv, Fits
<1>8. ASSUME NEW t \in Threads, BeginWrite(t) PROVE ThreadInv'
  BY <1>8, BeginWriteEffect, TypedThreads, ThreadMoves DEF IInv, ThreadInv, Fits
<1>9. ASSUME NEW t \in Threads, LockWrite(t) PROVE ThreadInv'
  <2>1. th[t].pc = "lockWrite" /\ UNCHANGED ending /\ (ThTo(t, "locked", th[t].op, th[t].why, th[t].page, th[t].left) \/ ThTo(t, "waitWrite", th[t].op, th[t].why, th[t].page, th[t].left))
    BY <1>9, LockWriteEffect DEF IInv
  <2>2. th[t].op \in {"begin", "end", "finish"} /\ t \in Masters /\ (th[t].op = "begin" \/ ending = t)
    BY <2>1 DEF IInv, ThreadInv, Fits
  <2> QED
    BY <2>1, <2>2, TypedThreads, ThreadMoves DEF IInv, ThreadInv, Fits
<1>10. ASSUME NEW t \in Threads, GrantedWrite(t) PROVE ThreadInv'
  <2>1. th[t].pc = "waitWrite" /\ UNCHANGED ending /\ (ThTo(t, "locked", th[t].op, th[t].why, th[t].page, th[t].left))
    BY <1>10, GrantedWriteEffect DEF IInv
  <2>2. th[t].op \in {"begin", "end", "finish"} /\ t \in Masters /\ (th[t].op = "begin" \/ ending = t)
    BY <2>1 DEF IInv, ThreadInv, Fits
  <2> QED
    BY <2>1, <2>2, TypedThreads, ThreadMoves DEF IInv, ThreadInv, Fits
<1>11. ASSUME NEW t \in Threads, Stall(t) PROVE ThreadInv'
  BY <1>11, StallStep, TypedThreads, ThreadMoves DEF IInv, ThreadInv, Fits
<1>12. ASSUME NEW t \in Threads, Check(t) PROVE ThreadInv'
  <2>1. th[t].op = "end" /\ ending = t /\ t \in Masters
    BY <1>12, CheckEffect DEF IInv, ThreadInv, Fits
  <2>2. \/ UNCHANGED ending /\ ThTo(t, "flush", "end", "none", None, Dirty(Home[t]))
        \/ ending' = None /\ ThTo(t, "idle", "none", "none", None, {})
    BY <1>12, CheckEffect DEF IInv
  <2>3. \A u \in Threads \ {t} : th[u].op \notin {"end", "merge", "finish"}
    BY <2>1 DEF IInv, ThreadInv
  <2>4. CASE UNCHANGED ending /\ ThTo(t, "flush", "end", "none", None, Dirty(Home[t]))
    BY <2>1, <2>3, <2>4, ThreadMoves DEF IInv, Fits
  <2>5. CASE ending' = None /\ ThTo(t, "idle", "none", "none", None, {})
    BY <2>3, <2>5, ThreadMoves DEF IInv, Fits
  <2> QED
    BY <2>2, <2>4, <2>5
<1>13. ASSUME NEW t \in Threads, StartMerge(t) PROVE ThreadInv'
  <2>1. th[t].op = "end" /\ ending = t /\ t \in Masters
    BY <1>13, StartMergeStep DEF IInv, ThreadInv
  <2>2. CASE header.state # "normal"
    <3>1. UNCHANGED ending /\ ThTo(t, "enter", "merge", "table", th[t].page, th[t].left)
      BY <1>13, <2>2, StartMergeStep
    <3> QED
      BY <2>1, <3>1, ThreadMoves DEF IInv, ThreadInv, Fits
  <2>3. CASE header.state = "normal"
    <3>1. ending' = None /\ ThTo(t, "idle", "none", "none", None, {})
      BY <1>13, <2>3, StartMergeStep
    <3> QED
      BY <2>1, <3>1, ThreadMoves DEF IInv, ThreadInv, Fits
  <2> QED
    BY <2>2, <2>3
<1>14. ASSUME NEW t \in Threads, Table(t) PROVE ThreadInv'
  BY <1>14, TableEffect, TypedThreads, ThreadMoves DEF IInv, ThreadInv, Fits
<1>15. ASSUME NEW t \in Threads, MergeFlush(t) PROVE ThreadInv'
  BY <1>15, MergeFlushEffect, TypedThreads, ThreadMoves DEF IInv, ThreadInv, Fits
<1>16. ASSUME NEW t \in Threads, Merged(t) PROVE ThreadInv'
  <2>1. th[t].pc = "flush" /\ UNCHANGED ending /\ th[t].op = "merge" /\ (ThTo(t, "flush", "finish", "none", None, Dirty(Home[t])))
    BY <1>16, MergedEffect DEF IInv
  <2>2. th[t].op = "merge" /\ t \in Masters /\ ending = t
    BY <2>1 DEF IInv, ThreadInv, Fits
  <2> QED
    BY <2>1, <2>2, TypedThreads, ThreadMoves DEF IInv, ThreadInv, Fits
<1>17. ASSUME NEW t \in Threads, Finish(t) PROVE ThreadInv'
  BY <1>17, FinishStep, TypedThreads, ThreadMoves DEF IInv, ThreadInv, Fits
<1>18. ASSUME NEW t \in Threads, BeginBackup(t) PROVE ThreadInv'
  BY <1>18, BeginBackupEffect, TypedThreads, ThreadMoves DEF IInv, ThreadInv, Fits
<1>19. ASSUME NEW t \in Threads, EndBackup(t) PROVE ThreadInv'
  <2>1. th[t].pc = "idle" /\ t \in Masters /\ ending = None /\ ending' = t /\ (ThTo(t, "enter", "end", "check", None, {}))
    BY <1>19, EndBackupEffect DEF IInv
  <2>2. \A u \in Threads : th[u].op \notin {"end", "merge", "finish"}
    BY <2>1, TypedThreads DEF IInv, ThreadInv
  <2> QED
    BY <2>1, <2>2, TypedThreads, ThreadMoves DEF IInv, ThreadInv, Fits
<1>20. ASSUME NEW t \in Threads, NEW pg \in Pages, Merge(t, pg) PROVE ThreadInv'
  <2>1. th[t].pc = "merge" /\ UNCHANGED ending /\ (ThTo(t, "merge", th[t].op, th[t].why, th[t].page, th[t].left \ {pg}) \/ ThTo(t, IF dirty[pg] = Home[t] THEN "mark" ELSE "read", th[t].op, th[t].why, pg, th[t].left \ {pg}))
    BY <1>20, MergeEffect DEF IInv
  <2>2. th[t].op = "merge" /\ t \in Masters /\ ending = t
    BY <2>1 DEF IInv, ThreadInv, Fits
  <2> QED
    BY <2>1, <2>2, TypedThreads, ThreadMoves DEF IInv, ThreadInv, Fits
<1>21. ASSUME NEW t \in Threads, NEW pg \in Pages, Fetch(t, pg) PROVE ThreadInv'
  BY <1>21, FetchEffect, TypedThreads, ThreadMoves DEF IInv, ThreadInv, Fits
<1>22. ASSUME NEW pg \in Pages, Write(pg) PROVE ThreadInv'
  <2>1. \A t \in Threads : th'[t].pc = th[t].pc /\ th'[t].op = th[t].op /\ th'[t].why = th[t].why
    BY <1>22, WriteEffect DEF IInv, IsThread
  <2>2. UNCHANGED ending
    BY <1>22, WriteEffect DEF IInv
  <2> QED
    BY <2>1, <2>2 DEF IInv, ThreadInv
<1>23. ASSUME NEW p \in Procs, Grant(p) PROVE ThreadInv'
  BY <1>23, GrantEffect DEF IInv, ThreadInv
<1>24. ASSUME NEW p \in Procs, Ast(p) PROVE ThreadInv'
  BY <1>24, AstEffect DEF IInv, ThreadInv
<1>25. ASSUME NEW p \in Procs, AstTry(p) PROVE ThreadInv'
  BY <1>25, AstEffect DEF IInv, ThreadInv
<1>26. ASSUME NEW p \in Procs, AstSet(p) PROVE ThreadInv'
  BY <1>26, AstEffect DEF IInv, ThreadInv
<1>27. ASSUME NEW p \in Procs, Crash(p) PROVE ThreadInv'
  <2>1. /\ ending' = IF ending # None /\ Home[ending] = p THEN None ELSE ending
        /\ \A t \in Threads : IF Home[t] = p THEN IsThread(th'[t], "idle", "none", "none", None, {})
                                             ELSE th'[t] = th[t]
    BY <1>27, CrashEffect DEF IInv
  <2> QED
    BY <2>1, TypedThreads DEF IInv, ThreadInv, IsThread, Fits
<1>28. CASE UNCHANGED vars
  BY <1>28 DEF vars, disk, pool, locks, IInv, ThreadInv
<1> QED
  BY <1>1, <1>2, <1>3, <1>4, <1>5, <1>6, <1>7, <1>8, <1>9, <1>10, <1>11, <1>12, <1>13, <1>14, <1>15, <1>16, <1>17, <1>18, <1>19, <1>20, <1>21, <1>22, <1>23, <1>24, <1>25, <1>26, <1>27, <1>28 DEF Next, ThreadStep

\* A thread goes on and holds the page it held.
LEMMA PageKept ==
  ASSUME PageInv, NEW t \in Threads, \A u \in Threads \ {t} : th'[u] = th[u],
         UNCHANGED <<busy, dirty, stamped, target>>, HoldsPage(t)' <=> HoldsPage(t),
         HoldsPage(t) => th'[t].page = th[t].page /\ (Marking(t)' <=> Marking(t))
  PROVE  PageInv'
<1>1. \A u \in Threads : /\ HoldsPage(u)' <=> HoldsPage(u)
                         /\ HoldsPage(u) => th'[u].page = th[u].page /\ (Marking(u)' <=> Marking(u))
  <2> SUFFICES ASSUME NEW u \in Threads, u # t
               PROVE  /\ HoldsPage(u)' <=> HoldsPage(u)
                      /\ HoldsPage(u) => th'[u].page = th[u].page /\ (Marking(u)' <=> Marking(u))
    OBVIOUS
  <2> QED
    BY DEF HoldsPage, Entering, Marking
<1>2. \A pg \in Pages, u \in Threads : busy'[pg] = u <=> HoldsPage(u)' /\ th'[u].page = pg
  BY <1>1 DEF PageInv
<1>3. \A u \in Threads : HoldsPage(u)' =>
        th'[u].page \in Pages /\ IF Marking(u)' THEN th'[u].page \in stamped' ELSE th'[u].page \notin stamped'
  BY <1>1 DEF PageInv
<1>4. /\ \A pg \in Pages : busy'[pg] # None => dirty'[pg] \in {None, Home[busy'[pg]]}
      /\ \A pg \in Pages : dirty'[pg] # None => pg \in stamped'
      /\ \A pg \in stamped' : dirty'[pg] # None \/ busy'[pg] # None
      /\ \A pg \in target' : dirty'[pg] # None
  BY DEF PageInv
<1> QED
  BY <1>2, <1>3, <1>4 DEF PageInv

\* It fetches a page.
LEMMA PageTaken ==
  ASSUME TypeInv, PageInv, NEW t \in Threads, \A u \in Threads \ {t} : th'[u] = th[u], NEW pg \in Pages,
         UNCHANGED <<dirty, stamped, target>>, busy[pg] = None, dirty[pg] = None \/ dirty[pg] = Home[t],
         busy' = [busy EXCEPT ![pg] = t],
         ~HoldsPage(t), HoldsPage(t)', th'[t].page = pg, Marking(t)' <=> dirty[pg] # None
  PROVE  PageInv'
<1>1. busy'[pg] = t /\ \A q \in Pages \ {pg} : busy'[q] = busy[q]
  BY DEF TypeInv, DataType
<1>2. \A u \in Threads \ {t} : (HoldsPage(u)' <=> HoldsPage(u)) /\ (Marking(u)' <=> Marking(u))
  BY DEF HoldsPage, Entering, Marking
<1>3. \A u \in Threads : HoldsPage(u) => th[u].page # pg
  BY TypedThreads DEF PageInv
<1>4. \A q \in Pages, u \in Threads : busy'[q] = u <=> HoldsPage(u)' /\ th'[u].page = q
  BY <1>1, <1>2, <1>3 DEF PageInv
<1>5. pg \in stamped <=> dirty[pg] # None
  BY DEF PageInv
<1>6. \A u \in Threads : HoldsPage(u)' =>
        th'[u].page \in Pages /\ IF Marking(u)' THEN th'[u].page \in stamped' ELSE th'[u].page \notin stamped'
  BY <1>2, <1>5 DEF PageInv
<1>7. /\ \A q \in Pages : busy'[q] # None => dirty'[q] \in {None, Home[busy'[q]]}
      /\ \A q \in Pages : dirty'[q] # None => q \in stamped'
      /\ \A q \in stamped' : dirty'[q] # None \/ busy'[q] # None
      /\ \A q \in target' : dirty'[q] # None
  BY <1>1, TypedThreads DEF PageInv, TypeInv, DataType
<1> QED
  BY <1>4, <1>6, <1>7 DEF PageInv

\* It releases the page it held.
LEMMA PageGiven ==
  ASSUME TypeInv, PageInv, NEW t \in Threads, \A u \in Threads \ {t} : th'[u] = th[u], NEW q \in Pages,
         q = th[t].page, HoldsPage(t), ~HoldsPage(t)', busy' = [busy EXCEPT ![q] = None],
         \A pg \in Pages \ {q} : dirty'[pg] = dirty[pg] /\ (pg \in target' => pg \in target),
         UNCHANGED stamped, q \in stamped <=> dirty'[q] # None, q \in target' => dirty'[q] # None,
         target' \subseteq Pages
  PROVE  PageInv'
<1>1. busy'[q] = None /\ \A pg \in Pages \ {q} : busy'[pg] = busy[pg]
  BY DEF TypeInv, DataType
<1>2. \A u \in Threads \ {t} : (HoldsPage(u)' <=> HoldsPage(u)) /\ (Marking(u)' <=> Marking(u))
  BY DEF HoldsPage, Entering, Marking
<1>3. \A u \in Threads \ {t} : HoldsPage(u) => th[u].page # q
  BY DEF PageInv
<1>4. \A pg \in Pages : busy[pg] = t => pg = q
  BY DEF PageInv
<1>5. \A pg \in Pages, u \in Threads : busy'[pg] = u <=> HoldsPage(u)' /\ th'[u].page = pg
  BY <1>1, <1>2, <1>3, <1>4, TypedThreads DEF PageInv
<1>6. \A u \in Threads : HoldsPage(u)' =>
        th'[u].page \in Pages /\ IF Marking(u)' THEN th'[u].page \in stamped' ELSE th'[u].page \notin stamped'
  BY <1>2 DEF PageInv
<1>7. /\ \A pg \in Pages : busy'[pg] # None => dirty'[pg] \in {None, Home[busy'[pg]]}
      /\ \A pg \in Pages : dirty'[pg] # None => pg \in stamped'
      /\ \A pg \in stamped' : dirty'[pg] # None \/ busy'[pg] # None
      /\ \A pg \in target' : dirty'[pg] # None
  BY <1>1 DEF PageInv, TypeInv, DataType
<1> QED
  BY <1>5, <1>6, <1>7 DEF PageInv

LEMMA PageStep ==
  ASSUME MastersQuiet, IInv, [Next]_vars
  PROVE  PageInv'
<1>1. ASSUME NEW t \in Threads, Enter(t) PROVE PageInv'
  BY <1>1, EnterEffect, TypedThreads DEF IInv, PageInv, HoldsPage, Entering, Marking, ThTo, IsThread
<1>2. ASSUME NEW t \in Threads, LockRead(t) PROVE PageInv'
  <2>1. UNCHANGED <<busy, dirty, stamped, target>> /\ \A u \in Threads \ {t} : th'[u] = th[u]
    BY <1>2, ReadsUnblocked, LockReadEffect DEF IInv, ThTo
  <2>2. /\ HoldsPage(t)' <=> HoldsPage(t)
        /\ HoldsPage(t) => th'[t].page = th[t].page /\ (Marking(t)' <=> Marking(t))
    BY <1>2, ReadsUnblocked, LockReadEffect DEF IInv, ThTo, IsThread, HoldsPage, Entering, Marking, At, ThreadInv, Fits
  <2> QED
    BY <2>1, <2>2, PageKept DEF IInv
<1>3. ASSUME NEW t \in Threads, GrantedRead(t) PROVE PageInv'
  <2>1. UNCHANGED <<busy, dirty, stamped, target>> /\ \A u \in Threads \ {t} : th'[u] = th[u]
    BY <1>3, ReadsUnblocked, GrantedReadEffect DEF IInv, ThTo
  <2>2. /\ HoldsPage(t)' <=> HoldsPage(t)
        /\ HoldsPage(t) => th'[t].page = th[t].page /\ (Marking(t)' <=> Marking(t))
    BY <1>3, ReadsUnblocked, GrantedReadEffect DEF IInv, ThTo, IsThread, HoldsPage, Entering, Marking, At, ThreadInv, Fits
  <2> QED
    BY <2>1, <2>2, PageKept DEF IInv
<1>4. ASSUME NEW t \in Threads, Read(t) PROVE PageInv'
  <2>1. /\ UNCHANGED <<dirty, stamped, target>> /\ \A u \in Threads \ {t} : th'[u] = th[u]
        /\ HoldsPage(t) /\ ~Marking(t)
    BY <1>4, ReadEffect DEF IInv, HoldsPage, Entering, Marking, ThTo, IsThread
  <2>2. \/ /\ UNCHANGED busy /\ HoldsPage(t)' /\ th'[t].page = th[t].page /\ ~Marking(t)'
        \/ busy' = [busy EXCEPT ![th[t].page] = None] /\ ~HoldsPage(t)'
    BY <1>4, ReadEffect DEF IInv, HoldsPage, Entering, Marking, ThTo, IsThread
  <2>3. th[t].page \in Pages /\ th[t].page \notin stamped
    BY <2>1 DEF IInv, PageInv
  <2>4. dirty[th[t].page] = None /\ \A pg \in target : pg \in Pages /\ dirty[pg] # None
    BY <2>3 DEF IInv, PageInv, TypeInv, DataType
  <2>5. CASE UNCHANGED busy /\ HoldsPage(t)' /\ th'[t].page = th[t].page /\ ~Marking(t)'
    BY <2>1, <2>5, PageKept DEF IInv
  <2>6. CASE busy' = [busy EXCEPT ![th[t].page] = None] /\ ~HoldsPage(t)'
    BY <2>1, <2>3, <2>4, <2>6, PageGiven DEF IInv
  <2> QED
    BY <2>2, <2>5, <2>6
<1>5. ASSUME NEW t \in Threads, Mark(t) PROVE PageInv'
  <2> DEFINE q == th[t].page
  <2>1. DOMAIN delta' \subseteq Pages /\ target' \subseteq Pages
    BY <1>5, DataTypeStep DEF DataType, Next, ThreadStep
  <2>2. /\ \A u \in Threads \ {t} : th'[u] = th[u]
        /\ HoldsPage(t) /\ Marking(t) /\ ~HoldsPage(t)'
    BY <1>5, <2>1, MarkEffect DEF IInv, HoldsPage, Entering, Marking, ThTo, IsThread
  <2>3. /\ busy' = [busy EXCEPT ![q] = None] /\ dirty' = [dirty EXCEPT ![q] = Home[t]]
        /\ UNCHANGED stamped /\ \A pg \in Pages \ {q} : pg \in target' => pg \in target
    BY <1>5, <2>1, MarkEffect DEF IInv
  <2>4. q \in Pages /\ q \in stamped
    BY <2>2 DEF IInv, PageInv
  <2>5. dirty'[q] # None /\ \A pg \in Pages \ {q} : dirty'[pg] = dirty[pg]
    BY <2>3, <2>4, TypedThreads DEF IInv, TypeInv, DataType
  <2> QED
    BY <2>1, <2>2, <2>3, <2>4, <2>5, PageGiven DEF IInv
<1>6. ASSUME NEW t \in Threads, FetchHeader(t) PROVE PageInv'
  <2>1. UNCHANGED <<busy, dirty, stamped, target>> /\ \A u \in Threads \ {t} : th'[u] = th[u]
    BY <1>6, FetchHeaderEffect DEF IInv, ThTo
  <2>2. /\ HoldsPage(t)' <=> HoldsPage(t)
        /\ HoldsPage(t) => th'[t].page = th[t].page /\ (Marking(t)' <=> Marking(t))
    BY <1>6, FetchHeaderEffect DEF IInv, ThTo, IsThread, HoldsPage, Entering, Marking, At
  <2> QED
    BY <2>1, <2>2, PageKept DEF IInv
<1>7. ASSUME NEW t \in Threads, ReadHeader(t) PROVE PageInv'
  <2>1. UNCHANGED <<busy, dirty, stamped, target>> /\ \A u \in Threads \ {t} : th'[u] = th[u]
    BY <1>7, ReadHeaderEffect DEF IInv, ThTo
  <2>2. /\ HoldsPage(t)' <=> HoldsPage(t)
        /\ HoldsPage(t) => th'[t].page = th[t].page /\ (Marking(t)' <=> Marking(t))
    BY <1>7, ReadHeaderEffect DEF IInv, ThTo, IsThread, HoldsPage, Entering, Marking, At
  <2> QED
    BY <2>1, <2>2, PageKept DEF IInv
<1>8. ASSUME NEW t \in Threads, BeginWrite(t) PROVE PageInv'
  <2>1. UNCHANGED <<busy, dirty, stamped, target>> /\ \A u \in Threads \ {t} : th'[u] = th[u]
    BY <1>8, BeginWriteEffect DEF IInv, ThTo
  <2>2. /\ HoldsPage(t)' <=> HoldsPage(t)
        /\ HoldsPage(t) => th'[t].page = th[t].page /\ (Marking(t)' <=> Marking(t))
    BY <1>8, BeginWriteEffect DEF IInv, ThTo, IsThread, HoldsPage, Entering, Marking, At
  <2> QED
    BY <2>1, <2>2, PageKept DEF IInv
<1>9. ASSUME NEW t \in Threads, LockWrite(t) PROVE PageInv'
  <2>1. UNCHANGED <<busy, dirty, stamped, target>> /\ \A u \in Threads \ {t} : th'[u] = th[u]
    BY <1>9, LockWriteEffect DEF IInv, ThTo
  <2>2. /\ HoldsPage(t)' <=> HoldsPage(t)
        /\ HoldsPage(t) => th'[t].page = th[t].page /\ (Marking(t)' <=> Marking(t))
    BY <1>9, LockWriteEffect DEF IInv, ThTo, IsThread, HoldsPage, Entering, Marking, At
  <2> QED
    BY <2>1, <2>2, PageKept DEF IInv
<1>10. ASSUME NEW t \in Threads, GrantedWrite(t) PROVE PageInv'
  <2>1. UNCHANGED <<busy, dirty, stamped, target>> /\ \A u \in Threads \ {t} : th'[u] = th[u]
    BY <1>10, GrantedWriteEffect DEF IInv, ThTo
  <2>2. /\ HoldsPage(t)' <=> HoldsPage(t)
        /\ HoldsPage(t) => th'[t].page = th[t].page /\ (Marking(t)' <=> Marking(t))
    BY <1>10, GrantedWriteEffect DEF IInv, ThTo, IsThread, HoldsPage, Entering, Marking, At
  <2> QED
    BY <2>1, <2>2, PageKept DEF IInv
<1>11. ASSUME NEW t \in Threads, Stall(t) PROVE PageInv'
  <2>1. UNCHANGED <<busy, dirty, stamped, target>> /\ \A u \in Threads \ {t} : th'[u] = th[u]
    BY <1>11, StallStep DEF IInv, ThTo
  <2>2. /\ HoldsPage(t)' <=> HoldsPage(t)
        /\ HoldsPage(t) => th'[t].page = th[t].page /\ (Marking(t)' <=> Marking(t))
    BY <1>11, StallStep DEF IInv, ThTo, IsThread, HoldsPage, Entering, Marking, At
  <2> QED
    BY <2>1, <2>2, PageKept DEF IInv
<1>12. ASSUME NEW t \in Threads, Check(t) PROVE PageInv'
  <2>1. UNCHANGED <<busy, dirty, stamped, target>> /\ \A u \in Threads \ {t} : th'[u] = th[u]
    BY <1>12, CheckEffect DEF IInv, ThTo
  <2>2. /\ HoldsPage(t)' <=> HoldsPage(t)
        /\ HoldsPage(t) => th'[t].page = th[t].page /\ (Marking(t)' <=> Marking(t))
    BY <1>12, CheckEffect DEF IInv, ThTo, IsThread, HoldsPage, Entering, Marking, At
  <2> QED
    BY <2>1, <2>2, PageKept DEF IInv
<1>13. ASSUME NEW t \in Threads, StartMerge(t) PROVE PageInv'
  <2>1. UNCHANGED <<busy, dirty, stamped, target>> /\ \A u \in Threads \ {t} : th'[u] = th[u]
    BY <1>13, StartMergeStep DEF IInv, ThTo
  <2>2. /\ HoldsPage(t)' <=> HoldsPage(t)
        /\ HoldsPage(t) => th'[t].page = th[t].page /\ (Marking(t)' <=> Marking(t))
    BY <1>13, StartMergeStep DEF IInv, ThTo, IsThread, HoldsPage, Entering, Marking, At
  <2> QED
    BY <2>1, <2>2, PageKept DEF IInv
<1>14. ASSUME NEW t \in Threads, Table(t) PROVE PageInv'
  <2>1. UNCHANGED <<busy, dirty, stamped, target>> /\ \A u \in Threads \ {t} : th'[u] = th[u]
    BY <1>14, TableEffect DEF IInv, ThTo
  <2>2. /\ HoldsPage(t)' <=> HoldsPage(t)
        /\ HoldsPage(t) => th'[t].page = th[t].page /\ (Marking(t)' <=> Marking(t))
    BY <1>14, TableEffect DEF IInv, ThTo, IsThread, HoldsPage, Entering, Marking, At
  <2> QED
    BY <2>1, <2>2, PageKept DEF IInv
<1>15. ASSUME NEW t \in Threads, MergeFlush(t) PROVE PageInv'
  <2>1. UNCHANGED <<busy, dirty, stamped, target>> /\ \A u \in Threads \ {t} : th'[u] = th[u]
    BY <1>15, MergeFlushEffect DEF IInv, ThTo
  <2>2. /\ HoldsPage(t)' <=> HoldsPage(t)
        /\ HoldsPage(t) => th'[t].page = th[t].page /\ (Marking(t)' <=> Marking(t))
    BY <1>15, MergeFlushEffect DEF IInv, ThTo, IsThread, HoldsPage, Entering, Marking, At
  <2> QED
    BY <2>1, <2>2, PageKept DEF IInv
<1>16. ASSUME NEW t \in Threads, Merged(t) PROVE PageInv'
  <2>1. UNCHANGED <<busy, dirty, stamped, target>> /\ \A u \in Threads \ {t} : th'[u] = th[u]
    BY <1>16, MergedEffect DEF IInv, ThTo
  <2>2. /\ HoldsPage(t)' <=> HoldsPage(t)
        /\ HoldsPage(t) => th'[t].page = th[t].page /\ (Marking(t)' <=> Marking(t))
    BY <1>16, MergedEffect DEF IInv, ThTo, IsThread, HoldsPage, Entering, Marking, At
  <2> QED
    BY <2>1, <2>2, PageKept DEF IInv
<1>17. ASSUME NEW t \in Threads, Finish(t) PROVE PageInv'
  <2>1. UNCHANGED <<busy, dirty, stamped, target>> /\ \A u \in Threads \ {t} : th'[u] = th[u]
    BY <1>17, FinishStep DEF IInv, ThTo
  <2>2. /\ HoldsPage(t)' <=> HoldsPage(t)
        /\ HoldsPage(t) => th'[t].page = th[t].page /\ (Marking(t)' <=> Marking(t))
    BY <1>17, FinishStep DEF IInv, ThTo, IsThread, HoldsPage, Entering, Marking, At
  <2> QED
    BY <2>1, <2>2, PageKept DEF IInv
<1>18. ASSUME NEW t \in Threads, BeginBackup(t) PROVE PageInv'
  <2>1. UNCHANGED <<busy, dirty, stamped, target>> /\ \A u \in Threads \ {t} : th'[u] = th[u]
    BY <1>18, BeginBackupEffect DEF IInv, ThTo
  <2>2. /\ HoldsPage(t)' <=> HoldsPage(t)
        /\ HoldsPage(t) => th'[t].page = th[t].page /\ (Marking(t)' <=> Marking(t))
    BY <1>18, BeginBackupEffect DEF IInv, ThTo, IsThread, HoldsPage, Entering, Marking, At
  <2> QED
    BY <2>1, <2>2, PageKept DEF IInv
<1>19. ASSUME NEW t \in Threads, EndBackup(t) PROVE PageInv'
  <2>1. UNCHANGED <<busy, dirty, stamped, target>> /\ \A u \in Threads \ {t} : th'[u] = th[u]
    BY <1>19, EndBackupEffect DEF IInv, ThTo
  <2>2. /\ HoldsPage(t)' <=> HoldsPage(t)
        /\ HoldsPage(t) => th'[t].page = th[t].page /\ (Marking(t)' <=> Marking(t))
    BY <1>19, EndBackupEffect DEF IInv, ThTo, IsThread, HoldsPage, Entering, Marking, At
  <2> QED
    BY <2>1, <2>2, PageKept DEF IInv
<1>20. ASSUME NEW t \in Threads, NEW pg \in Pages, Merge(t, pg) PROVE PageInv'
  <2>1. CASE dirty[pg] = Home[t] /\ buf[pg].scn = bm[Home[t]].scn
    <3>1. UNCHANGED <<busy, dirty, stamped, target>> /\ \A u \in Threads \ {t} : th'[u] = th[u]
      BY <1>20, <2>1, MergeEffect DEF IInv, ThTo
    <3>2. ~HoldsPage(t) /\ ~HoldsPage(t)'
      BY <1>20, <2>1, MergeEffect DEF IInv, HoldsPage, Entering, Marking, ThTo, IsThread
    <3> QED
      BY <3>1, <3>2, PageKept DEF IInv
  <2>2. CASE ~(dirty[pg] = Home[t] /\ buf[pg].scn = bm[Home[t]].scn)
    <3>1. /\ UNCHANGED <<dirty, stamped, target>> /\ \A u \in Threads \ {t} : th'[u] = th[u]
          /\ busy[pg] = None /\ (dirty[pg] = None \/ dirty[pg] = Home[t]) /\ busy' = [busy EXCEPT ![pg] = t]
      BY <1>20, <2>2, MergeEffect DEF IInv, ThTo
    <3>2. th[t].pc = "merge" /\ th'[t].page = pg
          /\ th'[t].pc = (IF dirty[pg] = Home[t] THEN "mark" ELSE "read")
      BY <1>20, <2>2, MergeEffect DEF IInv, ThTo, IsThread
    <3>3. (dirty[pg] = Home[t]) <=> dirty[pg] # None
      BY <3>1, TypedThreads DEF IInv
    <3>4. ~HoldsPage(t) /\ HoldsPage(t)' /\ th'[t].page = pg /\ (Marking(t)' <=> dirty[pg] # None)
      BY <3>2, <3>3 DEF HoldsPage, Entering, Marking
    <3> QED
      BY <3>1, <3>4, PageTaken DEF IInv
  <2> QED
    BY <2>1, <2>2
<1>21. ASSUME NEW t \in Threads, NEW pg \in Pages, Fetch(t, pg) PROVE PageInv'
  <2>1. /\ UNCHANGED <<dirty, stamped, target>> /\ \A u \in Threads \ {t} : th'[u] = th[u]
        /\ busy[pg] = None /\ (dirty[pg] = None \/ dirty[pg] = Home[t]) /\ busy' = [busy EXCEPT ![pg] = t]
    BY <1>21, FetchEffect DEF IInv, ThTo
  <2>2. ~HoldsPage(t) /\ HoldsPage(t)' /\ th'[t].page = pg /\ (Marking(t)' <=> dirty[pg] # None)
    BY <1>21, FetchEffect DEF IInv, HoldsPage, Entering, Marking, ThTo, IsThread
  <2> QED
    BY <2>1, <2>2, PageTaken DEF IInv
<1>22. ASSUME NEW pg \in Pages, Write(pg) PROVE PageInv'
  <2>1. /\ dirty[pg] # None /\ busy[pg] = None /\ dirty' = [dirty EXCEPT ![pg] = None]
        /\ target' = target \ {pg} /\ stamped' = stamped \ {pg} /\ UNCHANGED busy
    BY <1>22, WriteEffect DEF IInv
  <2>2. \A u \in Threads : /\ HoldsPage(u)' <=> HoldsPage(u)
                           /\ Marking(u)' <=> Marking(u)
                           /\ th'[u].page = th[u].page
    BY <1>22, WriteEffect DEF IInv, IsThread, HoldsPage, Entering, Marking
  <2>3. \A u \in Threads : HoldsPage(u) => th[u].page # pg
    BY <2>1, TypedThreads DEF IInv, PageInv
  <2>4. dirty'[pg] = None /\ \A q \in Pages \ {pg} : dirty'[q] = dirty[q]
    BY <2>1 DEF IInv, TypeInv, DataType
  <2>5. \A q \in Pages, u \in Threads : busy'[q] = u <=> HoldsPage(u)' /\ th'[u].page = q
    BY <2>1, <2>2 DEF IInv, PageInv
  <2>6. \A u \in Threads : HoldsPage(u)' =>
          th'[u].page \in Pages /\ IF Marking(u)' THEN th'[u].page \in stamped' ELSE th'[u].page \notin stamped'
    BY <2>1, <2>2, <2>3 DEF IInv, PageInv
  <2>7. /\ \A q \in Pages : busy'[q] # None => dirty'[q] \in {None, Home[busy'[q]]}
        /\ \A q \in Pages : dirty'[q] # None => q \in stamped'
        /\ \A q \in stamped' : dirty'[q] # None \/ busy'[q] # None
        /\ \A q \in target' : dirty'[q] # None
    BY <2>1, <2>4 DEF IInv, PageInv, TypeInv, DataType
  <2> QED
    BY <2>5, <2>6, <2>7 DEF PageInv
<1>23. ASSUME NEW p \in Procs, Grant(p) PROVE PageInv'
  BY <1>23, GrantEffect DEF IInv, PageInv, HoldsPage, Entering, Marking
<1>24. ASSUME NEW p \in Procs, Ast(p) PROVE PageInv'
  BY <1>24, AstEffect DEF IInv, PageInv, HoldsPage, Entering, Marking
<1>25. ASSUME NEW p \in Procs, AstTry(p) PROVE PageInv'
  BY <1>25, AstEffect DEF IInv, PageInv, HoldsPage, Entering, Marking
<1>26. ASSUME NEW p \in Procs, AstSet(p) PROVE PageInv'
  BY <1>26, AstEffect DEF IInv, PageInv, HoldsPage, Entering, Marking
<1>27. ASSUME NEW p \in Procs, Crash(p) PROVE PageInv'
  <2>1. /\ stamped' = stamped \ (Readers(p) \ Threads) /\ target' = target \ Dirty(p)
        /\ dirty' = [pg \in Pages |-> IF dirty[pg] = p THEN None ELSE dirty[pg]]
        /\ busy' = [pg \in Pages |-> IF busy[pg] # None /\ Home[busy[pg]] = p THEN None ELSE busy[pg]]
    BY <1>27, CrashEffect DEF IInv
  <2>2. \A u \in Threads : IF Home[u] = p THEN ~HoldsPage(u)'
                           ELSE /\ HoldsPage(u)' <=> HoldsPage(u)
                                /\ Marking(u)' <=> Marking(u)
                                /\ th'[u].page = th[u].page
    <3>1. \A u \in Threads : IF Home[u] = p THEN th'[u].pc = "idle" ELSE th'[u] = th[u]
      BY <1>27, CrashEffect DEF IInv, IsThread
    <3> QED
      BY <3>1 DEF HoldsPage, Entering, Marking
  <2>3. \A pg \in Pages : pg \in stamped' <=>
          pg \in stamped /\ ~(dirty[pg] = p \/ (busy[pg] # None /\ Home[busy[pg]] = p))
    BY <2>1, TypedThreads DEF Readers, IInv, TypeInv, ProcType
  <2>4. \A q \in Pages, u \in Threads : busy'[q] = u <=> HoldsPage(u)' /\ th'[u].page = q
    BY <2>1, <2>2, TypedThreads DEF IInv, PageInv
  <2>5. ASSUME NEW u \in Threads, HoldsPage(u)'
        PROVE  th'[u].page \in Pages /\ IF Marking(u)' THEN th'[u].page \in stamped' ELSE th'[u].page \notin stamped'
    <3> DEFINE q == th[u].page
    <3>1. Home[u] # p /\ HoldsPage(u) /\ (Marking(u)' <=> Marking(u)) /\ th'[u].page = q
      BY <2>2, <2>5
    <3>2. q \in Pages /\ busy[q] = u /\ (dirty[q] = None \/ dirty[q] = Home[u])
      BY <3>1, Held DEF IInv
    <3>3. q \in stamped' <=> q \in stamped
      <4>1. p # None
        BY NBackupAssumption
      <4> HIDE DEF q
      <4> QED
        BY <2>3, <3>1, <3>2, <4>1
    <3> QED
      BY <3>1, <3>2, <3>3 DEF IInv, PageInv
  <2>6. \A q \in Pages : busy'[q] # None => dirty'[q] \in {None, Home[busy'[q]]}
    BY <2>1 DEF IInv, PageInv
  <2>7. ASSUME NEW q \in Pages, dirty'[q] # None PROVE q \in stamped'
    <3>1. dirty[q] # None /\ dirty[q] # p
      BY <2>1, <2>7
    <3>2. q \in stamped /\ (busy[q] # None => Home[busy[q]] # p)
      BY <3>1 DEF IInv, PageInv
    <3> QED
      BY <2>3, <3>1, <3>2
  <2>8. ASSUME NEW q \in stamped' PROVE dirty'[q] # None \/ busy'[q] # None
    <3>1. q \in Pages /\ q \in stamped
      BY <2>1 DEF IInv, TypeInv, DataType
    <3>2. ~(dirty[q] = p \/ (busy[q] # None /\ Home[busy[q]] = p)) /\ (dirty[q] # None \/ busy[q] # None)
      BY <2>3, <3>1 DEF IInv, PageInv
    <3> QED
      BY <2>1, <3>1, <3>2
  <2>9. ASSUME NEW q \in target' PROVE dirty'[q] # None
    <3>1. q \in Pages /\ q \in target /\ dirty[q] # p
      BY <2>1 DEF IInv, TypeInv, DataType, Dirty
    <3> QED
      BY <2>1, <3>1 DEF IInv, PageInv
  <2> QED
    BY <2>4, <2>5, <2>6, <2>7, <2>8, <2>9 DEF PageInv
<1>28. CASE UNCHANGED vars
  BY <1>28 DEF vars, disk, pool, locks, IInv, PageInv, HoldsPage, Entering, Marking
<1> QED
  BY <1>1, <1>2, <1>3, <1>4, <1>5, <1>6, <1>7, <1>8, <1>9, <1>10, <1>11, <1>12, <1>13, <1>14, <1>15, <1>16, <1>17, <1>18, <1>19, <1>20, <1>21, <1>22, <1>23, <1>24, <1>25, <1>26, <1>27, <1>28 DEF Next, ThreadStep

LEMMA ReadersLess ==
  ASSUME TypeInv, guard' \subseteq guard, stamped' \subseteq stamped,
         \A p \in Procs, pg \in stamped' :
           dirty'[pg] = p \/ (busy'[pg] # None /\ Home[busy'[pg]] = p) =>
             dirty[pg] = p \/ (busy[pg] # None /\ Home[busy[pg]] = p)
  PROVE  \A p \in Procs : Readers(p)' \subseteq Readers(p)
BY DEF Readers

\* A thread goes on: no reader is added to a process, and it stays inside only
\* as a reader.
LEMMA LocalKept ==
  ASSUME TypeInv, LocalInv, NEW t \in Threads, \A u \in Threads \ {t} : th'[u] = th[u],
         UNCHANGED writer, Writing(t)' <=> Writing(t), \A u \in guard \ {t} : u \in guard',
         \A p \in Procs : writer[p] # None => Readers(p)' \subseteq Readers(p),
         Inside(t)' => t \in guard' \/ (HoldsPage(t)' /\ Marking(t)' /\ th'[t].op = "change")
  PROVE  LocalInv'
<1>1. \A u \in Threads \ {t} : /\ HoldsPage(u)' <=> HoldsPage(u)
                               /\ Marking(u)' <=> Marking(u)
                               /\ Inside(u)' <=> Inside(u)
                               /\ Writing(u)' <=> Writing(u)
                               /\ th'[u].op = th[u].op
  BY DEF HoldsPage, Entering, Marking, Inside, Writing
<1>2. \A u \in Threads : Inside(u)' => u \in guard' \/ (HoldsPage(u)' /\ Marking(u)' /\ th'[u].op = "change")
  BY <1>1 DEF LocalInv
<1>3. \A p \in Procs, u \in Threads : writer'[p] = u <=> Home[u] = p /\ Writing(u)'
  BY <1>1 DEF LocalInv
<1>4. \A p \in Procs : writer'[p] # None => Readers(p)' = {}
  BY DEF LocalInv
<1> QED
  BY <1>2, <1>3, <1>4 DEF LocalInv

\* A writer unlocks.
LEMMA LocalUnlocked ==
  ASSUME TypeInv, LocalInv, NEW t \in Threads, \A u \in Threads \ {t} : th'[u] = th[u],
         Writing(t), ~Writing(t)', ~Inside(t)', writer' = [writer EXCEPT ![Home[t]] = None],
         UNCHANGED <<guard, stamped, dirty, busy>>
  PROVE  LocalInv'
<1>1. \A u \in Threads \ {t} : /\ HoldsPage(u)' <=> HoldsPage(u)
                               /\ Marking(u)' <=> Marking(u)
                               /\ Inside(u)' <=> Inside(u)
                               /\ Writing(u)' <=> Writing(u)
                               /\ th'[u].op = th[u].op
  BY DEF HoldsPage, Entering, Marking, Inside, Writing
<1>2. \A u \in Threads : Inside(u)' => u \in guard' \/ (HoldsPage(u)' /\ Marking(u)' /\ th'[u].op = "change")
  BY <1>1 DEF LocalInv
<1>3. writer'[Home[t]] = None /\ \A p \in Procs \ {Home[t]} : writer'[p] = writer[p]
  BY TypedThreads DEF TypeInv, ProcType
<1>4. \A p \in Procs, u \in Threads : writer'[p] = u <=> Home[u] = p /\ Writing(u)'
  <2>1. writer[Home[t]] = t
    BY TypedThreads DEF LocalInv
  <2> QED
    BY <1>1, <1>3, <2>1, TypedThreads DEF LocalInv
<1>5. \A p \in Procs : Readers(p)' = Readers(p)
  BY DEF Readers
<1>6. \A p \in Procs : writer'[p] # None => Readers(p)' = {}
  BY <1>3, <1>5 DEF LocalInv
<1> QED
  BY <1>2, <1>4, <1>6 DEF LocalInv

LEMMA LocalStep ==
  ASSUME MastersQuiet, IInv, [Next]_vars
  PROVE  LocalInv'
<1>1. ASSUME NEW t \in Threads, Enter(t) PROVE LocalInv'
  <2> DEFINE q == th[t].page
  <2>1. /\ \A u \in Threads \ {t} : th'[u] = th[u]
        /\ UNCHANGED <<writer, dirty, busy>> /\ \A u \in guard \ {t} : u \in guard'
        /\ writer[Home[t]] = None
    BY <1>1, EnterEffect DEF IInv, ThTo
  <2>2. Writing(t)' <=> Writing(t)
    BY <1>1, EnterEffect DEF IInv, ThTo, IsThread, Writing, ThreadInv, Fits
  <2>3. th[t].why # "mark" => guard' = guard \union {t} /\ stamped' = stamped
    BY <1>1, EnterEffect DEF IInv
  <2>4. th[t].why = "mark" => guard' = guard /\ stamped' = stamped \union {q}
    BY <1>1, EnterEffect DEF IInv
  <2>5. th[t].why = "mark" => HoldsPage(t) /\ ~Marking(t)
    BY <1>1, EnterEffect DEF IInv, HoldsPage, Entering, Marking
  <2>6. Inside(t)' => t \in guard' \/ (HoldsPage(t)' /\ Marking(t)' /\ th'[t].op = "change")
    <3>1. CASE th[t].why # "mark"
      BY <2>3, <3>1
    <3>2. CASE th[t].why = "mark" /\ th[t].op = "merge"
      <4>1. Inside(t)
        BY <3>2 DEF Inside
      <4> QED
        BY <2>4, <2>5, <3>2, <4>1 DEF IInv, LocalInv
    <3>3. CASE th[t].why = "mark" /\ th[t].op # "merge"
      <4>1. th[t].op = "change"
        BY <1>1, <3>3, EnterEffect DEF IInv, ThreadInv, Fits
      <4>2. th'[t].op = th[t].op /\ th'[t].why = "mark" /\ th'[t].pc \in {"lockRead", "mark"}
        BY <1>1, <3>3, EnterEffect DEF IInv, ThTo, IsThread
      <4>3. HoldsPage(t)' /\ Marking(t)'
        BY <4>2 DEF HoldsPage, Entering, Marking
      <4> QED
        BY <4>1, <4>2, <4>3
    <3> QED
      BY <3>1, <3>2, <3>3
  <2>7. ASSUME NEW r \in Procs, writer[r] # None PROVE Readers(r)' \subseteq Readers(r)
    <3>1. r # Home[t]
      BY <2>1, <2>7
    <3>2. CASE th[t].why # "mark"
      BY <2>1, <2>3, <3>1, <3>2 DEF Readers
    <3>3. CASE th[t].why = "mark"
      <4>1. busy[q] = t /\ (dirty[q] = None \/ dirty[q] = Home[t])
        BY <2>5, <3>3, Held DEF IInv
      <4>2. dirty[q] # r /\ ~(busy[q] # None /\ Home[busy[q]] = r)
        BY <3>1, <4>1, NBackupAssumption
      <4> HIDE DEF q
      <4> QED
        BY <2>1, <2>4, <3>3, <4>2 DEF Readers
    <3> QED
      BY <3>2, <3>3
  <2> QED
    BY <2>1, <2>2, <2>6, <2>7, LocalKept DEF IInv
<1>2. ASSUME NEW t \in Threads, LockRead(t) PROVE LocalInv'
  <2>1. /\ \A u \in Threads \ {t} : th'[u] = th[u]
        /\ UNCHANGED <<writer, stamped, dirty, busy>> /\ guard' \subseteq guard /\ \A u \in guard \ {t} : u \in guard'
    BY <1>2, ReadsUnblocked, LockReadEffect DEF IInv, ThTo
  <2>2. Writing(t)' <=> Writing(t)
    BY <1>2, ReadsUnblocked, LockReadEffect DEF IInv, ThTo, IsThread, Writing, At, ThreadInv, Fits
  <2>3. Inside(t)' => t \in guard' \/ (HoldsPage(t)' /\ Marking(t)' /\ th'[t].op = "change")
    BY <1>2, ReadsUnblocked, LockReadEffect DEF IInv, HoldsPage, Entering, Marking, Inside, Writing, ThTo, IsThread, At, LocalInv, ThreadInv, Fits
  <2>4. \A p \in Procs : Readers(p)' \subseteq Readers(p)
    BY <2>1, ReadersLess DEF IInv
  <2> QED
    BY <2>1, <2>2, <2>3, <2>4, LocalKept DEF IInv
<1>3. ASSUME NEW t \in Threads, GrantedRead(t) PROVE LocalInv'
  <2>1. /\ \A u \in Threads \ {t} : th'[u] = th[u]
        /\ UNCHANGED <<writer, stamped, dirty, busy>> /\ guard' \subseteq guard /\ \A u \in guard \ {t} : u \in guard'
    BY <1>3, ReadsUnblocked, GrantedReadEffect DEF IInv, ThTo
  <2>2. Writing(t)' <=> Writing(t)
    BY <1>3, ReadsUnblocked, GrantedReadEffect DEF IInv, ThTo, IsThread, Writing, At, ThreadInv, Fits
  <2>3. Inside(t)' => t \in guard' \/ (HoldsPage(t)' /\ Marking(t)' /\ th'[t].op = "change")
    BY <1>3, ReadsUnblocked, GrantedReadEffect DEF IInv, HoldsPage, Entering, Marking, Inside, Writing, ThTo, IsThread, At, LocalInv, ThreadInv, Fits
  <2>4. \A p \in Procs : Readers(p)' \subseteq Readers(p)
    BY <2>1, ReadersLess DEF IInv
  <2> QED
    BY <2>1, <2>2, <2>3, <2>4, LocalKept DEF IInv
<1>4. ASSUME NEW t \in Threads, Read(t) PROVE LocalInv'
  <2>1. /\ \A u \in Threads \ {t} : th'[u] = th[u]
        /\ UNCHANGED <<writer, stamped, dirty>> /\ guard' \subseteq guard /\ \A u \in guard \ {t} : u \in guard'
        /\ UNCHANGED busy \/ busy' = [busy EXCEPT ![th[t].page] = None]
    BY <1>4, ReadEffect DEF IInv, ThTo
  <2>2. Writing(t)' <=> Writing(t)
    BY <1>4, ReadEffect DEF IInv, ThTo, IsThread, Writing
  <2>3. Inside(t)' => t \in guard' \/ (HoldsPage(t)' /\ Marking(t)' /\ th'[t].op = "change")
    <3>1. Inside(t) /\ ~Marking(t)
      BY <1>4, ReadEffect DEF IInv, Inside, Marking
    <3>2. t \in guard
      BY <3>1 DEF IInv, LocalInv
    <3>3. th[t].op = "merge" => guard' = guard
      BY <1>4, ReadEffect DEF IInv
    <3>4. th[t].op = "change" => ~Inside(t)'
      BY <1>4, ReadEffect DEF IInv, ThTo, IsThread, Inside
    <3>5. th[t].op \in {"change", "merge"}
      BY <1>4, ReadEffect DEF IInv
    <3> QED
      BY <3>2, <3>3, <3>4, <3>5
  <2>4. \A p \in Procs : Readers(p)' \subseteq Readers(p)
    <3>1. \A pg \in Pages : busy'[pg] = None \/ busy'[pg] = busy[pg]
      BY <2>1 DEF IInv, TypeInv, DataType
    <3>2. stamped' \subseteq Pages
      BY <2>1 DEF IInv, TypeInv, DataType
    <3> QED
      BY <2>1, <3>1, <3>2, ReadersLess DEF IInv
  <2> QED
    BY <2>1, <2>2, <2>3, <2>4, LocalKept DEF IInv
<1>5. ASSUME NEW t \in Threads, Mark(t) PROVE LocalInv'
  <2> DEFINE q == th[t].page
  <2>0. DOMAIN delta' \subseteq Pages
    BY <1>5, DataTypeStep DEF DataType, Next, ThreadStep
  <2>1. /\ \A u \in Threads \ {t} : th'[u] = th[u]
        /\ UNCHANGED <<writer, stamped, guard>>
        /\ busy' = [busy EXCEPT ![q] = None] /\ dirty' = [dirty EXCEPT ![q] = Home[t]]
    BY <1>5, <2>0, MarkEffect DEF IInv, ThTo
  <2>2. Writing(t)' <=> Writing(t)
    BY <1>5, <2>0, MarkEffect DEF IInv, ThTo, IsThread, Writing
  <2>3. th[t].op # "merge" => ~Inside(t)'
    BY <1>5, <2>0, MarkEffect DEF IInv, ThTo, IsThread, Inside
  <2>4. th[t].op = "merge" => t \in guard
    <3>1. th[t].pc = "mark"
      BY <1>5, <2>0, MarkEffect DEF IInv
    <3>2. Inside(t)
      BY <3>1 DEF Inside
    <3> QED
      BY <3>2 DEF IInv, LocalInv
  <2>5. Inside(t)' => t \in guard' \/ (HoldsPage(t)' /\ Marking(t)' /\ th'[t].op = "change")
    BY <2>1, <2>3, <2>4
  <2>6. th[t].pc = "mark" /\ HoldsPage(t)
    BY <1>5, <2>0, MarkEffect DEF IInv, HoldsPage
  <2>7. q \in Pages /\ busy[q] = t /\ busy[q] # None
    BY <2>6, Held, TypedThreads DEF IInv
  <2>8. \A pg \in Pages \ {q} : busy'[pg] = busy[pg] /\ dirty'[pg] = dirty[pg]
    BY <2>1, <2>7 DEF IInv, TypeInv, DataType
  <2>9. \A p \in Procs : Readers(p)' \subseteq Readers(p)
    <3>1. stamped' \subseteq Pages /\ busy'[q] = None /\ dirty'[q] = Home[t]
      BY <2>1, <2>7 DEF IInv, TypeInv, DataType
    <3> HIDE DEF q
    <3> QED
      BY <2>1, <2>7, <2>8, <3>1, ReadersLess DEF IInv
  <2> QED
    BY <2>1, <2>2, <2>5, <2>9, LocalKept DEF IInv
<1>6. ASSUME NEW t \in Threads, FetchHeader(t) PROVE LocalInv'
  <2>1. /\ \A u \in Threads \ {t} : th'[u] = th[u]
        /\ UNCHANGED <<writer, stamped, dirty, busy>> /\ guard' \subseteq guard /\ \A u \in guard \ {t} : u \in guard'
    BY <1>6, FetchHeaderEffect DEF IInv, ThTo
  <2>2. Writing(t)' <=> Writing(t)
    BY <1>6, FetchHeaderEffect DEF IInv, ThTo, IsThread, Writing, At, ThreadInv, Fits
  <2>3. Inside(t)' => t \in guard' \/ (HoldsPage(t)' /\ Marking(t)' /\ th'[t].op = "change")
    BY <1>6, FetchHeaderEffect DEF IInv, HoldsPage, Entering, Marking, Inside, Writing, ThTo, IsThread, At, LocalInv, ThreadInv, Fits
  <2>4. \A p \in Procs : Readers(p)' \subseteq Readers(p)
    BY <2>1, ReadersLess DEF IInv
  <2> QED
    BY <2>1, <2>2, <2>3, <2>4, LocalKept DEF IInv
<1>7. ASSUME NEW t \in Threads, ReadHeader(t) PROVE LocalInv'
  <2>1. /\ \A u \in Threads \ {t} : th'[u] = th[u]
        /\ UNCHANGED <<writer, stamped, dirty, busy>> /\ guard' \subseteq guard /\ \A u \in guard \ {t} : u \in guard'
    BY <1>7, ReadHeaderEffect DEF IInv, ThTo
  <2>2. Writing(t)' <=> Writing(t)
    BY <1>7, ReadHeaderEffect DEF IInv, ThTo, IsThread, Writing, At, ThreadInv, Fits
  <2>3. Inside(t)' => t \in guard' \/ (HoldsPage(t)' /\ Marking(t)' /\ th'[t].op = "change")
    BY <1>7, ReadHeaderEffect DEF IInv, HoldsPage, Entering, Marking, Inside, Writing, ThTo, IsThread, At, LocalInv, ThreadInv, Fits
  <2>4. \A p \in Procs : Readers(p)' \subseteq Readers(p)
    BY <2>1, ReadersLess DEF IInv
  <2> QED
    BY <2>1, <2>2, <2>3, <2>4, LocalKept DEF IInv
<1>8. ASSUME NEW t \in Threads, BeginWrite(t) PROVE LocalInv'
  <2>1. /\ \A u \in Threads \ {t} : th'[u] = th[u]
        /\ UNCHANGED <<stamped, guard, dirty, busy>> /\ writer' = [writer EXCEPT ![Home[t]] = t]
        /\ Free(Home[t])
    BY <1>8, BeginWriteEffect DEF IInv, ThTo
  <2>2. \A u \in Threads \ {t} : /\ HoldsPage(u)' <=> HoldsPage(u)
                                 /\ Marking(u)' <=> Marking(u)
                                 /\ Inside(u)' <=> Inside(u)
                                 /\ Writing(u)' <=> Writing(u)
                                 /\ th'[u].op = th[u].op
    BY <2>1 DEF HoldsPage, Entering, Marking, Inside, Writing
  <2>3. ~Inside(t)' /\ Writing(t)'
    BY <1>8, BeginWriteEffect DEF IInv, ThreadInv, Fits, ThTo, IsThread, Inside, Writing
  <2>4. \A u \in Threads : Inside(u)' => u \in guard' \/ (HoldsPage(u)' /\ Marking(u)' /\ th'[u].op = "change")
    BY <2>1, <2>2, <2>3 DEF IInv, LocalInv
  <2>5. writer'[Home[t]] = t /\ \A p \in Procs \ {Home[t]} : writer'[p] = writer[p]
    BY <2>1, TypedThreads DEF IInv, TypeInv, ProcType
  <2>6. \A u \in Threads : Home[u] = Home[t] => ~Writing(u)
    BY <2>1, TypedThreads DEF IInv, LocalInv, Free
  <2>7. \A p \in Procs, u \in Threads : writer'[p] = u <=> Home[u] = p /\ Writing(u)'
    BY <2>2, <2>3, <2>5, <2>6 DEF IInv, LocalInv
  <2>8. \A p \in Procs : Readers(p)' = Readers(p)
    BY <2>1 DEF Readers
  <2>9. \A p \in Procs : writer'[p] # None => Readers(p)' = {}
    BY <2>1, <2>5, <2>8 DEF IInv, LocalInv, Free
  <2> QED
    BY <2>4, <2>7, <2>9 DEF LocalInv
<1>9. ASSUME NEW t \in Threads, LockWrite(t) PROVE LocalInv'
  <2>1. /\ \A u \in Threads \ {t} : th'[u] = th[u]
        /\ UNCHANGED <<writer, stamped, dirty, busy>> /\ guard' \subseteq guard /\ \A u \in guard \ {t} : u \in guard'
    BY <1>9, LockWriteEffect DEF IInv, ThTo
  <2>2. Writing(t)' <=> Writing(t)
    BY <1>9, LockWriteEffect DEF IInv, ThTo, IsThread, Writing, At, ThreadInv, Fits
  <2>3. Inside(t)' => t \in guard' \/ (HoldsPage(t)' /\ Marking(t)' /\ th'[t].op = "change")
    BY <1>9, LockWriteEffect DEF IInv, HoldsPage, Entering, Marking, Inside, Writing, ThTo, IsThread, At, LocalInv, ThreadInv, Fits
  <2>4. \A p \in Procs : Readers(p)' \subseteq Readers(p)
    BY <2>1, ReadersLess DEF IInv
  <2> QED
    BY <2>1, <2>2, <2>3, <2>4, LocalKept DEF IInv
<1>10. ASSUME NEW t \in Threads, GrantedWrite(t) PROVE LocalInv'
  <2>1. /\ \A u \in Threads \ {t} : th'[u] = th[u]
        /\ UNCHANGED <<writer, stamped, dirty, busy>> /\ guard' \subseteq guard /\ \A u \in guard \ {t} : u \in guard'
    BY <1>10, GrantedWriteEffect DEF IInv, ThTo
  <2>2. Writing(t)' <=> Writing(t)
    BY <1>10, GrantedWriteEffect DEF IInv, ThTo, IsThread, Writing, At, ThreadInv, Fits
  <2>3. Inside(t)' => t \in guard' \/ (HoldsPage(t)' /\ Marking(t)' /\ th'[t].op = "change")
    BY <1>10, GrantedWriteEffect DEF IInv, HoldsPage, Entering, Marking, Inside, Writing, ThTo, IsThread, At, LocalInv, ThreadInv, Fits
  <2>4. \A p \in Procs : Readers(p)' \subseteq Readers(p)
    BY <2>1, ReadersLess DEF IInv
  <2> QED
    BY <2>1, <2>2, <2>3, <2>4, LocalKept DEF IInv
<1>11. ASSUME NEW t \in Threads, Stall(t) PROVE LocalInv'
  <2>1. /\ \A u \in Threads \ {t} : th'[u] = th[u]
        /\ writer' = [writer EXCEPT ![Home[t]] = None] /\ UNCHANGED <<guard, stamped, dirty, busy>>
    BY <1>11, StallStep DEF ThTo
  <2>2. Writing(t) /\ ~Writing(t)' /\ ~Inside(t)'
    BY <1>11, StallStep DEF ThTo, IsThread, Writing, Inside, At
  <2> QED
    BY <2>1, <2>2, LocalUnlocked DEF IInv
<1>12. ASSUME NEW t \in Threads, Check(t) PROVE LocalInv'
  <2>1. /\ \A u \in Threads \ {t} : th'[u] = th[u]
        /\ UNCHANGED <<writer, stamped, dirty, busy>> /\ guard' \subseteq guard /\ \A u \in guard \ {t} : u \in guard'
    BY <1>12, CheckEffect DEF IInv, ThTo
  <2>2. Writing(t)' <=> Writing(t)
    BY <1>12, CheckEffect DEF IInv, ThTo, IsThread, Writing, At, ThreadInv, Fits
  <2>3. Inside(t)' => t \in guard' \/ (HoldsPage(t)' /\ Marking(t)' /\ th'[t].op = "change")
    BY <1>12, CheckEffect DEF IInv, HoldsPage, Entering, Marking, Inside, Writing, ThTo, IsThread, At, LocalInv, ThreadInv, Fits
  <2>4. \A p \in Procs : Readers(p)' \subseteq Readers(p)
    BY <2>1, ReadersLess DEF IInv
  <2> QED
    BY <2>1, <2>2, <2>3, <2>4, LocalKept DEF IInv
<1>13. ASSUME NEW t \in Threads, StartMerge(t) PROVE LocalInv'
  <2>1. /\ \A u \in Threads \ {t} : th'[u] = th[u]
        /\ writer' = [writer EXCEPT ![Home[t]] = None] /\ UNCHANGED <<guard, stamped, dirty, busy>>
    BY <1>13, StartMergeStep DEF ThTo
  <2>2. Writing(t) /\ ~Writing(t)' /\ ~Inside(t)'
    BY <1>13, StartMergeStep DEF ThTo, IsThread, Writing, Inside, At
  <2> QED
    BY <2>1, <2>2, LocalUnlocked DEF IInv
<1>14. ASSUME NEW t \in Threads, Table(t) PROVE LocalInv'
  <2>1. /\ \A u \in Threads \ {t} : th'[u] = th[u]
        /\ UNCHANGED <<writer, stamped, dirty, busy>> /\ guard' \subseteq guard /\ \A u \in guard \ {t} : u \in guard'
    BY <1>14, TableEffect DEF IInv, ThTo
  <2>2. Writing(t)' <=> Writing(t)
    BY <1>14, TableEffect DEF IInv, ThTo, IsThread, Writing, At, ThreadInv, Fits
  <2>3. Inside(t)' => t \in guard' \/ (HoldsPage(t)' /\ Marking(t)' /\ th'[t].op = "change")
    BY <1>14, TableEffect DEF IInv, HoldsPage, Entering, Marking, Inside, Writing, ThTo, IsThread, At, LocalInv, ThreadInv, Fits
  <2>4. \A p \in Procs : Readers(p)' \subseteq Readers(p)
    BY <2>1, ReadersLess DEF IInv
  <2> QED
    BY <2>1, <2>2, <2>3, <2>4, LocalKept DEF IInv
<1>15. ASSUME NEW t \in Threads, MergeFlush(t) PROVE LocalInv'
  <2>1. /\ \A u \in Threads \ {t} : th'[u] = th[u]
        /\ UNCHANGED <<writer, stamped, dirty, busy>> /\ guard' \subseteq guard /\ \A u \in guard \ {t} : u \in guard'
    BY <1>15, MergeFlushEffect DEF IInv, ThTo
  <2>2. Writing(t)' <=> Writing(t)
    BY <1>15, MergeFlushEffect DEF IInv, ThTo, IsThread, Writing, At
  <2>3. Inside(t)' => t \in guard' \/ (HoldsPage(t)' /\ Marking(t)' /\ th'[t].op = "change")
    BY <1>15, MergeFlushEffect DEF IInv, HoldsPage, Entering, Marking, Inside, Writing, ThTo, IsThread, At, LocalInv
  <2>4. \A p \in Procs : Readers(p)' \subseteq Readers(p)
    BY <2>1, ReadersLess DEF IInv
  <2> QED
    BY <2>1, <2>2, <2>3, <2>4, LocalKept DEF IInv
<1>16. ASSUME NEW t \in Threads, Merged(t) PROVE LocalInv'
  <2>1. /\ \A u \in Threads \ {t} : th'[u] = th[u]
        /\ UNCHANGED <<writer, stamped, dirty, busy>> /\ guard' \subseteq guard /\ \A u \in guard \ {t} : u \in guard'
    BY <1>16, MergedEffect DEF IInv, ThTo
  <2>2. Writing(t)' <=> Writing(t)
    BY <1>16, MergedEffect DEF IInv, ThTo, IsThread, Writing, At
  <2>3. Inside(t)' => t \in guard' \/ (HoldsPage(t)' /\ Marking(t)' /\ th'[t].op = "change")
    BY <1>16, MergedEffect DEF IInv, HoldsPage, Entering, Marking, Inside, Writing, ThTo, IsThread, At, LocalInv
  <2>4. \A p \in Procs : Readers(p)' \subseteq Readers(p)
    BY <2>1, ReadersLess DEF IInv
  <2> QED
    BY <2>1, <2>2, <2>3, <2>4, LocalKept DEF IInv
<1>17. ASSUME NEW t \in Threads, Finish(t) PROVE LocalInv'
  <2>1. /\ \A u \in Threads \ {t} : th'[u] = th[u]
        /\ writer' = [writer EXCEPT ![Home[t]] = None] /\ UNCHANGED <<guard, stamped, dirty, busy>>
    BY <1>17, FinishStep DEF ThTo
  <2>2. Writing(t) /\ ~Writing(t)' /\ ~Inside(t)'
    BY <1>17, FinishStep DEF ThTo, IsThread, Writing, Inside, At
  <2> QED
    BY <2>1, <2>2, LocalUnlocked DEF IInv
<1>18. ASSUME NEW t \in Threads, BeginBackup(t) PROVE LocalInv'
  <2>1. /\ \A u \in Threads \ {t} : th'[u] = th[u]
        /\ UNCHANGED <<writer, stamped, dirty, busy>> /\ guard' \subseteq guard /\ \A u \in guard \ {t} : u \in guard'
    BY <1>18, BeginBackupEffect DEF IInv, ThTo
  <2>2. Writing(t)' <=> Writing(t)
    BY <1>18, BeginBackupEffect DEF IInv, ThTo, IsThread, Writing, At
  <2>3. Inside(t)' => t \in guard' \/ (HoldsPage(t)' /\ Marking(t)' /\ th'[t].op = "change")
    BY <1>18, BeginBackupEffect DEF IInv, HoldsPage, Entering, Marking, Inside, Writing, ThTo, IsThread, At, LocalInv
  <2>4. \A p \in Procs : Readers(p)' \subseteq Readers(p)
    BY <2>1, ReadersLess DEF IInv
  <2> QED
    BY <2>1, <2>2, <2>3, <2>4, LocalKept DEF IInv
<1>19. ASSUME NEW t \in Threads, EndBackup(t) PROVE LocalInv'
  <2>1. /\ \A u \in Threads \ {t} : th'[u] = th[u]
        /\ UNCHANGED <<writer, stamped, dirty, busy>> /\ guard' \subseteq guard /\ \A u \in guard \ {t} : u \in guard'
    BY <1>19, EndBackupEffect DEF IInv, ThTo
  <2>2. Writing(t)' <=> Writing(t)
    BY <1>19, EndBackupEffect DEF IInv, ThTo, IsThread, Writing, At
  <2>3. Inside(t)' => t \in guard' \/ (HoldsPage(t)' /\ Marking(t)' /\ th'[t].op = "change")
    BY <1>19, EndBackupEffect DEF IInv, HoldsPage, Entering, Marking, Inside, Writing, ThTo, IsThread, At, LocalInv
  <2>4. \A p \in Procs : Readers(p)' \subseteq Readers(p)
    BY <2>1, ReadersLess DEF IInv
  <2> QED
    BY <2>1, <2>2, <2>3, <2>4, LocalKept DEF IInv
<1>20. ASSUME NEW t \in Threads, NEW pg \in Pages, Merge(t, pg) PROVE LocalInv'
  <2>1. /\ \A u \in Threads \ {t} : th'[u] = th[u]
        /\ UNCHANGED <<writer, stamped, guard, dirty>>
        /\ UNCHANGED busy \/ (busy[pg] = None /\ dirty[pg] \in {None, Home[t]} /\ busy' = [busy EXCEPT ![pg] = t])
    BY <1>20, MergeEffect DEF IInv, ThTo
  <2>2. Writing(t)' <=> Writing(t)
    BY <1>20, MergeEffect DEF IInv, ThTo, IsThread, Writing
  <2>3. Inside(t)' => t \in guard' \/ (HoldsPage(t)' /\ Marking(t)' /\ th'[t].op = "change")
    <3>1. Inside(t) /\ ~Marking(t)
      BY <1>20, MergeEffect DEF IInv, ThreadInv, Fits, Inside, Marking
    <3> QED
      BY <2>1, <3>1 DEF IInv, LocalInv
  <2>4. \A p \in Procs : Readers(p)' \subseteq Readers(p)
    <3>1. CASE UNCHANGED busy
      BY <2>1, <3>1, ReadersLess DEF IInv
    <3>2. CASE busy[pg] = None /\ dirty[pg] \in {None, Home[t]} /\ busy' = [busy EXCEPT ![pg] = t]
      <4>1. \A q \in Pages \ {pg} : busy'[q] = busy[q]
        BY <3>2 DEF IInv, TypeInv, DataType
      <4>2. busy'[pg] = t /\ stamped \subseteq Pages
        BY <3>2 DEF IInv, TypeInv, DataType
      <4>3. pg \in stamped => dirty[pg] = Home[t]
        BY <3>2 DEF IInv, PageInv
      <4> QED
        BY <2>1, <4>1, <4>2, <4>3, ReadersLess DEF IInv
    <3> QED
      BY <2>1, <3>1, <3>2
  <2> QED
    BY <2>1, <2>2, <2>3, <2>4, LocalKept DEF IInv
<1>21. ASSUME NEW t \in Threads, NEW pg \in Pages, Fetch(t, pg) PROVE LocalInv'
  <2>1. /\ \A u \in Threads \ {t} : th'[u] = th[u]
        /\ UNCHANGED <<writer, stamped, guard, dirty>>
        /\ UNCHANGED busy \/ (busy[pg] = None /\ dirty[pg] \in {None, Home[t]} /\ busy' = [busy EXCEPT ![pg] = t])
    BY <1>21, FetchEffect DEF IInv, ThTo
  <2>2. Writing(t)' <=> Writing(t)
    BY <1>21, FetchEffect DEF IInv, ThTo, IsThread, Writing
  <2>3. Inside(t)' => t \in guard' \/ (HoldsPage(t)' /\ Marking(t)' /\ th'[t].op = "change")
    BY <1>21, FetchEffect DEF IInv, ThTo, IsThread, Inside, HoldsPage, Marking
  <2>4. \A p \in Procs : Readers(p)' \subseteq Readers(p)
    <3>1. CASE UNCHANGED busy
      BY <2>1, <3>1, ReadersLess DEF IInv
    <3>2. CASE busy[pg] = None /\ dirty[pg] \in {None, Home[t]} /\ busy' = [busy EXCEPT ![pg] = t]
      <4>1. \A q \in Pages \ {pg} : busy'[q] = busy[q]
        BY <3>2 DEF IInv, TypeInv, DataType
      <4>2. busy'[pg] = t /\ stamped \subseteq Pages
        BY <3>2 DEF IInv, TypeInv, DataType
      <4>3. pg \in stamped => dirty[pg] = Home[t]
        BY <3>2 DEF IInv, PageInv
      <4> QED
        BY <2>1, <4>1, <4>2, <4>3, ReadersLess DEF IInv
    <3> QED
      BY <2>1, <3>1, <3>2
  <2> QED
    BY <2>1, <2>2, <2>3, <2>4, LocalKept DEF IInv
<1>22. ASSUME NEW pg \in Pages, Write(pg) PROVE LocalInv'
  <2>1. /\ dirty' = [dirty EXCEPT ![pg] = None] /\ stamped' = stamped \ {pg}
        /\ UNCHANGED <<busy, guard, writer>>
    BY <1>22, WriteEffect DEF IInv
  <2>2. \A u \in Threads : /\ HoldsPage(u)' <=> HoldsPage(u)
                           /\ Marking(u)' <=> Marking(u)
                           /\ Inside(u)' <=> Inside(u)
                           /\ Writing(u)' <=> Writing(u)
                           /\ th'[u].op = th[u].op
    BY <1>22, WriteEffect DEF IInv, IsThread, HoldsPage, Entering, Marking, Inside, Writing
  <2>3. \A q \in Pages \ {pg} : dirty'[q] = dirty[q]
    BY <2>1 DEF IInv, TypeInv, DataType
  <2>4. \A p \in Procs : Readers(p)' \subseteq Readers(p)
    <3>1. stamped' \subseteq Pages
      BY <2>1 DEF IInv, TypeInv, DataType
    <3> QED
      BY <2>1, <2>3, <3>1, ReadersLess DEF IInv
  <2>5. \A u \in Threads : Inside(u)' => u \in guard' \/ (HoldsPage(u)' /\ Marking(u)' /\ th'[u].op = "change")
    BY <2>1, <2>2 DEF IInv, LocalInv
  <2>6. \A p \in Procs, u \in Threads : writer'[p] = u <=> Home[u] = p /\ Writing(u)'
    BY <2>1, <2>2 DEF IInv, LocalInv
  <2>7. \A p \in Procs : writer'[p] # None => Readers(p)' = {}
    BY <2>1, <2>4 DEF IInv, LocalInv
  <2> QED
    BY <2>5, <2>6, <2>7 DEF LocalInv
<1>23. ASSUME NEW p \in Procs, Grant(p) PROVE LocalInv'
  BY <1>23, GrantEffect DEF IInv, LocalInv, HoldsPage, Entering, Marking, Inside, Writing, Readers
<1>24. ASSUME NEW p \in Procs, Ast(p) PROVE LocalInv'
  BY <1>24, AstEffect DEF IInv, LocalInv, HoldsPage, Entering, Marking, Inside, Writing, Readers
<1>25. ASSUME NEW p \in Procs, AstTry(p) PROVE LocalInv'
  BY <1>25, AstEffect DEF IInv, LocalInv, HoldsPage, Entering, Marking, Inside, Writing, Readers
<1>26. ASSUME NEW p \in Procs, AstSet(p) PROVE LocalInv'
  BY <1>26, AstEffect DEF IInv, LocalInv, HoldsPage, Entering, Marking, Inside, Writing, Readers
<1>27. ASSUME NEW p \in Procs, Crash(p) PROVE LocalInv'
  <2>1. /\ dirty' = [pg \in Pages |-> IF dirty[pg] = p THEN None ELSE dirty[pg]]
        /\ busy' = [pg \in Pages |-> IF busy[pg] # None /\ Home[busy[pg]] = p THEN None ELSE busy[pg]]
        /\ guard' = {t \in guard : Home[t] # p} /\ writer' = [writer EXCEPT ![p] = None]
        /\ stamped' = stamped \ (Readers(p) \ Threads)
    BY <1>27, CrashEffect DEF IInv
  <2>2. \A u \in Threads : IF Home[u] = p THEN ~Inside(u)' /\ ~Writing(u)'
                           ELSE /\ HoldsPage(u)' <=> HoldsPage(u)
                                /\ Marking(u)' <=> Marking(u)
                                /\ Inside(u)' <=> Inside(u)
                                /\ Writing(u)' <=> Writing(u)
                                /\ th'[u].op = th[u].op
    <3>1. \A u \in Threads : IF Home[u] = p THEN th'[u].pc = "idle" /\ th'[u].op = "none"
                             ELSE th'[u] = th[u]
      BY <1>27, CrashEffect DEF IInv, IsThread
    <3> QED
      BY <3>1 DEF HoldsPage, Entering, Marking, Inside, Writing
  <2>3. \A q \in Procs : Readers(q)' \subseteq Readers(q)
    <3>1. guard' \subseteq guard /\ stamped' \subseteq stamped /\ stamped' \subseteq Pages
      BY <2>1 DEF IInv, TypeInv, DataType
    <3>2. \A pg \in Pages : (dirty'[pg] = None \/ dirty'[pg] = dirty[pg]) /\ (busy'[pg] = None \/ busy'[pg] = busy[pg])
      BY <2>1
    <3> QED
      BY <3>1, <3>2, ReadersLess, TypedThreads DEF IInv
  <2>4. \A u \in Threads : Inside(u)' => u \in guard' \/ (HoldsPage(u)' /\ Marking(u)' /\ th'[u].op = "change")
    BY <2>1, <2>2 DEF IInv, LocalInv
  <2>5. writer'[p] = None /\ \A q \in Procs \ {p} : writer'[q] = writer[q]
    BY <2>1 DEF IInv, TypeInv, ProcType
  <2>6. \A q \in Procs, u \in Threads : writer'[q] = u <=> Home[u] = q /\ Writing(u)'
    BY <2>2, <2>5, TypedThreads DEF IInv, LocalInv
  <2>7. \A q \in Procs : writer'[q] # None => Readers(q)' = {}
    BY <2>3, <2>5 DEF IInv, LocalInv
  <2> QED
    BY <2>4, <2>6, <2>7 DEF LocalInv
<1>28. CASE UNCHANGED vars
  BY <1>28 DEF vars, disk, pool, locks, IInv, LocalInv, Readers, HoldsPage, Entering, Marking, Inside, Writing
<1> QED
  BY <1>1, <1>2, <1>3, <1>4, <1>5, <1>6, <1>7, <1>8, <1>9, <1>10, <1>11, <1>12, <1>13, <1>14, <1>15, <1>16, <1>17, <1>18, <1>19, <1>20, <1>21, <1>22, <1>23, <1>24, <1>25, <1>26, <1>27, <1>28 DEF Next, ThreadStep

\* The lock of p stays as it is, ...
LockKept(p) == GlTo(p, gl[p].phys, gl[p].want, gl[p].pending, gl[p].writer, gl[p].blocking)

\* ... or goes, and with it the knowledge of the state.
LockGone(p) ==
  /\ gl[p].pending = None /\ ~gl[p].writer
  /\ GlTo(p, "none", gl[p].want, None, FALSE, FALSE)
  /\ bm'[p].state = "unknown"

\* Nothing of the process is inside.
Alone(p) ==
  /\ \A pg \in Pages : dirty[pg] # p
  /\ \A t \in Threads : Home[t] = p => ~Inside(t)

\* A reader leaves: it gives the lock up only when it is the last one.
LEMMA ReadLeaves ==
  ASSUME IInv, NEW t \in Threads, Read(t)
  PROVE  \/ LockKept(Home[t]) /\ bm'[Home[t]].state = bm[Home[t]].state
         \/ LockGone(Home[t]) /\ Alone(Home[t])'
<1> DEFINE p == Home[t]
           pg == th[t].page
           late == Late(p, Readers(p) \ {t})
           table == IF bm[p].state # "normal" /\ pg \notin bm[p].table THEN DOMAIN delta ELSE bm[p].table
<1>1. th[t].pc = "read" /\ UNCHANGED dirty
  BY ReadEffect DEF IInv
<1>2. CASE th[t].op = "merge"
  <2>1. UNCHANGED gl /\ BmTo(p, bm[p].state, bm[p].scn, table, bm[p].master)
    BY <1>2, ReadEffect DEF IInv
  <2>2. LockKept(p)
    BY <2>1, Stays, TypedThreads DEF IInv, LockKept
  <2> QED
    BY <2>1, <2>2 DEF BmTo, IsManager
<1>3. CASE th[t].op = "change" /\ ~late
  <2>1. /\ GlTo(p, gl[p].phys, gl[p].want, gl[p].pending, gl[p].writer, gl[p].blocking)
        /\ BmTo(p, bm[p].state, bm[p].scn, table, bm[p].master)
    BY <1>3, ReadEffect DEF IInv
  <2> QED
    BY <2>1 DEF LockKept, BmTo, IsManager
<1>4. CASE th[t].op = "change" /\ late
  <2>1. /\ GlTo(p, "none", gl[p].want, gl[p].pending, gl[p].writer, FALSE)
        /\ BmTo(p, "unknown", bm[p].scn, table, bm[p].master)
        /\ \/ ThTo(t, "enter", th[t].op, "mark", th[t].page, th[t].left)
           \/ ThTo(t, "idle", "none", "none", None, {})
    BY <1>4, ReadEffect DEF IInv
  <2>2. /\ gl[p].pending = None /\ ~gl[p].writer
        /\ \A q \in Pages : dirty[q] = p => q = t
        /\ \A u \in Threads : Home[u] = p /\ Inside(u) => u = t
    BY <1>1, <1>4, LastReader, TypedThreads DEF IInv
  <2>3. ~Inside(t)' /\ \A u \in Threads \ {t} : Inside(u)' <=> Inside(u)
    BY <1>4, <2>1 DEF ThTo, IsThread, Inside
  <2>4. Alone(p)'
    BY <1>1, <2>2, <2>3, TypedThreads DEF IInv, Alone
  <2>5. LockGone(p)
    <3>1. gl[p].writer = FALSE
      BY <2>2, TypedThreads DEF IInv
    <3> QED
      BY <2>1, <2>2, <3>1 DEF LockGone, BmTo, IsManager
  <2> QED
    BY <2>4, <2>5
<1>5. th[t].op \in {"change", "merge"}
  BY ReadEffect DEF IInv
<1> QED
  BY <1>2, <1>3, <1>4, <1>5

LEMMA ReadHeaderLeaves ==
  ASSUME IInv, NEW t \in Threads, ReadHeader(t)
  PROVE  \/ LockKept(Home[t]) /\ bm'[Home[t]].state = bm[Home[t]].state
         \/ LockGone(Home[t]) /\ Alone(Home[t])'
<1> DEFINE p == Home[t]
           late == Late(p, Readers(p) \ {t})
<1>1. th[t].pc \notin {"lockRead", "waitRead"} /\ UNCHANGED dirty
  BY ReadHeaderEffect DEF IInv
<1>2. CASE ~late
  <2>1. /\ GlTo(p, gl[p].phys, gl[p].want, gl[p].pending, gl[p].writer, gl[p].blocking)
        /\ BmTo(p, bm[p].state, bm[p].scn, bm[p].table, bm[p].master)
    BY <1>2, ReadHeaderEffect DEF IInv
  <2> QED
    BY <2>1 DEF LockKept, BmTo, IsManager
<1>3. CASE late
  <2>1. /\ GlTo(p, "none", gl[p].want, gl[p].pending, gl[p].writer, FALSE)
        /\ BmTo(p, "unknown", bm[p].scn, bm[p].table, bm[p].master)
        /\ ThTo(t, "beginWrite", th[t].op, th[t].why, th[t].page, th[t].left)
    BY <1>3, ReadHeaderEffect DEF IInv
  <2>2. /\ gl[p].pending = None /\ ~gl[p].writer
        /\ \A q \in Pages : dirty[q] = p => q = t
        /\ \A u \in Threads : Home[u] = p /\ Inside(u) => u = t
    BY <1>1, <1>3, LastReader, TypedThreads DEF IInv
  <2>3. ~Inside(t)' /\ \A u \in Threads \ {t} : Inside(u)' <=> Inside(u)
    BY ReadHeaderEffect, <2>1 DEF IInv, ThTo, IsThread, Inside, ThreadInv, Fits
  <2>4. Alone(p)'
    BY <1>1, <2>2, <2>3, TypedThreads DEF IInv, Alone
  <2>5. LockGone(p)
    <3>1. gl[p].writer = FALSE
      BY <2>2, TypedThreads DEF IInv
    <3> QED
      BY <2>1, <2>2, <3>1 DEF LockGone, BmTo, IsManager
  <2> QED
    BY <2>4, <2>5
<1> QED
  BY <1>2, <1>3

LEMMA CheckLeaves ==
  ASSUME IInv, NEW t \in Threads, Check(t)
  PROVE  \/ LockKept(Home[t]) /\ bm'[Home[t]].state = bm[Home[t]].state
         \/ LockGone(Home[t]) /\ Alone(Home[t])'
<1> DEFINE p == Home[t]
           late == Late(p, Readers(p) \ {t})
<1>1. th[t].pc \notin {"lockRead", "waitRead"} /\ UNCHANGED dirty
  BY CheckEffect DEF IInv
<1>2. CASE ~late
  <2>1. /\ GlTo(p, gl[p].phys, gl[p].want, gl[p].pending, gl[p].writer, gl[p].blocking)
        /\ \E m \in BOOLEAN : BmTo(p, bm[p].state, bm[p].scn, bm[p].table, m)
    BY <1>2, CheckEffect DEF IInv
  <2> QED
    BY <2>1 DEF LockKept, BmTo, IsManager
<1>3. CASE late
  <2>1. /\ GlTo(p, "none", gl[p].want, gl[p].pending, gl[p].writer, FALSE)
        /\ \E m \in BOOLEAN : BmTo(p, "unknown", bm[p].scn, bm[p].table, m)
        /\ \/ ThTo(t, "flush", "end", "none", None, Dirty(p))
           \/ ThTo(t, "idle", "none", "none", None, {})
    BY <1>3, CheckEffect DEF IInv
  <2>2. /\ gl[p].pending = None /\ ~gl[p].writer
        /\ \A q \in Pages : dirty[q] = p => q = t
        /\ \A u \in Threads : Home[u] = p /\ Inside(u) => u = t
    BY <1>1, <1>3, LastReader, TypedThreads DEF IInv
  <2>3. ~Inside(t)' /\ \A u \in Threads \ {t} : Inside(u)' <=> Inside(u)
    BY <2>1 DEF ThTo, IsThread, Inside
  <2>4. Alone(p)'
    BY <1>1, <2>2, <2>3, TypedThreads DEF IInv, Alone
  <2>5. LockGone(p)
    <3>1. gl[p].writer = FALSE
      BY <2>2, TypedThreads DEF IInv
    <3> QED
      BY <2>1, <2>2, <3>1 DEF LockGone, BmTo, IsManager
  <2> QED
    BY <2>4, <2>5
<1> QED
  BY <1>2, <1>3

LEMMA MergedLeaves ==
  ASSUME IInv, NEW t \in Threads, Merged(t)
  PROVE  \/ LockKept(Home[t]) /\ bm'[Home[t]].state = bm[Home[t]].state
         \/ LockGone(Home[t]) /\ Alone(Home[t])'
<1> DEFINE p == Home[t]
           late == Late(p, Readers(p) \ {t})
<1>1. th[t].pc \notin {"lockRead", "waitRead"} /\ UNCHANGED dirty
  BY MergedEffect DEF IInv
<1>2. CASE ~late
  <2>1. /\ GlTo(p, gl[p].phys, gl[p].want, gl[p].pending, gl[p].writer, gl[p].blocking)
        /\ BmTo(p, bm[p].state, bm[p].scn, bm[p].table, TRUE)
    BY <1>2, MergedEffect DEF IInv
  <2> QED
    BY <2>1 DEF LockKept, BmTo, IsManager
<1>3. CASE late
  <2>1. /\ GlTo(p, "none", gl[p].want, gl[p].pending, gl[p].writer, FALSE)
        /\ BmTo(p, "unknown", bm[p].scn, bm[p].table, TRUE)
        /\ ThTo(t, "flush", "finish", "none", None, Dirty(p))
    BY <1>3, MergedEffect DEF IInv
  <2>2. /\ gl[p].pending = None /\ ~gl[p].writer
        /\ \A q \in Pages : dirty[q] = p => q = t
        /\ \A u \in Threads : Home[u] = p /\ Inside(u) => u = t
    BY <1>1, <1>3, LastReader, TypedThreads DEF IInv
  <2>3. ~Inside(t)' /\ \A u \in Threads \ {t} : Inside(u)' <=> Inside(u)
    BY <2>1 DEF ThTo, IsThread, Inside
  <2>4. Alone(p)'
    BY <1>1, <2>2, <2>3, TypedThreads DEF IInv, Alone
  <2>5. LockGone(p)
    <3>1. gl[p].writer = FALSE
      BY <2>2, TypedThreads DEF IInv
    <3> QED
      BY <2>1, <2>2, <3>1 DEF LockGone, BmTo, IsManager
  <2> QED
    BY <2>4, <2>5
<1> QED
  BY <1>2, <1>3

LEMMA WriteLeaves ==
  ASSUME IInv, NEW pg \in Pages, Write(pg), NEW p \in Procs, dirty[pg] = p
  PROVE  \/ LockKept(p) /\ bm'[p].state = bm[p].state
         \/ LockGone(p) /\ Alone(p)'
<1> DEFINE late == Late(p, Readers(p) \ {pg})
<1>1. busy[pg] = None /\ dirty' = [dirty EXCEPT ![pg] = None]
  BY WriteEffect DEF IInv
<1>2. CASE ~late
  <2>1. /\ GlTo(p, gl[p].phys, gl[p].want, gl[p].pending, gl[p].writer, gl[p].blocking)
        /\ BmTo(p, bm[p].state, bm[p].scn, bm[p].table, bm[p].master)
    BY <1>2, WriteEffect DEF IInv
  <2> QED
    BY <1>1, <2>1 DEF LockKept, BmTo, IsManager
<1>3. CASE late
  <2>1. /\ GlTo(p, "none", gl[p].want, gl[p].pending, gl[p].writer, FALSE)
        /\ BmTo(p, "unknown", bm[p].scn, bm[p].table, bm[p].master)
    BY <1>3, WriteEffect DEF IInv
  <2>2. /\ gl[p].pending = None /\ ~gl[p].writer
        /\ \A q \in Pages : dirty[q] = p => q = pg
        /\ \A u \in Threads : Home[u] = p /\ Inside(u) => u = pg
    BY <1>1, <1>3, LastReader DEF IInv
  <2>3. \A u \in Threads : Inside(u)' <=> Inside(u)
    BY WriteEffect DEF IInv, IsThread, Inside
  <2>4. \A q \in Pages \ {pg} : dirty'[q] = dirty[q]
    BY <1>1 DEF IInv, TypeInv, DataType
  <2>5. dirty'[pg] = None
    BY <1>1 DEF IInv, TypeInv, DataType
  <2>6. p # None
    BY <1>1, TypedThreads DEF IInv
  <2>7. Alone(p)'
    BY <2>2, <2>3, <2>4, <2>5, <2>6, TypedThreads DEF IInv, Alone
  <2>8. LockGone(p)
    <3>1. gl[p].writer = FALSE
      BY <1>1, <2>2, TypedThreads DEF IInv
    <3> QED
      BY <2>1, <2>2, <3>1 DEF LockGone, BmTo, IsManager
  <2> QED
    BY <1>1, <2>7, <2>8
<1> QED
  BY <1>1, <1>2, <1>3

\* What is not a wait for the global lock, nor work under its write lock.
Aside(pc) == pc \notin {"waitRead", "waitWrite", "locked"}

\* The lock of p is kept, with an AST that finds it in use or not, lowered or gone.
LockLowered(p) ==
  \/ \E blocking \in BOOLEAN :
       /\ GlTo(p, gl[p].phys, gl[p].want, gl[p].pending, gl[p].writer, blocking)
       /\ blocking => gl[p].blocking \/ writer[p] # None
  \/ LockGone(p)
  \/ /\ gl[p].phys = "write" /\ gl[p].pending = None /\ ~gl[p].writer
     /\ \E blocking \in BOOLEAN : GlTo(p, "read", gl[p].want, None, FALSE, blocking) /\ (blocking => gl[p].blocking)

\* Nobody gets the lock, or goes on with it.
LEMMA GlobalKept ==
  ASSUME IInv, NEW p \in Procs, UNCHANGED gl \/ LockLowered(p),
         \A u \in Threads : th'[u].pc = th[u].pc \/ (Aside(th[u].pc) /\ Aside(th'[u].pc)),
         \A q \in Procs : writer[q] # None => writer'[q] # None
  PROVE  GlobalInv'
<1> DEFINE Lower(q) ==
      \/ gl'[q].phys = gl[q].phys
      \/ gl'[q].phys = "none" /\ gl[q].pending = None /\ ~gl[q].writer
      \/ gl'[q].phys = "read" /\ gl[q].phys = "write" /\ gl[q].pending = None /\ ~gl[q].writer
<1>1. ASSUME NEW q \in Procs
      PROVE  /\ Lower(q)
             /\ gl'[q].want = gl[q].want /\ gl'[q].pending = gl[q].pending /\ gl'[q].writer = gl[q].writer
             /\ gl'[q].blocking => gl[q].blocking \/ writer[q] # None
  <2>1. CASE UNCHANGED gl
    BY <2>1
  <2>2. CASE LockLowered(p) /\ q # p
    <3>1. gl'[q] = gl[q]
      BY <2>2 DEF LockLowered, LockGone, GlTo
    <3> QED
      BY <3>1
  <2>3. CASE LockLowered(p) /\ q = p
    <3>1. gl[q].writer \in BOOLEAN /\ gl[q].blocking \in BOOLEAN
      BY TypedThreads DEF IInv
    <3>2. CASE LockGone(p)
      BY <2>3, <3>1, <3>2 DEF LockGone, GlTo, IsLock
    <3>3. ASSUME NEW blocking \in BOOLEAN,
                 GlTo(p, gl[p].phys, gl[p].want, gl[p].pending, gl[p].writer, blocking),
                 blocking => gl[p].blocking \/ writer[p] # None
          PROVE  /\ Lower(q)
                 /\ gl'[q].want = gl[q].want /\ gl'[q].pending = gl[q].pending /\ gl'[q].writer = gl[q].writer
                 /\ gl'[q].blocking => gl[q].blocking \/ writer[q] # None
      BY <2>3, <3>1, <3>3 DEF GlTo, IsLock
    <3>4. ASSUME NEW blocking \in BOOLEAN, gl[p].phys = "write", gl[p].pending = None, ~gl[p].writer,
                 GlTo(p, "read", gl[p].want, None, FALSE, blocking), blocking => gl[p].blocking
          PROVE  /\ Lower(q)
                 /\ gl'[q].want = gl[q].want /\ gl'[q].pending = gl[q].pending /\ gl'[q].writer = gl[q].writer
                 /\ gl'[q].blocking => gl[q].blocking \/ writer[q] # None
      BY <2>3, <3>1, <3>4 DEF GlTo, IsLock
    <3> QED
      BY <2>3, <3>2, <3>3, <3>4 DEF LockLowered
  <2> QED
    BY <2>1, <2>2, <2>3
<1>2. Exclusive'
  BY <1>1 DEF IInv, GlobalInv, Exclusive
<1>3. Waiting'
  <2>1. \A q \in Procs : gl'[q].want # "none" => gl'[q].phys = "none" /\ gl'[q].pending # None
    BY <1>1 DEF IInv, GlobalInv, Waiting
  <2>2. \A u \in Threads : th'[u].pc \in {"waitRead", "waitWrite"} <=> th[u].pc \in {"waitRead", "waitWrite"}
    BY DEF Aside
  <2>3. \A u \in Threads : th'[u].pc \in {"waitRead", "waitWrite"} <=> gl'[Home[u]].pending = u
    BY <1>1, <2>2, TypedThreads DEF IInv, GlobalInv, Waiting
  <2>4. \A q \in Procs : gl'[q].pending # None => Home[gl'[q].pending] = q
    BY <1>1 DEF IInv, GlobalInv, Waiting
  <2>5. ASSUME NEW u \in Threads, NEW level \in {"read", "write"},
               At(u, IF level = "read" THEN "waitRead" ELSE "waitWrite")'
        PROVE  gl'[Home[u]].want = level \/ (gl'[Home[u]].want = "none" /\ gl'[Home[u]].phys = level)
    <3>1. At(u, IF level = "read" THEN "waitRead" ELSE "waitWrite")
      BY <2>5 DEF Aside, At
    <3>2. gl[Home[u]].pending = u /\ u # None
      BY <2>5, <2>3, <1>1, TypedThreads DEF IInv, At
    <3>3. gl[Home[u]].want = level \/ (gl[Home[u]].want = "none" /\ gl[Home[u]].phys = level)
      BY <3>1 DEF IInv, GlobalInv, Waiting
    <3> QED
      BY <1>1, <3>2, <3>3, TypedThreads DEF IInv
  <2> QED
    BY <2>1, <2>3, <2>4, <2>5 DEF Waiting
<1>4. Holding'
  <2>1. \A u \in Threads : At(u, "locked")' <=> At(u, "locked")
    BY DEF At, Aside
  <2> QED
    BY <1>1, <2>1, TypedThreads DEF IInv, GlobalInv, Holding
<1>5. Blocked'
  BY <1>1 DEF IInv, GlobalInv, Blocked
<1> QED
  BY <1>2, <1>3, <1>4, <1>5 DEF GlobalInv

\* The writer unlocks, and lets the others in or keeps the lock.
LEMMA GlobalUnlocked ==
  ASSUME IInv, NEW t \in Threads, At(t, "locked"), NEW phys \in Level,
         GlTo(Home[t], phys, "none", None, FALSE, FALSE),
         \A u \in Threads \ {t} : th'[u] = th[u], Aside(th'[t].pc),
         writer' = [writer EXCEPT ![Home[t]] = None]
  PROVE  GlobalInv'
<1> DEFINE p == Home[t]
<1>1. /\ p \in Procs /\ writer[p] = t /\ gl[p].phys = "write" /\ gl[p].pending = None /\ gl[p].want = "none"
      /\ \A q \in Procs \ {p} : gl[q].phys = "none"
  BY LockedAlone, TypedThreads DEF IInv
<1>2. /\ \A q \in Procs \ {p} : gl'[q] = gl[q]
      /\ gl'[p].phys = phys /\ gl'[p].want = "none" /\ gl'[p].pending = None /\ ~gl'[p].writer /\ ~gl'[p].blocking
  BY DEF GlTo, IsLock
<1>3. \A u \in Threads : Home[u] = p /\ u # t => ~At(u, "locked")
  BY <1>1 DEF IInv, LocalInv, Writing, At
<1> HIDE DEF p
<1>4. Exclusive'
  BY <1>1, <1>2 DEF Exclusive
<1>5. Waiting'
  <2>1. \A q \in Procs : gl'[q].want # "none" => gl'[q].phys = "none" /\ gl'[q].pending # None
    BY <1>1, <1>2 DEF IInv, GlobalInv, Waiting
  <2>2. \A u \in Threads : th'[u].pc \in {"waitRead", "waitWrite"} <=> th[u].pc \in {"waitRead", "waitWrite"}
    BY DEF Aside, At
  <2>3. \A u \in Threads : th'[u].pc \in {"waitRead", "waitWrite"} <=> gl'[Home[u]].pending = u
    BY <1>1, <1>2, <2>2, TypedThreads DEF IInv, GlobalInv, Waiting
  <2>4. \A q \in Procs : gl'[q].pending # None => Home[gl'[q].pending] = q
    BY <1>1, <1>2 DEF IInv, GlobalInv, Waiting
  <2>5. ASSUME NEW u \in Threads, NEW level \in {"read", "write"},
               At(u, IF level = "read" THEN "waitRead" ELSE "waitWrite")'
        PROVE  gl'[Home[u]].want = level \/ (gl'[Home[u]].want = "none" /\ gl'[Home[u]].phys = level)
    <3>1. At(u, IF level = "read" THEN "waitRead" ELSE "waitWrite")
      BY <2>5 DEF Aside, At
    <3>2. gl'[Home[u]].pending = u /\ u # None /\ Home[u] \in Procs
      BY <2>5, <2>3, TypedThreads DEF IInv, At
    <3>3. gl[Home[u]].want = level \/ (gl[Home[u]].want = "none" /\ gl[Home[u]].phys = level)
      BY <3>1 DEF IInv, GlobalInv, Waiting
    <3> QED
      BY <1>2, <3>2, <3>3
  <2> QED
    BY <2>1, <2>3, <2>4, <2>5 DEF Waiting
<1>6. Holding'
  <2>1. \A u \in Threads : At(u, "locked")' <=> At(u, "locked") /\ u # t
    BY DEF At, Aside
  <2> QED
    BY <1>1, <1>2, <1>3, <2>1, TypedThreads DEF IInv, GlobalInv, Holding
<1>7. Blocked'
  <2>1. \A q \in Procs \ {p} : writer'[q] = writer[q]
    BY <1>1 DEF IInv, TypeInv, ProcType, p
  <2> QED
    BY <1>2, <2>1 DEF IInv, GlobalInv, Blocked
<1> QED
  BY <1>4, <1>5, <1>6, <1>7 DEF GlobalInv

\* A thread asks for the lock.
LEMMA GlobalAsks ==
  ASSUME IInv, NEW t \in Threads, Aside(th[t].pc), NEW level \in {"read", "write"},
         gl[Home[t]].pending = None, ~gl[Home[t]].writer,
         NEW blocking \in BOOLEAN, blocking => gl[Home[t]].blocking,
         GlTo(Home[t], "none", level, t, gl[Home[t]].writer, blocking),
         th'[t].pc = IF level = "read" THEN "waitRead" ELSE "waitWrite",
         \A u \in Threads \ {t} : th'[u] = th[u], UNCHANGED writer
  PROVE  GlobalInv'
<1> DEFINE p == Home[t]
<1>1. /\ p \in Procs /\ gl[p].pending = None /\ gl[p].writer = FALSE /\ gl[p].blocking \in BOOLEAN /\ t # None
  BY TypedThreads DEF IInv
<1>2. /\ \A q \in Procs \ {p} : gl'[q] = gl[q]
      /\ gl'[p].phys = "none" /\ gl'[p].want = level /\ gl'[p].pending = t /\ ~gl'[p].writer
      /\ gl'[p].blocking => gl[p].blocking
  BY <1>1 DEF GlTo, IsLock
<1>3. p = Home[t]
  OBVIOUS
<1>4. \A u \in Threads : Home[u] = p => ~At(u, "locked")
  BY <1>1 DEF IInv, GlobalInv, Holding
<1> HIDE DEF p
<1>5. Exclusive'
  BY <1>1, <1>2 DEF IInv, GlobalInv, Exclusive
<1>6. Waiting'
  <2>1. \A q \in Procs : gl'[q].want # "none" => gl'[q].phys = "none" /\ gl'[q].pending # None
    BY <1>1, <1>2 DEF IInv, GlobalInv, Waiting
  <2>2. \A u \in Threads : th'[u].pc \in {"waitRead", "waitWrite"} <=> th[u].pc \in {"waitRead", "waitWrite"} \/ u = t
    OBVIOUS
  <2>3. \A u \in Threads : th'[u].pc \in {"waitRead", "waitWrite"} <=> gl'[Home[u]].pending = u
    BY <1>1, <1>2, <1>3, <2>2, TypedThreads DEF IInv, GlobalInv, Waiting
  <2>4. \A q \in Procs : gl'[q].pending # None => Home[gl'[q].pending] = q
    BY <1>1, <1>2, <1>3 DEF IInv, GlobalInv, Waiting
  <2>5. ASSUME NEW u \in Threads, NEW l \in {"read", "write"},
               At(u, IF l = "read" THEN "waitRead" ELSE "waitWrite")'
        PROVE  gl'[Home[u]].want = l \/ (gl'[Home[u]].want = "none" /\ gl'[Home[u]].phys = l)
    <3>1. CASE u = t
      BY <1>2, <1>3, <2>5, <3>1 DEF At
    <3>2. CASE u # t
      <4>1. At(u, IF l = "read" THEN "waitRead" ELSE "waitWrite")
        BY <2>5, <3>2 DEF At
      <4>2. gl'[Home[u]].pending = u /\ Home[u] \in Procs
        BY <2>5, <2>3, TypedThreads DEF IInv, At
      <4>3. gl[Home[u]].want = l \/ (gl[Home[u]].want = "none" /\ gl[Home[u]].phys = l)
        BY <4>1 DEF IInv, GlobalInv, Waiting
      <4> QED
        BY <1>2, <3>2, <4>2, <4>3
    <3> QED
      BY <3>1, <3>2
  <2> QED
    BY <2>1, <2>3, <2>4, <2>5 DEF Waiting
<1>7. Holding'
  <2>1. \A u \in Threads : At(u, "locked")' <=> At(u, "locked")
    BY DEF At, Aside
  <2> QED
    BY <1>1, <1>2, <1>4, <2>1, TypedThreads DEF IInv, GlobalInv, Holding
<1>8. Blocked'
  BY <1>1, <1>2 DEF IInv, GlobalInv, Blocked
<1> QED
  BY <1>5, <1>6, <1>7, <1>8 DEF GlobalInv

\* A thread goes on with the lock it has been granted.
LEMMA GlobalGoesOn ==
  ASSUME IInv, NEW t \in Threads, NEW level \in {"read", "write"},
         At(t, IF level = "read" THEN "waitRead" ELSE "waitWrite"), gl[Home[t]].want = "none",
         GlTo(Home[t], gl[Home[t]].phys, gl[Home[t]].want, None, level = "write" \/ gl[Home[t]].writer, gl[Home[t]].blocking),
         IF level = "read" THEN Aside(th'[t].pc) ELSE th'[t].pc = "locked",
         \A u \in Threads \ {t} : th'[u] = th[u], UNCHANGED writer
  PROVE  GlobalInv'
<1> DEFINE p == Home[t]
<1>1. p \in Procs /\ gl[p].pending = t /\ gl[p].want = "none" /\ gl[p].phys = level
  BY TypedThreads DEF IInv, GlobalInv, Waiting, At
<1>2. /\ \A q \in Procs \ {p} : gl'[q] = gl[q]
      /\ gl'[p].phys = level /\ gl'[p].want = "none" /\ gl'[p].pending = None /\ gl'[p].blocking = gl[p].blocking
      /\ gl'[p].writer <=> level = "write" \/ gl[p].writer
  BY <1>1 DEF GlTo, IsLock
<1>3. p = Home[t] /\ ~At(t, "locked")
  BY DEF At
<1> HIDE DEF p
<1>4. Exclusive'
  BY <1>1, <1>2 DEF IInv, GlobalInv, Exclusive
<1>5. Waiting'
  <2>1. \A q \in Procs : gl'[q].want # "none" => gl'[q].phys = "none" /\ gl'[q].pending # None
    BY <1>1, <1>2 DEF IInv, GlobalInv, Waiting
  <2>2. \A u \in Threads : th'[u].pc \in {"waitRead", "waitWrite"} <=> th[u].pc \in {"waitRead", "waitWrite"} /\ u # t
    BY DEF Aside
  <2>3. \A u \in Threads : th'[u].pc \in {"waitRead", "waitWrite"} <=> gl'[Home[u]].pending = u
    BY <1>1, <1>2, <1>3, <2>2, TypedThreads DEF IInv, GlobalInv, Waiting
  <2>4. \A q \in Procs : gl'[q].pending # None => Home[gl'[q].pending] = q
    BY <1>1, <1>2 DEF IInv, GlobalInv, Waiting
  <2>5. ASSUME NEW u \in Threads, NEW l \in {"read", "write"},
               At(u, IF l = "read" THEN "waitRead" ELSE "waitWrite")'
        PROVE  gl'[Home[u]].want = l \/ (gl'[Home[u]].want = "none" /\ gl'[Home[u]].phys = l)
    <3>1. gl'[Home[u]].pending = u /\ Home[u] \in Procs /\ u # None
      BY <2>5, <2>3, TypedThreads DEF IInv, At
    <3>2. u # t
      BY <2>2, <2>5 DEF At
    <3>3. At(u, IF l = "read" THEN "waitRead" ELSE "waitWrite")
      BY <2>5, <3>2 DEF At
    <3>4. gl[Home[u]].want = l \/ (gl[Home[u]].want = "none" /\ gl[Home[u]].phys = l)
      BY <3>3 DEF IInv, GlobalInv, Waiting
    <3> QED
      BY <1>2, <3>1, <3>4
  <2> QED
    BY <2>1, <2>3, <2>4, <2>5 DEF Waiting
<1>6. Holding'
  <2>1. \A u \in Threads \ {t} : At(u, "locked")' <=> At(u, "locked")
    BY DEF At
  <2>2. At(t, "locked")' <=> level = "write"
    BY DEF At, Aside
  <2>3. ASSUME NEW u \in Threads, At(u, "locked")' PROVE gl'[Home[u]].writer /\ gl'[Home[u]].phys = "write"
    <3>1. CASE u = t
      BY <1>2, <1>3, <2>2, <2>3, <3>1
    <3>2. CASE u # t
      <4>1. gl[Home[u]].writer /\ gl[Home[u]].phys = "write" /\ Home[u] \in Procs
        BY <2>1, <2>3, <3>2, TypedThreads DEF IInv, GlobalInv, Holding
      <4> QED
        BY <1>1, <1>2, <4>1
    <3> QED
      BY <3>1, <3>2
  <2>4. \A q \in Procs : gl'[q].writer => \E u \in Threads : Home[u] = q /\ At(u, "locked")'
    BY <1>1, <1>2, <1>3, <2>1, <2>2 DEF IInv, GlobalInv, Holding
  <2> QED
    BY <2>3, <2>4 DEF Holding
<1>7. Blocked'
  BY <1>1, <1>2 DEF IInv, GlobalInv, Blocked
<1> QED
  BY <1>4, <1>5, <1>6, <1>7 DEF GlobalInv

\* The lock manager grants the lock.
LEMMA GlobalGranted ==
  ASSUME IInv, NEW p \in Procs, Grant(p)
  PROVE  GlobalInv'
<1>1. /\ gl[p].want # "none"
      /\ \A q \in Procs \ {p} : gl[q].phys = "none" \/ (gl[q].phys = "read" /\ gl[p].want = "read")
      /\ UNCHANGED <<bm, th, writer>>
  BY GrantEffect DEF IInv
<1>2. /\ \A q \in Procs \ {p} : gl'[q] = gl[q]
      /\ gl'[p].phys = gl[p].want /\ gl'[p].want = "none" /\ gl'[p].pending = gl[p].pending
      /\ gl'[p].blocking = gl[p].blocking /\ gl'[p].writer = gl[p].writer
  BY GrantEffect DEF IInv, GlTo, IsLock
<1>3. gl[p].phys = "none" /\ gl[p].pending # None
  BY <1>1 DEF IInv, GlobalInv, Waiting
<1>4. Exclusive'
  BY <1>1, <1>2 DEF IInv, GlobalInv, Exclusive
<1>5. Waiting'
  <2>1. \A q \in Procs : gl'[q].want # "none" => gl'[q].phys = "none" /\ gl'[q].pending # None
    BY <1>1, <1>2 DEF IInv, GlobalInv, Waiting
  <2>2. \A u \in Threads : th'[u].pc \in {"waitRead", "waitWrite"} <=> gl'[Home[u]].pending = u
    BY <1>1, <1>2, TypedThreads DEF IInv, GlobalInv, Waiting
  <2>3. \A q \in Procs : gl'[q].pending # None => Home[gl'[q].pending] = q
    BY <1>1, <1>2 DEF IInv, GlobalInv, Waiting
  <2>4. ASSUME NEW u \in Threads, NEW l \in {"read", "write"},
               At(u, IF l = "read" THEN "waitRead" ELSE "waitWrite")'
        PROVE  gl'[Home[u]].want = l \/ (gl'[Home[u]].want = "none" /\ gl'[Home[u]].phys = l)
    <3>1. Home[u] \in Procs
      BY TypedThreads DEF IInv
    <3>2. At(u, IF l = "read" THEN "waitRead" ELSE "waitWrite")
      BY <1>1, <2>4 DEF At
    <3>3. gl[Home[u]].want = l \/ (gl[Home[u]].want = "none" /\ gl[Home[u]].phys = l)
      BY <3>2 DEF IInv, GlobalInv, Waiting
    <3> QED
      BY <1>1, <1>2, <3>1, <3>3
  <2> QED
    BY <2>1, <2>2, <2>3, <2>4 DEF Waiting
<1>6. Holding'
  <2>1. \A u \in Threads : At(u, "locked")' <=> At(u, "locked")
    BY <1>1 DEF At
  <2>2. \A q \in Procs : gl'[q].writer = gl[q].writer /\ (gl[q].phys = "write" => gl'[q].phys = "write")
    BY <1>2, <1>3
  <2> QED
    BY <2>1, <2>2, TypedThreads DEF IInv, GlobalInv, Holding
<1>7. Blocked'
  BY <1>1, <1>2 DEF IInv, GlobalInv, Blocked
<1> QED
  BY <1>4, <1>5, <1>6, <1>7 DEF GlobalInv

\* A process dies, with its threads.
LEMMA GlobalCrashed ==
  ASSUME IInv, NEW p \in Procs, Crash(p)
  PROVE  GlobalInv'
<1>1. /\ writer' = [writer EXCEPT ![p] = None]
      /\ \A t \in Threads : IF Home[t] = p THEN th'[t].pc = "idle" ELSE th'[t] = th[t]
  BY CrashEffect DEF IInv, IsThread
<1>2. /\ \A q \in Procs \ {p} : gl'[q] = gl[q]
      /\ gl'[p].phys = "none" /\ gl'[p].want = "none" /\ gl'[p].pending = None
      /\ ~gl'[p].blocking /\ ~gl'[p].writer
  BY CrashEffect DEF IInv, GlTo, IsLock
<1>3. ~bm'[p].master /\ \A q \in Procs \ {p} : bm'[q] = bm[q]
  BY CrashEffect DEF IInv, BmTo, IsManager
<1>4. Exclusive'
  BY <1>2 DEF IInv, GlobalInv, Exclusive
<1>5. Waiting'
  <2>1. \A q \in Procs : gl'[q].want # "none" => gl'[q].phys = "none" /\ gl'[q].pending # None
    BY <1>2 DEF IInv, GlobalInv, Waiting
  <2>2. \A u \in Threads : th'[u].pc \in {"waitRead", "waitWrite"} <=> gl'[Home[u]].pending = u
    BY <1>1, <1>2, TypedThreads DEF IInv, GlobalInv, Waiting
  <2>3. \A q \in Procs : gl'[q].pending # None => Home[gl'[q].pending] = q
    BY <1>2 DEF IInv, GlobalInv, Waiting
  <2>4. ASSUME NEW u \in Threads, NEW l \in {"read", "write"},
               At(u, IF l = "read" THEN "waitRead" ELSE "waitWrite")'
        PROVE  gl'[Home[u]].want = l \/ (gl'[Home[u]].want = "none" /\ gl'[Home[u]].phys = l)
    <3>1. Home[u] \in Procs /\ Home[u] # p
      BY <1>1, <2>4, TypedThreads DEF IInv, At
    <3>2. At(u, IF l = "read" THEN "waitRead" ELSE "waitWrite")
      BY <1>1, <2>4, <3>1 DEF At
    <3>3. gl[Home[u]].want = l \/ (gl[Home[u]].want = "none" /\ gl[Home[u]].phys = l)
      BY <3>2 DEF IInv, GlobalInv, Waiting
    <3> QED
      BY <1>2, <3>1, <3>3
  <2> QED
    BY <2>1, <2>2, <2>3, <2>4 DEF Waiting
<1>6. Holding'
  <2>1. \A u \in Threads : At(u, "locked")' <=> At(u, "locked") /\ Home[u] # p
    BY <1>1 DEF At
  <2> QED
    BY <1>2, <2>1, TypedThreads DEF IInv, GlobalInv, Holding
<1>7. Blocked'
  <2>1. \A q \in Procs \ {p} : writer'[q] = writer[q]
    BY <1>1 DEF IInv, TypeInv, ProcType
  <2> QED
    BY <1>2, <2>1 DEF IInv, GlobalInv, Blocked
<1> QED
  BY <1>4, <1>5, <1>6, <1>7 DEF GlobalInv

\* A thread gets the write lock the process has.
LEMMA GlobalLocked ==
  ASSUME IInv, NEW t \in Threads, At(t, "lockWrite"), gl[Home[t]].phys = "write", gl[Home[t]].pending = None,
         GlTo(Home[t], gl[Home[t]].phys, gl[Home[t]].want, gl[Home[t]].pending, TRUE, gl[Home[t]].blocking),
         th'[t].pc = "locked", \A u \in Threads \ {t} : th'[u] = th[u], UNCHANGED writer
  PROVE  GlobalInv'
<1> DEFINE p == Home[t]
<1>1. /\ p \in Procs /\ \A q \in Procs \ {p} : gl'[q] = gl[q]
      /\ gl'[p].phys = gl[p].phys /\ gl'[p].want = gl[p].want /\ gl'[p].pending = gl[p].pending
      /\ gl'[p].blocking = gl[p].blocking /\ gl'[p].writer
  BY TypedThreads DEF IInv, GlTo, IsLock
<1>2. p = Home[t] /\ ~At(t, "locked") /\ gl[p].phys = "write"
  BY DEF At
<1> HIDE DEF p
<1>3. Exclusive'
  BY <1>1 DEF IInv, GlobalInv, Exclusive
<1>4. Waiting'
  <2>1. \A q \in Procs : gl'[q].phys = gl[q].phys /\ gl'[q].want = gl[q].want /\ gl'[q].pending = gl[q].pending
    BY <1>1
  <2>2. \A u \in Threads : /\ At(u, "waitRead")' <=> At(u, "waitRead")
                           /\ At(u, "waitWrite")' <=> At(u, "waitWrite")
    BY DEF At
  <2>3. \A u \in Threads : th'[u].pc \in {"waitRead", "waitWrite"} <=> gl'[Home[u]].pending = u
    BY <2>1, <2>2, TypedThreads DEF IInv, GlobalInv, Waiting, At
  <2>4. \A u \in Threads, level \in {"read", "write"} :
          At(u, IF level = "read" THEN "waitRead" ELSE "waitWrite")' =>
            gl'[Home[u]].want = level \/ (gl'[Home[u]].want = "none" /\ gl'[Home[u]].phys = level)
    BY <2>1, <2>2, TypedThreads DEF IInv, GlobalInv, Waiting
  <2> QED
    BY <2>1, <2>3, <2>4 DEF IInv, GlobalInv, Waiting
<1>5. Holding'
  <2>1. \A u \in Threads : At(u, "locked")' <=> At(u, "locked") \/ u = t
    BY DEF At
  <2>2. \A u \in Threads : At(u, "locked")' => gl'[Home[u]].writer /\ gl'[Home[u]].phys = "write"
    BY <1>1, <1>2, <2>1, TypedThreads DEF IInv, GlobalInv, Holding
  <2>3. \A q \in Procs : gl'[q].writer => \E u \in Threads : Home[u] = q /\ At(u, "locked")'
    BY <1>1, <1>2, <2>1 DEF IInv, GlobalInv, Holding
  <2> QED
    BY <2>2, <2>3 DEF Holding
<1>6. Blocked'
  BY <1>1 DEF IInv, GlobalInv, Blocked
<1> QED
  BY <1>3, <1>4, <1>5, <1>6 DEF GlobalInv

LEMMA GlobalStep ==
  ASSUME MastersQuiet, IInv, [Next]_vars
  PROVE  GlobalInv'
<1>1. ASSUME NEW t \in Threads, Enter(t) PROVE GlobalInv'
  <2>1. /\ \A u \in Threads \ {t} : th'[u] = th[u]
        /\ Aside(th[t].pc) /\ Aside(th'[t].pc)
    BY <1>1, EnterEffect DEF IInv, ThreadInv, Fits, ThTo, IsThread, Aside
  <2>2. UNCHANGED writer
    BY <1>1, EnterEffect DEF IInv
  <2>5. UNCHANGED gl
    BY <1>1, EnterEffect DEF IInv
  <2> QED
    BY <2>1, <2>2, <2>5, GlobalKept, TypedThreads DEF IInv
<1>2. ASSUME NEW t \in Threads, LockRead(t) PROVE GlobalInv'
  <2>1. /\ At(t, "lockRead") /\ Aside(th[t].pc) /\ gl[Home[t]].pending = None /\ ~gl[Home[t]].writer
        /\ UNCHANGED <<bm, writer>> /\ \A u \in Threads \ {t} : th'[u] = th[u]
    BY <1>2, ReadsUnblocked, LockReadEffect DEF IInv, ThTo, Aside, At
  <2>2. CASE gl[Home[t]].phys # "none"
    <3>1. UNCHANGED gl /\ Aside(th'[t].pc)
      BY <1>2, <2>2, ReadsUnblocked, LockReadEffect DEF IInv, ThreadInv, Fits, ThTo, IsThread, Aside
    <3> QED
      BY <2>1, <3>1, GlobalKept, TypedThreads DEF IInv
  <2>3. CASE gl[Home[t]].phys = "none"
    <3>1. /\ GlTo(Home[t], "none", "read", t, gl[Home[t]].writer, gl[Home[t]].blocking)
          /\ th'[t].pc = "waitRead"
      BY <1>2, <2>3, ReadsUnblocked, LockReadEffect DEF IInv, ThTo, IsThread
    <3> QED
      BY <2>1, <3>1, GlobalAsks, TypedThreads DEF IInv
  <2> QED
    BY <2>2, <2>3
<1>3. ASSUME NEW t \in Threads, GrantedRead(t) PROVE GlobalInv'
  <2>1. /\ At(t, "waitRead") /\ gl[Home[t]].want = "none"
        /\ UNCHANGED writer /\ \A u \in Threads \ {t} : th'[u] = th[u]
        /\ GlTo(Home[t], gl[Home[t]].phys, gl[Home[t]].want, None, gl[Home[t]].writer, gl[Home[t]].blocking)
    BY <1>3, ReadsUnblocked, GrantedReadEffect DEF IInv, ThTo, At
  <2>2. Aside(th'[t].pc)
    BY <1>3, ReadsUnblocked, GrantedReadEffect DEF IInv, ThreadInv, Fits, ThTo, IsThread, Aside
  <2>4. ("read" = "write" \/ gl[Home[t]].writer) = gl[Home[t]].writer
    BY TypedThreads DEF IInv
  <2> QED
    BY <2>1, <2>2, <2>4, GlobalGoesOn
<1>4. ASSUME NEW t \in Threads, Read(t) PROVE GlobalInv'
  <2>1. /\ \A u \in Threads \ {t} : th'[u] = th[u]
        /\ Aside(th[t].pc) /\ Aside(th'[t].pc)
    BY <1>4, ReadEffect DEF IInv, ThTo, IsThread, Aside
  <2>2. UNCHANGED writer
    BY <1>4, ReadEffect DEF IInv
  <2>5. LockLowered(Home[t])
    <3>1. LockKept(Home[t]) \/ LockGone(Home[t])
      BY <1>4, ReadLeaves
    <3> QED
      BY <3>1, TypedThreads DEF IInv, LockKept, LockLowered
  <2> QED
    BY <2>1, <2>2, <2>5, GlobalKept, TypedThreads DEF IInv
<1>5. ASSUME NEW t \in Threads, Mark(t) PROVE GlobalInv'
  <2>0. DOMAIN delta' \subseteq Pages
    BY <1>5, DataTypeStep DEF DataType, Next, ThreadStep
  <2>1. /\ \A u \in Threads \ {t} : th'[u] = th[u]
        /\ Aside(th[t].pc) /\ Aside(th'[t].pc)
    BY <1>5, <2>0, MarkEffect DEF IInv, ThTo, IsThread, Aside
  <2>2. UNCHANGED writer
    BY <1>5, <2>0, MarkEffect DEF IInv
  <2>5. UNCHANGED gl
    BY <1>5, <2>0, MarkEffect DEF IInv
  <2> QED
    BY <2>1, <2>2, <2>5, GlobalKept, TypedThreads DEF IInv
<1>6. ASSUME NEW t \in Threads, FetchHeader(t) PROVE GlobalInv'
  <2>1. /\ \A u \in Threads \ {t} : th'[u] = th[u]
        /\ Aside(th[t].pc) /\ Aside(th'[t].pc)
    BY <1>6, FetchHeaderEffect DEF IInv, ThTo, IsThread, Aside
  <2>2. UNCHANGED writer
    BY <1>6, FetchHeaderEffect DEF IInv
  <2>5. UNCHANGED gl
    BY <1>6, FetchHeaderEffect DEF IInv
  <2> QED
    BY <2>1, <2>2, <2>5, GlobalKept, TypedThreads DEF IInv
<1>7. ASSUME NEW t \in Threads, ReadHeader(t) PROVE GlobalInv'
  <2>1. /\ \A u \in Threads \ {t} : th'[u] = th[u]
        /\ Aside(th[t].pc) /\ Aside(th'[t].pc)
    BY <1>7, ReadHeaderEffect DEF IInv, ThreadInv, Fits, ThTo, IsThread, Aside
  <2>2. UNCHANGED writer
    BY <1>7, ReadHeaderEffect DEF IInv
  <2>5. LockLowered(Home[t])
    <3>1. LockKept(Home[t]) \/ LockGone(Home[t])
      BY <1>7, ReadHeaderLeaves
    <3> QED
      BY <3>1, TypedThreads DEF IInv, LockKept, LockLowered
  <2> QED
    BY <2>1, <2>2, <2>5, GlobalKept, TypedThreads DEF IInv
<1>8. ASSUME NEW t \in Threads, BeginWrite(t) PROVE GlobalInv'
  <2>1. /\ \A u \in Threads \ {t} : th'[u] = th[u]
        /\ Aside(th[t].pc) /\ Aside(th'[t].pc)
    BY <1>8, BeginWriteEffect DEF IInv, ThTo, IsThread, Aside
  <2>2. \A q \in Procs : writer[q] # None => writer'[q] # None
    BY <1>8, BeginWriteEffect, TypedThreads DEF IInv, TypeInv, ProcType
  <2>5. UNCHANGED gl
    BY <1>8, BeginWriteEffect DEF IInv
  <2> QED
    BY <2>1, <2>2, <2>5, GlobalKept, TypedThreads DEF IInv
<1>9. ASSUME NEW t \in Threads, LockWrite(t) PROVE GlobalInv'
  <2>1. /\ At(t, "lockWrite") /\ Aside(th[t].pc) /\ gl[Home[t]].pending = None
        /\ UNCHANGED writer /\ \A u \in Threads \ {t} : th'[u] = th[u]
    BY <1>9, LockWriteEffect DEF IInv, ThTo, Aside, At
  <2>3. writer[Home[t]] = t /\ Home[t] \in Procs /\ t # None
    BY <2>1, TypedThreads DEF IInv, LocalInv, Writing, At
  <2>4. \A u \in Threads : Home[u] = Home[t] => ~At(u, "locked")
    BY <2>1, <2>3 DEF IInv, LocalInv, Writing, At
  <2>5. ~gl[Home[t]].writer
    BY <2>3, <2>4 DEF IInv, GlobalInv, Holding
  <2>6. CASE gl[Home[t]].phys = "write"
    <3>1. /\ GlTo(Home[t], gl[Home[t]].phys, gl[Home[t]].want, gl[Home[t]].pending, TRUE, gl[Home[t]].blocking)
          /\ th'[t].pc = "locked"
      BY <1>9, <2>6, LockWriteEffect DEF IInv, ThTo, IsThread
    <3> QED
      BY <2>1, <2>3, <2>4, <2>6, <3>1, GlobalLocked
  <2>7. CASE gl[Home[t]].phys # "write"
    <3> DEFINE blocking == IF gl[Home[t]].phys = "none" THEN gl[Home[t]].blocking ELSE FALSE
    <3>1. /\ GlTo(Home[t], "none", "write", t, gl[Home[t]].writer, blocking)
          /\ th'[t].pc = "waitWrite"
      BY <1>9, <2>7, LockWriteEffect DEF IInv, ThTo, IsThread
    <3>2. blocking \in BOOLEAN /\ (blocking => gl[Home[t]].blocking)
      BY <2>3, TypedThreads DEF IInv
    <3> QED
      BY <2>1, <2>5, <3>1, <3>2, GlobalAsks
  <2> QED
    BY <2>6, <2>7
<1>10. ASSUME NEW t \in Threads, GrantedWrite(t) PROVE GlobalInv'
  <2>1. /\ At(t, "waitWrite") /\ gl[Home[t]].want = "none" /\ th'[t].pc = "locked"
        /\ UNCHANGED writer /\ \A u \in Threads \ {t} : th'[u] = th[u]
        /\ GlTo(Home[t], gl[Home[t]].phys, gl[Home[t]].want, None, TRUE, gl[Home[t]].blocking)
    BY <1>10, GrantedWriteEffect DEF IInv, ThTo, IsThread, At
  <2> QED
    BY <2>1, GlobalGoesOn
<1>11. ASSUME NEW t \in Threads, Stall(t) PROVE GlobalInv'
  <2>1. /\ At(t, "locked") /\ Aside(th'[t].pc) /\ \A u \in Threads \ {t} : th'[u] = th[u]
        /\ writer' = [writer EXCEPT ![Home[t]] = None]
    BY <1>11, StallStep DEF ThTo, IsThread, Aside
  <2>2. \E phys \in Level : GlTo(Home[t], phys, "none", None, FALSE, FALSE)
    BY <1>11, StallStep DEF LockTurned
  <2> QED
    BY <2>1, <2>2, GlobalUnlocked
<1>12. ASSUME NEW t \in Threads, Check(t) PROVE GlobalInv'
  <2>1. /\ \A u \in Threads \ {t} : th'[u] = th[u]
        /\ Aside(th[t].pc) /\ Aside(th'[t].pc)
    BY <1>12, CheckEffect DEF IInv, ThreadInv, Fits, ThTo, IsThread, Aside
  <2>2. UNCHANGED writer
    BY <1>12, CheckEffect DEF IInv
  <2>5. LockLowered(Home[t])
    <3>1. LockKept(Home[t]) \/ LockGone(Home[t])
      BY <1>12, CheckLeaves
    <3> QED
      BY <3>1, TypedThreads DEF IInv, LockKept, LockLowered
  <2> QED
    BY <2>1, <2>2, <2>5, GlobalKept, TypedThreads DEF IInv
<1>13. ASSUME NEW t \in Threads, StartMerge(t) PROVE GlobalInv'
  <2>1. /\ At(t, "locked") /\ Aside(th'[t].pc) /\ \A u \in Threads \ {t} : th'[u] = th[u]
        /\ writer' = [writer EXCEPT ![Home[t]] = None]
    BY <1>13, StartMergeStep DEF ThTo, IsThread, Aside
  <2>2. \E phys \in Level : GlTo(Home[t], phys, "none", None, FALSE, FALSE)
    BY <1>13, StartMergeStep DEF LockTurned
  <2> QED
    BY <2>1, <2>2, GlobalUnlocked
<1>14. ASSUME NEW t \in Threads, Table(t) PROVE GlobalInv'
  <2>1. /\ \A u \in Threads \ {t} : th'[u] = th[u]
        /\ Aside(th[t].pc) /\ Aside(th'[t].pc)
    BY <1>14, TableEffect DEF IInv, ThTo, IsThread, Aside
  <2>2. UNCHANGED writer
    BY <1>14, TableEffect DEF IInv
  <2>5. UNCHANGED gl
    BY <1>14, TableEffect DEF IInv
  <2> QED
    BY <2>1, <2>2, <2>5, GlobalKept, TypedThreads DEF IInv
<1>15. ASSUME NEW t \in Threads, MergeFlush(t) PROVE GlobalInv'
  <2>1. /\ \A u \in Threads \ {t} : th'[u] = th[u]
        /\ Aside(th[t].pc) /\ Aside(th'[t].pc)
    BY <1>15, MergeFlushEffect DEF IInv, ThTo, IsThread, Aside
  <2>2. UNCHANGED writer
    BY <1>15, MergeFlushEffect DEF IInv
  <2>5. UNCHANGED gl
    BY <1>15, MergeFlushEffect DEF IInv
  <2> QED
    BY <2>1, <2>2, <2>5, GlobalKept, TypedThreads DEF IInv
<1>16. ASSUME NEW t \in Threads, Merged(t) PROVE GlobalInv'
  <2>1. /\ \A u \in Threads \ {t} : th'[u] = th[u]
        /\ Aside(th[t].pc) /\ Aside(th'[t].pc)
    BY <1>16, MergedEffect DEF IInv, ThreadInv, Fits, ThTo, IsThread, Aside
  <2>2. UNCHANGED writer
    BY <1>16, MergedEffect DEF IInv
  <2>5. LockLowered(Home[t])
    <3>1. LockKept(Home[t]) \/ LockGone(Home[t])
      BY <1>16, MergedLeaves
    <3> QED
      BY <3>1, TypedThreads DEF IInv, LockKept, LockLowered
  <2> QED
    BY <2>1, <2>2, <2>5, GlobalKept, TypedThreads DEF IInv
<1>17. ASSUME NEW t \in Threads, Finish(t) PROVE GlobalInv'
  <2>1. /\ At(t, "locked") /\ Aside(th'[t].pc) /\ \A u \in Threads \ {t} : th'[u] = th[u]
        /\ writer' = [writer EXCEPT ![Home[t]] = None]
    BY <1>17, FinishStep DEF ThTo, IsThread, Aside
  <2>2. \E phys \in Level : GlTo(Home[t], phys, "none", None, FALSE, FALSE)
    BY <1>17, FinishStep DEF LockTurned
  <2> QED
    BY <2>1, <2>2, GlobalUnlocked
<1>18. ASSUME NEW t \in Threads, BeginBackup(t) PROVE GlobalInv'
  <2>1. /\ \A u \in Threads \ {t} : th'[u] = th[u]
        /\ Aside(th[t].pc) /\ Aside(th'[t].pc)
    BY <1>18, BeginBackupEffect DEF IInv, ThTo, IsThread, Aside
  <2>2. UNCHANGED writer
    BY <1>18, BeginBackupEffect DEF IInv
  <2>5. UNCHANGED gl
    BY <1>18, BeginBackupEffect DEF IInv
  <2> QED
    BY <2>1, <2>2, <2>5, GlobalKept, TypedThreads DEF IInv
<1>19. ASSUME NEW t \in Threads, EndBackup(t) PROVE GlobalInv'
  <2>1. /\ \A u \in Threads \ {t} : th'[u] = th[u]
        /\ Aside(th[t].pc) /\ Aside(th'[t].pc)
    BY <1>19, EndBackupEffect DEF IInv, ThTo, IsThread, Aside
  <2>2. UNCHANGED writer
    BY <1>19, EndBackupEffect DEF IInv
  <2>5. UNCHANGED gl
    BY <1>19, EndBackupEffect DEF IInv
  <2> QED
    BY <2>1, <2>2, <2>5, GlobalKept, TypedThreads DEF IInv
<1>20. ASSUME NEW t \in Threads, NEW pg \in Pages, Merge(t, pg) PROVE GlobalInv'
  <2>1. /\ \A u \in Threads \ {t} : th'[u] = th[u]
        /\ Aside(th[t].pc) /\ Aside(th'[t].pc)
    BY <1>20, MergeEffect DEF IInv, ThTo, IsThread, Aside
  <2>2. UNCHANGED writer
    BY <1>20, MergeEffect DEF IInv
  <2>5. UNCHANGED gl
    BY <1>20, MergeEffect DEF IInv
  <2> QED
    BY <2>1, <2>2, <2>5, GlobalKept, TypedThreads DEF IInv
<1>21. ASSUME NEW t \in Threads, NEW pg \in Pages, Fetch(t, pg) PROVE GlobalInv'
  <2>1. /\ \A u \in Threads \ {t} : th'[u] = th[u]
        /\ Aside(th[t].pc) /\ Aside(th'[t].pc)
    BY <1>21, FetchEffect DEF IInv, ThTo, IsThread, Aside
  <2>2. UNCHANGED writer
    BY <1>21, FetchEffect DEF IInv
  <2>5. UNCHANGED gl
    BY <1>21, FetchEffect DEF IInv
  <2> QED
    BY <2>1, <2>2, <2>5, GlobalKept, TypedThreads DEF IInv
<1>22. ASSUME NEW pg \in Pages, Write(pg) PROVE GlobalInv'
  <2>1. \A u \in Threads : th'[u].pc = th[u].pc
    BY <1>22, WriteEffect DEF IInv, IsThread
  <2>2. UNCHANGED writer /\ dirty[pg] \in Procs
    BY <1>22, WriteEffect DEF IInv
  <2>4. LockLowered(dirty[pg])
    <3>1. LockKept(dirty[pg]) \/ LockGone(dirty[pg])
      BY <1>22, <2>2, WriteLeaves
    <3> QED
      BY <2>2, <3>1, TypedThreads DEF IInv, LockKept, LockLowered
  <2> QED
    BY <2>1, <2>2, <2>4, GlobalKept
<1>23. ASSUME NEW p \in Procs, Grant(p) PROVE GlobalInv'
  BY <1>23, GlobalGranted
<1>24. ASSUME NEW p \in Procs, Ast(p) PROVE GlobalInv'
  <2>1. UNCHANGED <<th, writer>>
    BY <1>24, AstEffect DEF IInv
  <2>3. LockLowered(p)
    BY <1>24, AstStep DEF LockLowered, LockGone, BmTo, IsManager
  <2> QED
    BY <2>1, <2>3, GlobalKept
<1>25. ASSUME NEW p \in Procs, AstTry(p) PROVE GlobalInv'
  <2>1. UNCHANGED <<th, writer>>
    BY <1>25, AstEffect DEF IInv
  <2>3. LockLowered(p)
    BY <1>25, AstStep DEF LockLowered, LockGone, BmTo, IsManager
  <2> QED
    BY <2>1, <2>3, GlobalKept
<1>26. ASSUME NEW p \in Procs, AstSet(p) PROVE GlobalInv'
  <2>1. UNCHANGED <<th, writer>>
    BY <1>26, AstEffect DEF IInv
  <2>3. LockLowered(p)
    BY <1>26, AstStep DEF LockLowered, LockGone, BmTo, IsManager
  <2> QED
    BY <2>1, <2>3, GlobalKept
<1>27. ASSUME NEW p \in Procs, Crash(p) PROVE GlobalInv'
  BY <1>27, GlobalCrashed
<1>28. CASE UNCHANGED vars
  <2>1. UNCHANGED <<gl, th, writer, bm>>
    BY <1>28 DEF vars, locks
  <2> QED
    BY <2>1 DEF IInv, GlobalInv, Exclusive, Waiting, Holding, Blocked, At
<1> QED
  BY <1>1, <1>2, <1>3, <1>4, <1>5, <1>6, <1>7, <1>8, <1>9, <1>10, <1>11, <1>12, <1>13, <1>14, <1>15, <1>16, <1>17, <1>18, <1>19, <1>20, <1>21, <1>22, <1>23, <1>24, <1>25, <1>26, <1>27, <1>28 DEF Next, ThreadStep

\* A thread of the merge asks for the global lock only before it takes the table.
MergeEnters(t) ==
  th[t].op = "merge" /\ th[t].pc \in {"lockRead", "waitRead"} => th[t].why = "table"

\* What a process knows: as much as before, nothing, or the present state.
KnowsAsBefore(p) ==
  /\ UNCHANGED header
  /\ bm'[p].state = bm[p].state /\ bm'[p].scn = bm[p].scn
  /\ gl'[p].phys = "none" <=> gl[p].phys = "none"
  /\ gl'[p].pending = gl[p].pending
  /\ \A u \in Threads : Home[u] = p /\ Entered(u)' => Known(p)
  /\ \A pg \in Pages : dirty'[pg] = p => Known(p)

KnowsNothing(p) ==
  /\ bm'[p].state = "unknown"
  /\ gl'[p].phys = "none" \/ gl'[p].pending # None
  /\ \A u \in Threads : Home[u] = p => ~Entered(u)'
  /\ \A pg \in Pages : dirty'[pg] # p

KnowsHeader(p) ==
  /\ bm'[p].state = header'.state /\ bm'[p].scn = header'.scn
  /\ gl'[p].phys # "none" /\ gl'[p].pending = None

LEMMA StateMoves ==
  ASSUME IInv, NEW p \in Procs, \A q \in Procs \ {p} : bm'[q] = bm[q] /\ gl'[q] = gl[q],
         UNCHANGED header \/ \A q \in Procs \ {p} : ~Known(q),
         header' \in [state : BackupState, scn : Nat],
         KnowsAsBefore(p) \/ KnowsNothing(p) \/ KnowsHeader(p),
         \A u \in Threads : Home[u] # p /\ Entered(u)' => Entered(u),
         \A pg \in Pages : dirty'[pg] \in {None, p, dirty[pg]},
         \A t \in Threads : MergeEnters(t)'
  PROVE  StateInv'
<1>1. header'.state # "unknown"
  BY DEF BackupState
<1>2. ASSUME NEW q \in Procs
      PROVE  /\ Known(q)' <=> gl'[q].phys # "none" /\ gl'[q].pending = None
             /\ Known(q)' => bm'[q].state = header'.state /\ bm'[q].scn = header'.scn
  <2>1. CASE q # p
    BY <2>1 DEF IInv, StateInv, Known
  <2>2. CASE q = p /\ KnowsAsBefore(p)
    BY <2>2 DEF IInv, StateInv, Known, KnowsAsBefore
  <2>3. CASE q = p /\ KnowsNothing(p)
    BY <2>3 DEF Known, KnowsNothing
  <2>4. CASE q = p /\ KnowsHeader(p)
    BY <1>1, <2>4 DEF Known, KnowsHeader
  <2> QED
    BY <2>1, <2>2, <2>3, <2>4
<1>3. ASSUME NEW u \in Threads, Entered(u)' PROVE Known(Home[u])'
  <2>1. CASE Home[u] # p
    <3>1. Known(Home[u]) /\ Home[u] \in Procs
      BY <1>3, <2>1, TypedThreads DEF IInv, StateInv
    <3> QED
      BY <2>1, <3>1 DEF Known
  <2>2. CASE Home[u] = p
    BY <1>1, <1>3, <2>2 DEF Known, KnowsAsBefore, KnowsNothing, KnowsHeader
  <2> QED
    BY <2>1, <2>2
<1>4. ASSUME NEW pg \in Pages, dirty'[pg] # None PROVE bm'[dirty'[pg]].state # "unknown"
  <2>1. CASE dirty'[pg] # p
    <3>1. dirty'[pg] = dirty[pg]
      BY <1>4, <2>1
    <3>2. Known(dirty[pg]) /\ dirty[pg] \in Procs
      BY <1>4, <3>1, TypedThreads DEF IInv, StateInv
    <3> QED
      BY <2>1, <3>1, <3>2 DEF Known
  <2>2. CASE dirty'[pg] = p
    BY <1>1, <1>4, <2>2 DEF Known, KnowsAsBefore, KnowsNothing, KnowsHeader
  <2> QED
    BY <2>1, <2>2
<1> QED
  BY <1>2, <1>3, <1>4 DEF StateInv, Known, MergeEnters

LEMMA StateStep ==
  ASSUME MastersQuiet, IInv, [Next]_vars
  PROVE  StateInv'
<1>1. ASSUME NEW t \in Threads, Enter(t) PROVE StateInv'
  <2>1. /\ \A u \in Threads \ {t} : th'[u] = th[u]
        /\ UNCHANGED header
        /\ UNCHANGED dirty
    BY <1>1, EnterEffect DEF IInv, ThTo
  <2>2. \A q \in Procs \ {Home[t]} : bm'[q] = bm[q] /\ gl'[q] = gl[q]
    BY <1>1, EnterEffect DEF IInv, BmTo, GlTo
  <2>3. bm'[Home[t]].scn = bm[Home[t]].scn
    BY <1>1, EnterEffect DEF IInv, BmTo, IsManager
  <2>5. Entered(t)' => Known(Home[t])
    BY <1>1, EnterEffect DEF IInv, ThTo, IsThread, Entered, Known
  <2>6. MergeEnters(t)'
    <3>1. th[t].op = "merge" /\ th[t].why # "table" => th'[t].pc = th[t].why
      <4>1. th[t].op = "merge" /\ th[t].why # "table" => Entered(t)
        BY <1>1, EnterEffect DEF IInv, Entered, Inside
      <4> QED
        BY <1>1, <4>1, EnterEffect DEF IInv, StateInv, ThTo, IsThread, Known
    <3> QED
      BY <1>1, <3>1, EnterEffect DEF IInv, ThreadInv, Fits, ThTo, IsThread, MergeEnters
  <2>7. \A u \in Threads : MergeEnters(u)'
    BY <2>1, <2>6 DEF IInv, StateInv, MergeEnters
  <2>8. \A u \in Threads \ {t} : Entered(u)' => Entered(u)
    BY <2>1 DEF Entered, Inside
  <2>12. KnowsAsBefore(Home[t]) \/ KnowsNothing(Home[t])
    <3>1. UNCHANGED gl
      BY <1>1, EnterEffect DEF IInv
    <3>2. bm'[Home[t]].state = bm[Home[t]].state
      BY <1>1, EnterEffect DEF IInv, BmTo, IsManager
    <3>3. \A u \in Threads : Home[u] = Home[t] /\ Entered(u)' => Known(Home[t])
      BY <2>5, <2>8 DEF IInv, StateInv
    <3>4. \A pg \in Pages : dirty'[pg] = Home[t] => Known(Home[t])
      BY <2>1, TypedThreads DEF IInv, StateInv
    <3> QED
      BY <2>1, <2>3, <3>1, <3>2, <3>3, <3>4 DEF KnowsAsBefore
  <2> QED
    BY <2>1, <2>2, <2>7, <2>8, <2>12, StateMoves, TypedThreads DEF IInv, TypeInv, DataType
<1>2. ASSUME NEW t \in Threads, LockRead(t) PROVE StateInv'
  <2>1. /\ \A u \in Threads \ {t} : th'[u] = th[u]
        /\ UNCHANGED <<header, dirty, bm>> /\ At(t, "lockRead") /\ gl[Home[t]].pending = None
        /\ th'[t].op = th[t].op /\ th'[t].why = th[t].why
    BY <1>2, ReadsUnblocked, LockReadEffect DEF IInv, ThTo, IsThread, At
  <2>2. MergeEnters(t)'
    BY <2>1 DEF IInv, StateInv, MergeEnters, At
  <2>3. /\ \A u \in Threads : MergeEnters(u)'
        /\ \A u \in Threads : Home[u] # Home[t] => (Entered(u)' <=> Entered(u))
    BY <2>1, <2>2 DEF IInv, StateInv, Entered, Inside, MergeEnters
  <2>4. CASE gl[Home[t]].phys # "none"
    <3>1. UNCHANGED gl
      BY <1>2, <2>4, ReadsUnblocked, LockReadEffect DEF IInv
    <3>2. Known(Home[t])
      BY <2>1, <2>4, TypedThreads DEF IInv, StateInv
    <3>3. KnowsAsBefore(Home[t])
      BY <2>1, <3>1, <3>2 DEF KnowsAsBefore
    <3> QED
      BY <2>1, <2>3, <3>1, <3>3, StateMoves, TypedThreads DEF IInv, TypeInv, DataType
  <2>5. CASE gl[Home[t]].phys = "none"
    <3>1. /\ \A q \in Procs \ {Home[t]} : gl'[q] = gl[q]
          /\ gl'[Home[t]].phys = "none" /\ th'[t].pc = "waitRead"
      BY <1>2, <2>5, ReadsUnblocked, LockReadEffect DEF IInv, GlTo, IsLock, ThTo, IsThread
    <3>2. ~Known(Home[t])
      BY <2>5, TypedThreads DEF IInv, StateInv
    <3>3. \A u \in Threads : Home[u] = Home[t] => ~Entered(u)'
      BY <2>1, <3>1, <3>2 DEF IInv, StateInv, Entered, Inside
    <3>4. KnowsNothing(Home[t])
      BY <2>1, <3>1, <3>2, <3>3, TypedThreads DEF IInv, StateInv, KnowsNothing, Known
    <3> QED
      BY <2>1, <2>3, <3>1, <3>4, StateMoves, TypedThreads DEF IInv, TypeInv, DataType
  <2> QED
    BY <2>4, <2>5
<1>3. ASSUME NEW t \in Threads, GrantedRead(t) PROVE StateInv'
  <2>1. /\ \A u \in Threads \ {t} : th'[u] = th[u]
        /\ UNCHANGED <<header, dirty>> /\ At(t, "waitRead") /\ gl[Home[t]].want = "none"
    BY <1>3, ReadsUnblocked, GrantedReadEffect DEF IInv, ThTo, At
  <2>2. gl[Home[t]].phys = "read"
    BY <2>1 DEF IInv, GlobalInv, Waiting
  <2>3. /\ \A q \in Procs \ {Home[t]} : bm'[q] = bm[q] /\ gl'[q] = gl[q]
        /\ KnowsHeader(Home[t])
    BY <1>3, <2>1, <2>2, ReadsUnblocked, GrantedReadEffect DEF IInv, BmTo, IsManager, GlTo, IsLock, KnowsHeader
  <2>4. MergeEnters(t)'
    BY <1>3, ReadsUnblocked, GrantedReadEffect DEF IInv, ThreadInv, Fits, ThTo, IsThread, MergeEnters
  <2>5. /\ \A u \in Threads : MergeEnters(u)'
        /\ \A u \in Threads : Home[u] # Home[t] => (Entered(u)' <=> Entered(u))
    BY <2>1, <2>4 DEF IInv, StateInv, Entered, Inside, MergeEnters
  <2> QED
    BY <2>1, <2>3, <2>5, StateMoves, TypedThreads DEF IInv, TypeInv, DataType
<1>4. ASSUME NEW t \in Threads, Read(t) PROVE StateInv'
  <2>1. /\ \A u \in Threads \ {t} : th'[u] = th[u]
        /\ UNCHANGED header
        /\ UNCHANGED dirty
    BY <1>4, ReadEffect DEF IInv, ThTo
  <2>2. \A q \in Procs \ {Home[t]} : bm'[q] = bm[q] /\ gl'[q] = gl[q]
    BY <1>4, ReadEffect DEF IInv, BmTo, GlTo
  <2>3. bm'[Home[t]].scn = bm[Home[t]].scn
    BY <1>4, ReadEffect DEF IInv, BmTo, IsManager
  <2>4. Entered(t)
    BY <1>4, ReadEffect DEF IInv, ThreadInv, Fits, Entered, Inside
  <2>5. Known(Home[t])
    BY <2>4 DEF IInv, StateInv
  <2>6. MergeEnters(t)'
    BY <1>4, ReadEffect DEF IInv, ThTo, IsThread, MergeEnters
  <2>7. \A u \in Threads : MergeEnters(u)'
    BY <2>1, <2>6 DEF IInv, StateInv, MergeEnters
  <2>8. \A u \in Threads \ {t} : Entered(u)' => Entered(u)
    BY <2>1 DEF Entered, Inside
  <2>12. KnowsAsBefore(Home[t]) \/ KnowsNothing(Home[t])
    <3>1. CASE LockKept(Home[t]) /\ bm'[Home[t]].state = bm[Home[t]].state
      <4>1. gl'[Home[t]].phys = gl[Home[t]].phys /\ gl'[Home[t]].pending = gl[Home[t]].pending
        BY <3>1 DEF LockKept, GlTo, IsLock
      <4>2. \A u \in Threads : Home[u] = Home[t] /\ Entered(u)' => Known(Home[t])
        BY <2>5, <2>8 DEF IInv, StateInv
      <4>3. \A pg \in Pages : dirty'[pg] = Home[t] => Known(Home[t])
        BY <2>1, TypedThreads DEF IInv, StateInv
      <4> QED
        BY <2>1, <2>3, <3>1, <4>1, <4>2, <4>3 DEF KnowsAsBefore
    <3>2. CASE LockGone(Home[t]) /\ Alone(Home[t])'
      <4>1. gl'[Home[t]].phys = "none" /\ bm'[Home[t]].state = "unknown"
        BY <3>2 DEF LockGone, GlTo, IsLock
      <4>2. /\ \A u \in Threads : Home[u] = Home[t] => ~Entered(u)'
            /\ \A pg \in Pages : dirty'[pg] # Home[t]
        BY <3>2 DEF Alone, Entered
      <4> QED
        BY <4>1, <4>2 DEF KnowsNothing
    <3> QED
      BY <1>4, <3>1, <3>2, ReadLeaves
  <2> QED
    BY <2>1, <2>2, <2>7, <2>8, <2>12, StateMoves, TypedThreads DEF IInv, TypeInv, DataType
<1>5. ASSUME NEW t \in Threads, Mark(t) PROVE StateInv'
  <2>0. DOMAIN delta' \subseteq Pages
    BY <1>5, DataTypeStep DEF DataType, Next, ThreadStep
  <2>1. /\ \A u \in Threads \ {t} : th'[u] = th[u]
        /\ UNCHANGED header
        /\ dirty' = [dirty EXCEPT ![th[t].page] = Home[t]]
    BY <1>5, <2>0, MarkEffect DEF IInv, ThTo
  <2>2. \A q \in Procs \ {Home[t]} : bm'[q] = bm[q] /\ gl'[q] = gl[q]
    BY <1>5, <2>0, MarkEffect DEF IInv, BmTo, GlTo
  <2>3. bm'[Home[t]].scn = bm[Home[t]].scn
    BY <1>5, <2>0, MarkEffect DEF IInv, BmTo, IsManager
  <2>4. Entered(t)
    BY <1>5, <2>0, MarkEffect DEF IInv, ThreadInv, Fits, Entered, Inside
  <2>5. Known(Home[t])
    BY <2>4 DEF IInv, StateInv
  <2>6. MergeEnters(t)'
    BY <1>5, <2>0, MarkEffect DEF IInv, ThTo, IsThread, MergeEnters
  <2>7. \A u \in Threads : MergeEnters(u)'
    BY <2>1, <2>6 DEF IInv, StateInv, MergeEnters
  <2>8. \A u \in Threads \ {t} : Entered(u)' => Entered(u)
    BY <2>1 DEF Entered, Inside
  <2>9. HoldsPage(t)
    BY <1>5, <2>0, MarkEffect DEF IInv, HoldsPage
  <2>10. th[t].page \in Pages
    BY <2>9, Held DEF IInv
  <2>11. \A pg \in Pages : dirty'[pg] \in {None, Home[t], dirty[pg]}
    BY <2>1, <2>10 DEF IInv, TypeInv, DataType
  <2>12. KnowsAsBefore(Home[t]) \/ KnowsNothing(Home[t])
    <3>1. UNCHANGED gl
      BY <1>5, <2>0, MarkEffect DEF IInv
    <3>2. bm'[Home[t]].state = bm[Home[t]].state
      BY <1>5, <2>0, MarkEffect DEF IInv, BmTo, IsManager
    <3>3. \A u \in Threads : Home[u] = Home[t] /\ Entered(u)' => Known(Home[t])
      BY <2>5, <2>8 DEF IInv, StateInv
    <3>4. \A pg \in Pages : dirty'[pg] = Home[t] => Known(Home[t])
      BY <2>5
    <3> QED
      BY <2>1, <2>3, <3>1, <3>2, <3>3, <3>4 DEF KnowsAsBefore
  <2> QED
    BY <2>1, <2>2, <2>7, <2>8, <2>12, <2>11, StateMoves, TypedThreads DEF IInv, TypeInv, DataType
<1>6. ASSUME NEW t \in Threads, FetchHeader(t) PROVE StateInv'
  <2>1. /\ \A u \in Threads \ {t} : th'[u] = th[u]
        /\ UNCHANGED header
        /\ UNCHANGED dirty
    BY <1>6, FetchHeaderEffect DEF IInv, ThTo
  <2>2. \A q \in Procs \ {Home[t]} : bm'[q] = bm[q] /\ gl'[q] = gl[q]
    BY <1>6, FetchHeaderEffect DEF IInv, BmTo, GlTo
  <2>3. bm'[Home[t]].scn = bm[Home[t]].scn
    BY <1>6, FetchHeaderEffect DEF IInv, BmTo, IsManager
  <2>5. ~Entered(t)'
    BY <1>6, FetchHeaderEffect DEF IInv, ThreadInv, Fits, ThTo, IsThread, Entered, Inside
  <2>6. MergeEnters(t)'
    BY <1>6, FetchHeaderEffect DEF IInv, ThTo, IsThread, MergeEnters
  <2>7. \A u \in Threads : MergeEnters(u)'
    BY <2>1, <2>6 DEF IInv, StateInv, MergeEnters
  <2>8. \A u \in Threads \ {t} : Entered(u)' => Entered(u)
    BY <2>1 DEF Entered, Inside
  <2>12. KnowsAsBefore(Home[t]) \/ KnowsNothing(Home[t])
    <3>1. UNCHANGED gl
      BY <1>6, FetchHeaderEffect DEF IInv
    <3>2. bm'[Home[t]].state = bm[Home[t]].state
      BY <1>6, FetchHeaderEffect DEF IInv, BmTo, IsManager
    <3>3. \A u \in Threads : Home[u] = Home[t] /\ Entered(u)' => Known(Home[t])
      BY <2>5, <2>8 DEF IInv, StateInv
    <3>4. \A pg \in Pages : dirty'[pg] = Home[t] => Known(Home[t])
      BY <2>1, TypedThreads DEF IInv, StateInv
    <3> QED
      BY <2>1, <2>3, <3>1, <3>2, <3>3, <3>4 DEF KnowsAsBefore
  <2> QED
    BY <2>1, <2>2, <2>7, <2>8, <2>12, StateMoves, TypedThreads DEF IInv, TypeInv, DataType
<1>7. ASSUME NEW t \in Threads, ReadHeader(t) PROVE StateInv'
  <2>1. /\ \A u \in Threads \ {t} : th'[u] = th[u]
        /\ UNCHANGED header
        /\ UNCHANGED dirty
    BY <1>7, ReadHeaderEffect DEF IInv, ThTo
  <2>2. \A q \in Procs \ {Home[t]} : bm'[q] = bm[q] /\ gl'[q] = gl[q]
    BY <1>7, ReadHeaderEffect DEF IInv, BmTo, GlTo
  <2>3. bm'[Home[t]].scn = bm[Home[t]].scn
    BY <1>7, ReadHeaderEffect DEF IInv, BmTo, IsManager
  <2>5. ~Entered(t)'
    BY <1>7, ReadHeaderEffect DEF IInv, ThreadInv, Fits, ThTo, IsThread, Entered, Inside
  <2>6. MergeEnters(t)'
    BY <1>7, ReadHeaderEffect DEF IInv, ThTo, IsThread, MergeEnters
  <2>7. \A u \in Threads : MergeEnters(u)'
    BY <2>1, <2>6 DEF IInv, StateInv, MergeEnters
  <2>8. \A u \in Threads \ {t} : Entered(u)' => Entered(u)
    BY <2>1 DEF Entered, Inside
  <2>12. KnowsAsBefore(Home[t]) \/ KnowsNothing(Home[t])
    <3>1. CASE LockKept(Home[t]) /\ bm'[Home[t]].state = bm[Home[t]].state
      <4>1. gl'[Home[t]].phys = gl[Home[t]].phys /\ gl'[Home[t]].pending = gl[Home[t]].pending
        BY <3>1 DEF LockKept, GlTo, IsLock
      <4>2. \A u \in Threads : Home[u] = Home[t] /\ Entered(u)' => Known(Home[t])
        BY <2>5, <2>8 DEF IInv, StateInv
      <4>3. \A pg \in Pages : dirty'[pg] = Home[t] => Known(Home[t])
        BY <2>1, TypedThreads DEF IInv, StateInv
      <4> QED
        BY <2>1, <2>3, <3>1, <4>1, <4>2, <4>3 DEF KnowsAsBefore
    <3>2. CASE LockGone(Home[t]) /\ Alone(Home[t])'
      <4>1. gl'[Home[t]].phys = "none" /\ bm'[Home[t]].state = "unknown"
        BY <3>2 DEF LockGone, GlTo, IsLock
      <4>2. /\ \A u \in Threads : Home[u] = Home[t] => ~Entered(u)'
            /\ \A pg \in Pages : dirty'[pg] # Home[t]
        BY <3>2 DEF Alone, Entered
      <4> QED
        BY <4>1, <4>2 DEF KnowsNothing
    <3> QED
      BY <1>7, <3>1, <3>2, ReadHeaderLeaves
  <2> QED
    BY <2>1, <2>2, <2>7, <2>8, <2>12, StateMoves, TypedThreads DEF IInv, TypeInv, DataType
<1>8. ASSUME NEW t \in Threads, BeginWrite(t) PROVE StateInv'
  <2>1. /\ \A u \in Threads \ {t} : th'[u] = th[u]
        /\ UNCHANGED header
        /\ UNCHANGED dirty
    BY <1>8, BeginWriteEffect DEF IInv, ThTo
  <2>2. \A q \in Procs \ {Home[t]} : bm'[q] = bm[q] /\ gl'[q] = gl[q]
    BY <1>8, BeginWriteEffect DEF IInv, BmTo, GlTo
  <2>3. bm'[Home[t]].scn = bm[Home[t]].scn
    BY <1>8, BeginWriteEffect DEF IInv, BmTo, IsManager
  <2>5. ~Entered(t)'
    BY <1>8, BeginWriteEffect DEF IInv, ThreadInv, Fits, ThTo, IsThread, Entered, Inside
  <2>6. MergeEnters(t)'
    BY <1>8, BeginWriteEffect DEF IInv, ThTo, IsThread, MergeEnters
  <2>7. \A u \in Threads : MergeEnters(u)'
    BY <2>1, <2>6 DEF IInv, StateInv, MergeEnters
  <2>8. \A u \in Threads \ {t} : Entered(u)' => Entered(u)
    BY <2>1 DEF Entered, Inside
  <2>12. KnowsAsBefore(Home[t]) \/ KnowsNothing(Home[t])
    <3>1. UNCHANGED gl
      BY <1>8, BeginWriteEffect DEF IInv
    <3>2. bm'[Home[t]].state = bm[Home[t]].state
      BY <1>8, BeginWriteEffect DEF IInv, BmTo, IsManager
    <3>3. \A u \in Threads : Home[u] = Home[t] /\ Entered(u)' => Known(Home[t])
      BY <2>5, <2>8 DEF IInv, StateInv
    <3>4. \A pg \in Pages : dirty'[pg] = Home[t] => Known(Home[t])
      BY <2>1, TypedThreads DEF IInv, StateInv
    <3> QED
      BY <2>1, <2>3, <3>1, <3>2, <3>3, <3>4 DEF KnowsAsBefore
  <2> QED
    BY <2>1, <2>2, <2>7, <2>8, <2>12, StateMoves, TypedThreads DEF IInv, TypeInv, DataType
<1>9. ASSUME NEW t \in Threads, LockWrite(t) PROVE StateInv'
  <2>1. /\ \A u \in Threads \ {t} : th'[u] = th[u]
        /\ UNCHANGED <<header, dirty>> /\ At(t, "lockWrite") /\ gl[Home[t]].pending = None
        /\ th'[t].op = th[t].op /\ th'[t].pc \in {"locked", "waitWrite"}
    BY <1>9, LockWriteEffect DEF IInv, ThTo, IsThread, At
  <2>2. \A q \in Procs \ {Home[t]} : bm'[q] = bm[q] /\ gl'[q] = gl[q]
    BY <1>9, LockWriteEffect DEF IInv, BmTo, GlTo
  <2>3. writer[Home[t]] # None
    BY <2>1, TypedThreads DEF IInv, LocalInv, Writing, At
  <2>4. /\ \A pg \in Pages : dirty[pg] # Home[t]
        /\ \A u \in Threads : Home[u] = Home[t] => ~Entered(u)
    BY <2>3, WriterAlone, TypedThreads DEF IInv, Entered
  <2>5. ~Entered(t)' /\ MergeEnters(t)'
    BY <1>9, <2>1, LockWriteEffect DEF IInv, ThreadInv, Fits, Entered, Inside, MergeEnters, At
  <2>6. \A u \in Threads : (Entered(u)' => Entered(u)) /\ MergeEnters(u)'
    BY <2>1, <2>5 DEF IInv, StateInv, Entered, Inside, MergeEnters
  <2>7. KnowsAsBefore(Home[t]) \/ KnowsNothing(Home[t])
    <3>1. \/ /\ bm'[Home[t]].state = bm[Home[t]].state /\ bm'[Home[t]].scn = bm[Home[t]].scn
             /\ gl'[Home[t]].phys = gl[Home[t]].phys /\ gl'[Home[t]].pending = gl[Home[t]].pending
          \/ /\ gl'[Home[t]].phys = "none"
             /\ bm'[Home[t]].state = IF gl[Home[t]].phys = "none" THEN bm[Home[t]].state ELSE "unknown"
      BY <1>9, LockWriteEffect DEF IInv, BmTo, IsManager, GlTo, IsLock
    <3>2. gl[Home[t]].phys = "none" => bm[Home[t]].state = "unknown"
      BY TypedThreads DEF IInv, StateInv, Known
    <3> QED
      BY <2>1, <2>4, <2>6, <3>1, <3>2 DEF KnowsAsBefore, KnowsNothing
  <2> QED
    BY <2>1, <2>2, <2>6, <2>7, StateMoves, TypedThreads DEF IInv, TypeInv, DataType
<1>10. ASSUME NEW t \in Threads, GrantedWrite(t) PROVE StateInv'
  <2>1. /\ \A u \in Threads \ {t} : th'[u] = th[u]
        /\ UNCHANGED <<header, dirty>> /\ At(t, "waitWrite") /\ gl[Home[t]].want = "none"
    BY <1>10, GrantedWriteEffect DEF IInv, ThTo, At
  <2>2. gl[Home[t]].phys = "write"
    BY <2>1 DEF IInv, GlobalInv, Waiting
  <2>3. /\ \A q \in Procs \ {Home[t]} : bm'[q] = bm[q] /\ gl'[q] = gl[q]
        /\ KnowsHeader(Home[t])
    BY <1>10, <2>1, <2>2, GrantedWriteEffect DEF IInv, BmTo, IsManager, GlTo, IsLock, KnowsHeader
  <2>4. MergeEnters(t)'
    BY <1>10, GrantedWriteEffect DEF IInv, ThreadInv, Fits, ThTo, IsThread, MergeEnters
  <2>5. /\ \A u \in Threads : MergeEnters(u)'
        /\ \A u \in Threads : Home[u] # Home[t] => (Entered(u)' <=> Entered(u))
    BY <2>1, <2>4 DEF IInv, StateInv, Entered, Inside, MergeEnters
  <2> QED
    BY <2>1, <2>3, <2>5, StateMoves, TypedThreads DEF IInv, TypeInv, DataType
<1>11. ASSUME NEW t \in Threads, Stall(t) PROVE StateInv'
  <2>1. /\ \A u \in Threads \ {t} : th'[u] = th[u]
        /\ UNCHANGED dirty /\ At(t, "locked")
    BY <1>11, StallStep DEF ThTo
  <2>2. /\ \A u \in Threads : ~Entered(u)
        /\ \A q \in Procs \ {Home[t]} : ~Known(q)
        /\ \A pg \in Pages : dirty[pg] = None
    BY <2>1, LockedAlone DEF IInv
  <2>3. ~Entered(t)' /\ MergeEnters(t)'
    BY <1>11, StallStep DEF ThTo, IsThread, Entered, Inside, MergeEnters
  <2>4. \A u \in Threads : ~Entered(u)' /\ MergeEnters(u)'
    BY <2>1, <2>2, <2>3 DEF IInv, StateInv, Entered, Inside, MergeEnters
  <2>5. /\ \A q \in Procs \ {Home[t]} : bm'[q] = bm[q] /\ gl'[q] = gl[q]
        /\ KnowsHeader(Home[t]) \/ KnowsNothing(Home[t])
    <3>1. PICK phys \in Level :
            /\ GlTo(Home[t], phys, "none", None, FALSE, FALSE)
            /\ bm'[Home[t]].state = IF phys = "none" THEN "unknown" ELSE header'.state
      BY <1>11, StallStep DEF LockTurned
    <3>2. \/ /\ header' = [state |-> "stalled", scn |-> header.scn + 1]
             /\ BmTo(Home[t], bm'[Home[t]].state, header.scn + 1, bm[Home[t]].table, FALSE)
          \/ header' = header /\ BmTo(Home[t], bm'[Home[t]].state, header.scn, bm[Home[t]].table, FALSE)
      BY <1>11, StallStep
    <3>3. bm'[Home[t]].scn = header'.scn /\ \A q \in Procs \ {Home[t]} : bm'[q] = bm[q]
      BY <3>2 DEF BmTo, IsManager
    <3>4. /\ \A q \in Procs \ {Home[t]} : gl'[q] = gl[q]
          /\ gl'[Home[t]].phys = phys /\ gl'[Home[t]].pending = None
      BY <3>1 DEF GlTo, IsLock
    <3>5. \A pg \in Pages : dirty'[pg] # Home[t]
      BY <2>1, <2>2, TypedThreads DEF IInv
    <3> QED
      BY <2>4, <3>1, <3>3, <3>4, <3>5 DEF KnowsHeader, KnowsNothing
  <2>6. header' \in [state : BackupState, scn : Nat]
    BY <1>11, DataTypeStep DEF DataType, Next, ThreadStep
  <2> QED
    BY <2>1, <2>2, <2>4, <2>5, <2>6, StateMoves, TypedThreads DEF IInv
<1>12. ASSUME NEW t \in Threads, Check(t) PROVE StateInv'
  <2>1. /\ \A u \in Threads \ {t} : th'[u] = th[u]
        /\ UNCHANGED header
        /\ UNCHANGED dirty
    BY <1>12, CheckEffect DEF IInv, ThTo
  <2>2. \A q \in Procs \ {Home[t]} : bm'[q] = bm[q] /\ gl'[q] = gl[q]
    BY <1>12, CheckEffect DEF IInv, BmTo, GlTo
  <2>3. bm'[Home[t]].scn = bm[Home[t]].scn
    BY <1>12, CheckEffect DEF IInv, BmTo, IsManager
  <2>5. ~Entered(t)'
    BY <1>12, CheckEffect DEF IInv, ThreadInv, Fits, ThTo, IsThread, Entered, Inside
  <2>6. MergeEnters(t)'
    BY <1>12, CheckEffect DEF IInv, ThTo, IsThread, MergeEnters
  <2>7. \A u \in Threads : MergeEnters(u)'
    BY <2>1, <2>6 DEF IInv, StateInv, MergeEnters
  <2>8. \A u \in Threads \ {t} : Entered(u)' => Entered(u)
    BY <2>1 DEF Entered, Inside
  <2>12. KnowsAsBefore(Home[t]) \/ KnowsNothing(Home[t])
    <3>1. CASE LockKept(Home[t]) /\ bm'[Home[t]].state = bm[Home[t]].state
      <4>1. gl'[Home[t]].phys = gl[Home[t]].phys /\ gl'[Home[t]].pending = gl[Home[t]].pending
        BY <3>1 DEF LockKept, GlTo, IsLock
      <4>2. \A u \in Threads : Home[u] = Home[t] /\ Entered(u)' => Known(Home[t])
        BY <2>5, <2>8 DEF IInv, StateInv
      <4>3. \A pg \in Pages : dirty'[pg] = Home[t] => Known(Home[t])
        BY <2>1, TypedThreads DEF IInv, StateInv
      <4> QED
        BY <2>1, <2>3, <3>1, <4>1, <4>2, <4>3 DEF KnowsAsBefore
    <3>2. CASE LockGone(Home[t]) /\ Alone(Home[t])'
      <4>1. gl'[Home[t]].phys = "none" /\ bm'[Home[t]].state = "unknown"
        BY <3>2 DEF LockGone, GlTo, IsLock
      <4>2. /\ \A u \in Threads : Home[u] = Home[t] => ~Entered(u)'
            /\ \A pg \in Pages : dirty'[pg] # Home[t]
        BY <3>2 DEF Alone, Entered
      <4> QED
        BY <4>1, <4>2 DEF KnowsNothing
    <3> QED
      BY <1>12, <3>1, <3>2, CheckLeaves
  <2> QED
    BY <2>1, <2>2, <2>7, <2>8, <2>12, StateMoves, TypedThreads DEF IInv, TypeInv, DataType
<1>13. ASSUME NEW t \in Threads, StartMerge(t) PROVE StateInv'
  <2>1. /\ \A u \in Threads \ {t} : th'[u] = th[u]
        /\ UNCHANGED dirty /\ At(t, "locked")
    BY <1>13, StartMergeStep DEF ThTo
  <2>2. /\ \A u \in Threads : ~Entered(u)
        /\ \A q \in Procs \ {Home[t]} : ~Known(q)
        /\ \A pg \in Pages : dirty[pg] = None
    BY <2>1, LockedAlone DEF IInv
  <2>3. ~Entered(t)' /\ MergeEnters(t)'
    BY <1>13, StartMergeStep DEF ThTo, IsThread, Entered, Inside, MergeEnters
  <2>4. \A u \in Threads : ~Entered(u)' /\ MergeEnters(u)'
    BY <2>1, <2>2, <2>3 DEF IInv, StateInv, Entered, Inside, MergeEnters
  <2>5. /\ \A q \in Procs \ {Home[t]} : bm'[q] = bm[q] /\ gl'[q] = gl[q]
        /\ KnowsHeader(Home[t]) \/ KnowsNothing(Home[t])
    <3>1. PICK phys \in Level :
            /\ GlTo(Home[t], phys, "none", None, FALSE, FALSE)
            /\ bm'[Home[t]].state = IF phys = "none" THEN "unknown" ELSE header'.state
      BY <1>13, StartMergeStep DEF LockTurned
    <3>2. \/ /\ header' = [state |-> "merge", scn |-> header.scn + 1]
             /\ BmTo(Home[t], bm'[Home[t]].state, header.scn + 1, bm[Home[t]].table, bm[Home[t]].master)
          \/ header' = header /\ BmTo(Home[t], bm'[Home[t]].state, header.scn, bm[Home[t]].table, FALSE)
      BY <1>13, StartMergeStep
    <3>3. bm'[Home[t]].scn = header'.scn /\ \A q \in Procs \ {Home[t]} : bm'[q] = bm[q]
      BY <3>2 DEF BmTo, IsManager
    <3>4. /\ \A q \in Procs \ {Home[t]} : gl'[q] = gl[q]
          /\ gl'[Home[t]].phys = phys /\ gl'[Home[t]].pending = None
      BY <3>1 DEF GlTo, IsLock
    <3>5. \A pg \in Pages : dirty'[pg] # Home[t]
      BY <2>1, <2>2, TypedThreads DEF IInv
    <3> QED
      BY <2>4, <3>1, <3>3, <3>4, <3>5 DEF KnowsHeader, KnowsNothing
  <2>6. header' \in [state : BackupState, scn : Nat]
    BY <1>13, DataTypeStep DEF DataType, Next, ThreadStep
  <2> QED
    BY <2>1, <2>2, <2>4, <2>5, <2>6, StateMoves, TypedThreads DEF IInv
<1>14. ASSUME NEW t \in Threads, Table(t) PROVE StateInv'
  <2>1. /\ \A u \in Threads \ {t} : th'[u] = th[u]
        /\ UNCHANGED header
        /\ UNCHANGED dirty
    BY <1>14, TableEffect DEF IInv, ThTo
  <2>2. \A q \in Procs \ {Home[t]} : bm'[q] = bm[q] /\ gl'[q] = gl[q]
    BY <1>14, TableEffect DEF IInv, BmTo, GlTo
  <2>3. bm'[Home[t]].scn = bm[Home[t]].scn
    BY <1>14, TableEffect DEF IInv, BmTo, IsManager
  <2>4. Entered(t)
    BY <1>14, TableEffect DEF IInv, ThreadInv, Fits, Entered, Inside
  <2>5. Known(Home[t])
    BY <2>4 DEF IInv, StateInv
  <2>6. MergeEnters(t)'
    BY <1>14, TableEffect DEF IInv, ThTo, IsThread, MergeEnters
  <2>7. \A u \in Threads : MergeEnters(u)'
    BY <2>1, <2>6 DEF IInv, StateInv, MergeEnters
  <2>8. \A u \in Threads \ {t} : Entered(u)' => Entered(u)
    BY <2>1 DEF Entered, Inside
  <2>12. KnowsAsBefore(Home[t]) \/ KnowsNothing(Home[t])
    <3>1. UNCHANGED gl
      BY <1>14, TableEffect DEF IInv
    <3>2. bm'[Home[t]].state = bm[Home[t]].state
      BY <1>14, TableEffect DEF IInv, BmTo, IsManager
    <3>3. \A u \in Threads : Home[u] = Home[t] /\ Entered(u)' => Known(Home[t])
      BY <2>5, <2>8 DEF IInv, StateInv
    <3>4. \A pg \in Pages : dirty'[pg] = Home[t] => Known(Home[t])
      BY <2>1, TypedThreads DEF IInv, StateInv
    <3> QED
      BY <2>1, <2>3, <3>1, <3>2, <3>3, <3>4 DEF KnowsAsBefore
  <2> QED
    BY <2>1, <2>2, <2>7, <2>8, <2>12, StateMoves, TypedThreads DEF IInv, TypeInv, DataType
<1>15. ASSUME NEW t \in Threads, MergeFlush(t) PROVE StateInv'
  <2>1. /\ \A u \in Threads \ {t} : th'[u] = th[u]
        /\ UNCHANGED header
        /\ UNCHANGED dirty
    BY <1>15, MergeFlushEffect DEF IInv, ThTo
  <2>2. \A q \in Procs \ {Home[t]} : bm'[q] = bm[q] /\ gl'[q] = gl[q]
    BY <1>15, MergeFlushEffect DEF IInv, BmTo, GlTo
  <2>3. bm'[Home[t]].scn = bm[Home[t]].scn
    BY <1>15, MergeFlushEffect DEF IInv, BmTo, IsManager
  <2>4. Entered(t)
    BY <1>15, MergeFlushEffect DEF IInv, ThreadInv, Fits, Entered, Inside
  <2>5. Known(Home[t])
    BY <2>4 DEF IInv, StateInv
  <2>6. MergeEnters(t)'
    BY <1>15, MergeFlushEffect DEF IInv, ThTo, IsThread, MergeEnters
  <2>7. \A u \in Threads : MergeEnters(u)'
    BY <2>1, <2>6 DEF IInv, StateInv, MergeEnters
  <2>8. \A u \in Threads \ {t} : Entered(u)' => Entered(u)
    BY <2>1 DEF Entered, Inside
  <2>12. KnowsAsBefore(Home[t]) \/ KnowsNothing(Home[t])
    <3>1. UNCHANGED gl
      BY <1>15, MergeFlushEffect DEF IInv
    <3>2. bm'[Home[t]].state = bm[Home[t]].state
      BY <1>15, MergeFlushEffect DEF IInv, BmTo, IsManager
    <3>3. \A u \in Threads : Home[u] = Home[t] /\ Entered(u)' => Known(Home[t])
      BY <2>5, <2>8 DEF IInv, StateInv
    <3>4. \A pg \in Pages : dirty'[pg] = Home[t] => Known(Home[t])
      BY <2>1, TypedThreads DEF IInv, StateInv
    <3> QED
      BY <2>1, <2>3, <3>1, <3>2, <3>3, <3>4 DEF KnowsAsBefore
  <2> QED
    BY <2>1, <2>2, <2>7, <2>8, <2>12, StateMoves, TypedThreads DEF IInv, TypeInv, DataType
<1>16. ASSUME NEW t \in Threads, Merged(t) PROVE StateInv'
  <2>1. /\ \A u \in Threads \ {t} : th'[u] = th[u]
        /\ UNCHANGED header
        /\ UNCHANGED dirty
    BY <1>16, MergedEffect DEF IInv, ThTo
  <2>2. \A q \in Procs \ {Home[t]} : bm'[q] = bm[q] /\ gl'[q] = gl[q]
    BY <1>16, MergedEffect DEF IInv, BmTo, GlTo
  <2>3. bm'[Home[t]].scn = bm[Home[t]].scn
    BY <1>16, MergedEffect DEF IInv, BmTo, IsManager
  <2>5. ~Entered(t)'
    BY <1>16, MergedEffect DEF IInv, ThreadInv, Fits, ThTo, IsThread, Entered, Inside
  <2>6. MergeEnters(t)'
    BY <1>16, MergedEffect DEF IInv, ThTo, IsThread, MergeEnters
  <2>7. \A u \in Threads : MergeEnters(u)'
    BY <2>1, <2>6 DEF IInv, StateInv, MergeEnters
  <2>8. \A u \in Threads \ {t} : Entered(u)' => Entered(u)
    BY <2>1 DEF Entered, Inside
  <2>12. KnowsAsBefore(Home[t]) \/ KnowsNothing(Home[t])
    <3>1. CASE LockKept(Home[t]) /\ bm'[Home[t]].state = bm[Home[t]].state
      <4>1. gl'[Home[t]].phys = gl[Home[t]].phys /\ gl'[Home[t]].pending = gl[Home[t]].pending
        BY <3>1 DEF LockKept, GlTo, IsLock
      <4>2. \A u \in Threads : Home[u] = Home[t] /\ Entered(u)' => Known(Home[t])
        BY <2>5, <2>8 DEF IInv, StateInv
      <4>3. \A pg \in Pages : dirty'[pg] = Home[t] => Known(Home[t])
        BY <2>1, TypedThreads DEF IInv, StateInv
      <4> QED
        BY <2>1, <2>3, <3>1, <4>1, <4>2, <4>3 DEF KnowsAsBefore
    <3>2. CASE LockGone(Home[t]) /\ Alone(Home[t])'
      <4>1. gl'[Home[t]].phys = "none" /\ bm'[Home[t]].state = "unknown"
        BY <3>2 DEF LockGone, GlTo, IsLock
      <4>2. /\ \A u \in Threads : Home[u] = Home[t] => ~Entered(u)'
            /\ \A pg \in Pages : dirty'[pg] # Home[t]
        BY <3>2 DEF Alone, Entered
      <4> QED
        BY <4>1, <4>2 DEF KnowsNothing
    <3> QED
      BY <1>16, <3>1, <3>2, MergedLeaves
  <2> QED
    BY <2>1, <2>2, <2>7, <2>8, <2>12, StateMoves, TypedThreads DEF IInv, TypeInv, DataType
<1>17. ASSUME NEW t \in Threads, Finish(t) PROVE StateInv'
  <2>1. /\ \A u \in Threads \ {t} : th'[u] = th[u]
        /\ UNCHANGED dirty /\ At(t, "locked")
    BY <1>17, FinishStep DEF ThTo
  <2>2. /\ \A u \in Threads : ~Entered(u)
        /\ \A q \in Procs \ {Home[t]} : ~Known(q)
        /\ \A pg \in Pages : dirty[pg] = None
    BY <2>1, LockedAlone DEF IInv
  <2>3. ~Entered(t)' /\ MergeEnters(t)'
    BY <1>17, FinishStep DEF ThTo, IsThread, Entered, Inside, MergeEnters
  <2>4. \A u \in Threads : ~Entered(u)' /\ MergeEnters(u)'
    BY <2>1, <2>2, <2>3 DEF IInv, StateInv, Entered, Inside, MergeEnters
  <2>5. /\ \A q \in Procs \ {Home[t]} : bm'[q] = bm[q] /\ gl'[q] = gl[q]
        /\ KnowsHeader(Home[t]) \/ KnowsNothing(Home[t])
    <3>1. PICK phys \in Level :
            /\ GlTo(Home[t], phys, "none", None, FALSE, FALSE)
            /\ bm'[Home[t]].state = IF phys = "none" THEN "unknown" ELSE header'.state
      BY <1>17, FinishStep DEF LockTurned
    <3>2. /\ header' = [state |-> "normal", scn |-> header.scn + 1]
          /\ BmTo(Home[t], bm'[Home[t]].state, header.scn + 1, {}, FALSE)
      BY <1>17, FinishStep
    <3>3. bm'[Home[t]].scn = header'.scn /\ \A q \in Procs \ {Home[t]} : bm'[q] = bm[q]
      BY <3>2 DEF BmTo, IsManager
    <3>4. /\ \A q \in Procs \ {Home[t]} : gl'[q] = gl[q]
          /\ gl'[Home[t]].phys = phys /\ gl'[Home[t]].pending = None
      BY <3>1 DEF GlTo, IsLock
    <3>5. \A pg \in Pages : dirty'[pg] # Home[t]
      BY <2>1, <2>2, TypedThreads DEF IInv
    <3> QED
      BY <2>4, <3>1, <3>3, <3>4, <3>5 DEF KnowsHeader, KnowsNothing
  <2>6. header' \in [state : BackupState, scn : Nat]
    BY <1>17, DataTypeStep DEF DataType, Next, ThreadStep
  <2> QED
    BY <2>1, <2>2, <2>4, <2>5, <2>6, StateMoves, TypedThreads DEF IInv
<1>18. ASSUME NEW t \in Threads, BeginBackup(t) PROVE StateInv'
  <2>1. /\ \A u \in Threads \ {t} : th'[u] = th[u]
        /\ UNCHANGED header
        /\ UNCHANGED dirty
    BY <1>18, BeginBackupEffect DEF IInv, ThTo
  <2>2. \A q \in Procs \ {Home[t]} : bm'[q] = bm[q] /\ gl'[q] = gl[q]
    BY <1>18, BeginBackupEffect DEF IInv, BmTo, GlTo
  <2>3. bm'[Home[t]].scn = bm[Home[t]].scn
    BY <1>18, BeginBackupEffect DEF IInv, BmTo, IsManager
  <2>5. ~Entered(t)'
    BY <1>18, BeginBackupEffect DEF IInv, ThreadInv, Fits, ThTo, IsThread, Entered, Inside
  <2>6. MergeEnters(t)'
    BY <1>18, BeginBackupEffect DEF IInv, ThTo, IsThread, MergeEnters
  <2>7. \A u \in Threads : MergeEnters(u)'
    BY <2>1, <2>6 DEF IInv, StateInv, MergeEnters
  <2>8. \A u \in Threads \ {t} : Entered(u)' => Entered(u)
    BY <2>1 DEF Entered, Inside
  <2>12. KnowsAsBefore(Home[t]) \/ KnowsNothing(Home[t])
    <3>1. UNCHANGED gl
      BY <1>18, BeginBackupEffect DEF IInv
    <3>2. bm'[Home[t]].state = bm[Home[t]].state
      BY <1>18, BeginBackupEffect DEF IInv, BmTo, IsManager
    <3>3. \A u \in Threads : Home[u] = Home[t] /\ Entered(u)' => Known(Home[t])
      BY <2>5, <2>8 DEF IInv, StateInv
    <3>4. \A pg \in Pages : dirty'[pg] = Home[t] => Known(Home[t])
      BY <2>1, TypedThreads DEF IInv, StateInv
    <3> QED
      BY <2>1, <2>3, <3>1, <3>2, <3>3, <3>4 DEF KnowsAsBefore
  <2> QED
    BY <2>1, <2>2, <2>7, <2>8, <2>12, StateMoves, TypedThreads DEF IInv, TypeInv, DataType
<1>19. ASSUME NEW t \in Threads, EndBackup(t) PROVE StateInv'
  <2>1. /\ \A u \in Threads \ {t} : th'[u] = th[u]
        /\ UNCHANGED header
        /\ UNCHANGED dirty
    BY <1>19, EndBackupEffect DEF IInv, ThTo
  <2>2. \A q \in Procs \ {Home[t]} : bm'[q] = bm[q] /\ gl'[q] = gl[q]
    BY <1>19, EndBackupEffect DEF IInv, BmTo, GlTo
  <2>3. bm'[Home[t]].scn = bm[Home[t]].scn
    BY <1>19, EndBackupEffect DEF IInv, BmTo, IsManager
  <2>5. ~Entered(t)'
    BY <1>19, EndBackupEffect DEF IInv, ThreadInv, Fits, ThTo, IsThread, Entered, Inside
  <2>6. MergeEnters(t)'
    BY <1>19, EndBackupEffect DEF IInv, ThTo, IsThread, MergeEnters
  <2>7. \A u \in Threads : MergeEnters(u)'
    BY <2>1, <2>6 DEF IInv, StateInv, MergeEnters
  <2>8. \A u \in Threads \ {t} : Entered(u)' => Entered(u)
    BY <2>1 DEF Entered, Inside
  <2>12. KnowsAsBefore(Home[t]) \/ KnowsNothing(Home[t])
    <3>1. UNCHANGED gl
      BY <1>19, EndBackupEffect DEF IInv
    <3>2. bm'[Home[t]].state = bm[Home[t]].state
      BY <1>19, EndBackupEffect DEF IInv, BmTo, IsManager
    <3>3. \A u \in Threads : Home[u] = Home[t] /\ Entered(u)' => Known(Home[t])
      BY <2>5, <2>8 DEF IInv, StateInv
    <3>4. \A pg \in Pages : dirty'[pg] = Home[t] => Known(Home[t])
      BY <2>1, TypedThreads DEF IInv, StateInv
    <3> QED
      BY <2>1, <2>3, <3>1, <3>2, <3>3, <3>4 DEF KnowsAsBefore
  <2> QED
    BY <2>1, <2>2, <2>7, <2>8, <2>12, StateMoves, TypedThreads DEF IInv, TypeInv, DataType
<1>20. ASSUME NEW t \in Threads, NEW pg \in Pages, Merge(t, pg) PROVE StateInv'
  <2>1. /\ \A u \in Threads \ {t} : th'[u] = th[u]
        /\ UNCHANGED header
        /\ UNCHANGED dirty
    BY <1>20, MergeEffect DEF IInv, ThTo
  <2>2. \A q \in Procs \ {Home[t]} : bm'[q] = bm[q] /\ gl'[q] = gl[q]
    BY <1>20, MergeEffect DEF IInv, BmTo, GlTo
  <2>3. bm'[Home[t]].scn = bm[Home[t]].scn
    BY <1>20, MergeEffect DEF IInv, BmTo, IsManager
  <2>4. Entered(t)
    BY <1>20, MergeEffect DEF IInv, ThreadInv, Fits, Entered, Inside
  <2>5. Known(Home[t])
    BY <2>4 DEF IInv, StateInv
  <2>6. MergeEnters(t)'
    BY <1>20, MergeEffect DEF IInv, ThTo, IsThread, MergeEnters
  <2>7. \A u \in Threads : MergeEnters(u)'
    BY <2>1, <2>6 DEF IInv, StateInv, MergeEnters
  <2>8. \A u \in Threads \ {t} : Entered(u)' => Entered(u)
    BY <2>1 DEF Entered, Inside
  <2>12. KnowsAsBefore(Home[t]) \/ KnowsNothing(Home[t])
    <3>1. UNCHANGED gl
      BY <1>20, MergeEffect DEF IInv
    <3>2. bm'[Home[t]].state = bm[Home[t]].state
      BY <1>20, MergeEffect DEF IInv, BmTo, IsManager
    <3>3. \A u \in Threads : Home[u] = Home[t] /\ Entered(u)' => Known(Home[t])
      BY <2>5, <2>8 DEF IInv, StateInv
    <3>4. \A x \in Pages : dirty'[x] = Home[t] => Known(Home[t])
      BY <2>1, TypedThreads DEF IInv, StateInv
    <3> QED
      BY <2>1, <2>3, <3>1, <3>2, <3>3, <3>4 DEF KnowsAsBefore
  <2> QED
    BY <2>1, <2>2, <2>7, <2>8, <2>12, StateMoves, TypedThreads DEF IInv, TypeInv, DataType
<1>21. ASSUME NEW t \in Threads, NEW pg \in Pages, Fetch(t, pg) PROVE StateInv'
  <2>1. /\ \A u \in Threads \ {t} : th'[u] = th[u]
        /\ UNCHANGED header
        /\ UNCHANGED dirty
    BY <1>21, FetchEffect DEF IInv, ThTo
  <2>2. \A q \in Procs \ {Home[t]} : bm'[q] = bm[q] /\ gl'[q] = gl[q]
    BY <1>21, FetchEffect DEF IInv, BmTo, GlTo
  <2>3. bm'[Home[t]].scn = bm[Home[t]].scn
    BY <1>21, FetchEffect DEF IInv, BmTo, IsManager
  <2>5. Entered(t)' => Known(Home[t])
    <3>1. Entered(t)' => dirty[pg] # None /\ dirty[pg] = Home[t]
      BY <1>21, FetchEffect DEF IInv, ThTo, IsThread, Entered, Inside
    <3> QED
      BY <3>1 DEF IInv, StateInv
  <2>6. MergeEnters(t)'
    BY <1>21, FetchEffect DEF IInv, ThTo, IsThread, MergeEnters
  <2>7. \A u \in Threads : MergeEnters(u)'
    BY <2>1, <2>6 DEF IInv, StateInv, MergeEnters
  <2>8. \A u \in Threads \ {t} : Entered(u)' => Entered(u)
    BY <2>1 DEF Entered, Inside
  <2>12. KnowsAsBefore(Home[t]) \/ KnowsNothing(Home[t])
    <3>1. UNCHANGED gl
      BY <1>21, FetchEffect DEF IInv
    <3>2. bm'[Home[t]].state = bm[Home[t]].state
      BY <1>21, FetchEffect DEF IInv, BmTo, IsManager
    <3>3. \A u \in Threads : Home[u] = Home[t] /\ Entered(u)' => Known(Home[t])
      BY <2>5, <2>8 DEF IInv, StateInv
    <3>4. \A x \in Pages : dirty'[x] = Home[t] => Known(Home[t])
      BY <2>1, TypedThreads DEF IInv, StateInv
    <3> QED
      BY <2>1, <2>3, <3>1, <3>2, <3>3, <3>4 DEF KnowsAsBefore
  <2> QED
    BY <2>1, <2>2, <2>7, <2>8, <2>12, StateMoves, TypedThreads DEF IInv, TypeInv, DataType
<1>22. ASSUME NEW pg \in Pages, Write(pg) PROVE StateInv'
  <2> DEFINE p == dirty[pg]
  <2>1. /\ p \in Procs /\ dirty' = [dirty EXCEPT ![pg] = None] /\ UNCHANGED header
        /\ \A u \in Threads : th'[u].pc = th[u].pc /\ th'[u].op = th[u].op /\ th'[u].why = th[u].why
    BY <1>22, WriteEffect DEF IInv, IsThread
  <2>2. \A q \in Procs \ {p} : bm'[q] = bm[q] /\ gl'[q] = gl[q]
    BY <1>22, WriteEffect DEF IInv, BmTo, GlTo
  <2>3. bm'[p].scn = bm[p].scn
    BY <1>22, WriteEffect DEF IInv, BmTo, IsManager
  <2>4. \A u \in Threads : Entered(u)' <=> Entered(u)
    BY <2>1 DEF Entered, Inside
  <2>5. \A u \in Threads : MergeEnters(u)'
    BY <2>1 DEF IInv, StateInv, MergeEnters
  <2>6. \A q \in Pages : dirty'[q] \in {None, dirty[q]}
    BY <2>1 DEF IInv, TypeInv, DataType
  <2>7. ASSUME NEW r \in Procs, r = p PROVE KnowsAsBefore(r) \/ KnowsNothing(r)
    <3>1. CASE LockKept(r) /\ bm'[r].state = bm[r].state
      <4>1. gl'[r].phys = gl[r].phys /\ gl'[r].pending = gl[r].pending
        BY <3>1 DEF LockKept, GlTo, IsLock
      <4>2. \A u \in Threads : Home[u] = r /\ Entered(u)' => Known(r)
        BY <2>4 DEF IInv, StateInv
      <4>3. \A q \in Pages : dirty'[q] = r => Known(r)
        BY <2>6, TypedThreads DEF IInv, StateInv
      <4> QED
        BY <2>1, <2>3, <2>7, <3>1, <4>1, <4>2, <4>3 DEF KnowsAsBefore
    <3>2. CASE LockGone(r) /\ Alone(r)'
      <4>1. gl'[r].phys = "none" /\ bm'[r].state = "unknown"
        BY <3>2 DEF LockGone, GlTo, IsLock
      <4>2. /\ \A u \in Threads : Home[u] = r => ~Entered(u)'
            /\ \A q \in Pages : dirty'[q] # r
        BY <3>2 DEF Alone, Entered
      <4> QED
        BY <4>1, <4>2 DEF KnowsNothing
    <3> QED
      BY <1>22, <2>7, <3>1, <3>2, WriteLeaves
  <2>8. ASSUME NEW r \in Procs, r = p PROVE StateInv'
    BY <2>1, <2>2, <2>4, <2>5, <2>6, <2>7, <2>8, StateMoves DEF IInv, TypeInv, DataType
  <2> QED
    BY <2>1, <2>8
<1>23. ASSUME NEW p \in Procs, Grant(p) PROVE StateInv'
  <2>1. UNCHANGED <<th, header, dirty, bm>>
    BY <1>23, GrantEffect DEF IInv
  <2>2. \A q \in Procs \ {p} : gl'[q] = gl[q]
    BY <1>23, GrantEffect DEF IInv, GlTo
  <2>3. gl[p].phys = "none" /\ gl'[p].pending = gl[p].pending /\ gl[p].pending # None
    BY <1>23, GrantEffect DEF IInv, GlTo, IsLock, GlobalInv, Waiting
  <2>4. ~Known(p)
    BY <2>3 DEF IInv, StateInv
  <2>5. /\ \A u \in Threads : Entered(u)' <=> Entered(u)
        /\ \A u \in Threads : MergeEnters(u)'
    BY <2>1 DEF IInv, StateInv, MergeEnters, Entered, Inside
  <2>6. KnowsNothing(p)
    BY <2>1, <2>3, <2>4, <2>5, TypedThreads DEF IInv, StateInv, Known, KnowsNothing
  <2> QED
    BY <2>1, <2>2, <2>5, <2>6, StateMoves DEF IInv, TypeInv, DataType
<1>24. ASSUME NEW p \in Procs, Ast(p) PROVE StateInv'
  <2>1. UNCHANGED <<th, header, dirty>>
    BY <1>24, AstEffect DEF IInv
  <2>2. \A q \in Procs \ {p} : bm'[q] = bm[q] /\ gl'[q] = gl[q]
    BY <1>24, AstStep DEF BmTo, GlTo
  <2>3. /\ \A u \in Threads : Entered(u)' <=> Entered(u)
        /\ \A u \in Threads : Home[u] = p /\ Entered(u) => Known(p)
        /\ \A pg \in Pages : dirty[pg] = p => Known(p)
        /\ \A u \in Threads : MergeEnters(u)'
    BY <2>1, TypedThreads DEF IInv, StateInv, MergeEnters, Entered, Inside
  <2>4. KnowsAsBefore(p) \/ KnowsNothing(p)
    <3>1. \/ /\ bm'[p].state = bm[p].state /\ bm'[p].scn = bm[p].scn
             /\ gl'[p].phys = gl[p].phys /\ gl'[p].pending = gl[p].pending
          \/ Readers(p) = {} /\ bm'[p].state = "unknown" /\ gl'[p].phys = "none"
          \/ /\ bm'[p].state = bm[p].state /\ bm'[p].scn = bm[p].scn
             /\ gl'[p].phys = "read" /\ gl[p].phys = "write" /\ gl'[p].pending = gl[p].pending
      BY <1>24, AstStep DEF BmTo, IsManager, GlTo, IsLock
    <3>2. Readers(p) = {} => /\ \A u \in Threads : Home[u] = p => ~Entered(u)
                             /\ \A pg \in Pages : dirty[pg] # p
      BY NoReaders DEF IInv, Entered
    <3> QED
      BY <2>1, <2>3, <3>1, <3>2 DEF KnowsAsBefore, KnowsNothing
  <2> QED
    BY <2>1, <2>2, <2>3, <2>4, StateMoves DEF IInv, TypeInv, DataType
<1>25. ASSUME NEW p \in Procs, AstTry(p) PROVE StateInv'
  <2>1. UNCHANGED <<th, header, dirty>>
    BY <1>25, AstEffect DEF IInv
  <2>2. \A q \in Procs \ {p} : bm'[q] = bm[q] /\ gl'[q] = gl[q]
    BY <1>25, AstStep DEF BmTo, GlTo
  <2>3. /\ \A u \in Threads : Entered(u)' <=> Entered(u)
        /\ \A u \in Threads : Home[u] = p /\ Entered(u) => Known(p)
        /\ \A pg \in Pages : dirty[pg] = p => Known(p)
        /\ \A u \in Threads : MergeEnters(u)'
    BY <2>1, TypedThreads DEF IInv, StateInv, MergeEnters, Entered, Inside
  <2>4. KnowsAsBefore(p) \/ KnowsNothing(p)
    <3>1. \/ /\ bm'[p].state = bm[p].state /\ bm'[p].scn = bm[p].scn
             /\ gl'[p].phys = gl[p].phys /\ gl'[p].pending = gl[p].pending
          \/ Readers(p) = {} /\ bm'[p].state = "unknown" /\ gl'[p].phys = "none"
          \/ /\ bm'[p].state = bm[p].state /\ bm'[p].scn = bm[p].scn
             /\ gl'[p].phys = "read" /\ gl[p].phys = "write" /\ gl'[p].pending = gl[p].pending
      BY <1>25, AstStep DEF BmTo, IsManager, GlTo, IsLock
    <3>2. Readers(p) = {} => /\ \A u \in Threads : Home[u] = p => ~Entered(u)
                             /\ \A pg \in Pages : dirty[pg] # p
      BY NoReaders DEF IInv, Entered
    <3> QED
      BY <2>1, <2>3, <3>1, <3>2 DEF KnowsAsBefore, KnowsNothing
  <2> QED
    BY <2>1, <2>2, <2>3, <2>4, StateMoves DEF IInv, TypeInv, DataType
<1>26. ASSUME NEW p \in Procs, AstSet(p) PROVE StateInv'
  <2>1. UNCHANGED <<th, header, dirty>>
    BY <1>26, AstEffect DEF IInv
  <2>2. \A q \in Procs \ {p} : bm'[q] = bm[q] /\ gl'[q] = gl[q]
    BY <1>26, AstStep DEF BmTo, GlTo
  <2>3. /\ \A u \in Threads : Entered(u)' <=> Entered(u)
        /\ \A u \in Threads : Home[u] = p /\ Entered(u) => Known(p)
        /\ \A pg \in Pages : dirty[pg] = p => Known(p)
        /\ \A u \in Threads : MergeEnters(u)'
    BY <2>1, TypedThreads DEF IInv, StateInv, MergeEnters, Entered, Inside
  <2>4. KnowsAsBefore(p) \/ KnowsNothing(p)
    <3>1. \/ /\ bm'[p].state = bm[p].state /\ bm'[p].scn = bm[p].scn
             /\ gl'[p].phys = gl[p].phys /\ gl'[p].pending = gl[p].pending
          \/ Readers(p) = {} /\ bm'[p].state = "unknown" /\ gl'[p].phys = "none"
          \/ /\ bm'[p].state = bm[p].state /\ bm'[p].scn = bm[p].scn
             /\ gl'[p].phys = "read" /\ gl[p].phys = "write" /\ gl'[p].pending = gl[p].pending
      BY <1>26, AstStep DEF BmTo, IsManager, GlTo, IsLock
    <3>2. Readers(p) = {} => /\ \A u \in Threads : Home[u] = p => ~Entered(u)
                             /\ \A pg \in Pages : dirty[pg] # p
      BY NoReaders DEF IInv, Entered
    <3> QED
      BY <2>1, <2>3, <3>1, <3>2 DEF KnowsAsBefore, KnowsNothing
  <2> QED
    BY <2>1, <2>2, <2>3, <2>4, StateMoves DEF IInv, TypeInv, DataType
<1>27. ASSUME NEW p \in Procs, Crash(p) PROVE StateInv'
  <2>1. /\ UNCHANGED header /\ dirty' = [pg \in Pages |-> IF dirty[pg] = p THEN None ELSE dirty[pg]]
        /\ \A t \in Threads : IF Home[t] = p THEN IsThread(th'[t], "idle", "none", "none", None, {})
                                             ELSE th'[t] = th[t]
    BY <1>27, CrashEffect DEF IInv
  <2>2. \A q \in Procs \ {p} : bm'[q] = bm[q] /\ gl'[q] = gl[q]
    BY <1>27, CrashEffect DEF IInv, BmTo, GlTo
  <2>3. gl'[p].phys = "none" /\ bm'[p].state = "unknown"
    BY <1>27, CrashEffect DEF IInv, BmTo, GlTo, IsManager, IsLock
  <2>4. \A u \in Threads : /\ Entered(u)' => Entered(u) /\ Home[u] # p
                           /\ MergeEnters(u)'
    BY <2>1 DEF IInv, StateInv, MergeEnters, Entered, Inside, IsThread
  <2>5. \A pg \in Pages : dirty'[pg] # p /\ dirty'[pg] \in {None, dirty[pg]}
    BY <2>1, TypedThreads DEF IInv
  <2>6. KnowsNothing(p)
    BY <2>3, <2>4, <2>5 DEF KnowsNothing
  <2> QED
    BY <2>1, <2>2, <2>4, <2>5, <2>6, StateMoves DEF IInv, TypeInv, DataType
<1>28. CASE UNCHANGED vars
  <2>1. UNCHANGED <<gl, th, dirty, bm, header>>
    BY <1>28 DEF vars, disk, pool
  <2> QED
    BY <2>1 DEF IInv, StateInv, Entered, Inside, Known
<1> QED
  BY <1>1, <1>2, <1>3, <1>4, <1>5, <1>6, <1>7, <1>8, <1>9, <1>10, <1>11, <1>12, <1>13, <1>14, <1>15, <1>16, <1>17, <1>18, <1>19, <1>20, <1>21, <1>22, <1>23, <1>24, <1>25, <1>26, <1>27, <1>28 DEF Next, ThreadStep

\* The table of p is kept, or it is that of the present difference file.
LEMMA TableKept ==
  ASSUME IInv, NEW p \in Procs, UNCHANGED header, DOMAIN delta \subseteq DOMAIN delta',
         \A q \in Procs \ {p} : bm'[q] = bm[q], bm'[p].scn = bm[p].scn,
         bm'[p].table = bm[p].table \/ (Known(p) /\ bm'[p].table \subseteq DOMAIN delta')
  PROVE  TableInv'
<1>1. header.scn \in Nat
  BY DEF IInv, TypeInv, DataType
<1>2. \A q \in Procs : TableFits(bm[q].scn, bm[q].table)
  BY DEF IInv, TableInv
<1>3. ASSUME NEW q \in Procs PROVE TableFits(bm[q].scn, bm[q].table)'
  <2>1. CASE bm'[q].scn = bm[q].scn /\ bm'[q].table = bm[q].table
    BY <1>2, <2>1 DEF TableFits
  <2>2. CASE q = p /\ Known(p) /\ bm'[p].table \subseteq DOMAIN delta'
    <3>1. bm'[q].scn = header.scn
      BY <2>2 DEF IInv, StateInv
    <3> QED
      BY <1>1, <2>2, <3>1 DEF TableFits
  <2> QED
    BY <2>1, <2>2
<1> QED
  BY <1>3 DEF TableInv

\* fetch of the global lock: actualizeState
LEMMA TableActualized ==
  ASSUME IInv, NEW p \in Procs, UNCHANGED <<header, delta>>, NEW state, NEW m,
         BmTo(p, state, header.scn,
              IF header.state = "normal" \/ header.scn - bm[p].scn > 1 THEN {} ELSE bm[p].table, m)
  PROVE  TableInv'
<1>1. header.scn \in Nat /\ bm[p].scn \in Nat /\ header.state \in BackupState
  BY TypedThreads DEF IInv, TypeInv, DataType, Manager
<1>2. \A q \in Procs : TableFits(bm[q].scn, bm[q].table)
  BY DEF IInv, TableInv
<1>3. /\ \A q \in Procs \ {p} : bm'[q] = bm[q]
      /\ bm'[p].scn = header.scn
      /\ bm'[p].table = IF header.state = "normal" \/ header.scn - bm[p].scn > 1 THEN {} ELSE bm[p].table
  BY DEF BmTo, IsManager
<1>4. bm'[p].table \subseteq DOMAIN delta
  <2>1. CASE header.state = "normal" \/ header.scn - bm[p].scn > 1
    BY <1>3, <2>1
  <2>2. CASE header.state # "normal" /\ ~(header.scn - bm[p].scn > 1)
    <3>1. bm[p].scn <= header.scn
      BY <1>2 DEF TableFits
    <3>2. bm[p].scn = header.scn \/ bm[p].scn + 1 = header.scn
      BY <1>1, <2>2, <3>1
    <3>3. bm[p].table \subseteq DOMAIN delta
      BY <1>1, <1>2, <2>2, <3>2 DEF TableFits, BackupState
    <3> QED
      BY <1>3, <2>2, <3>3
  <2> QED
    BY <2>1, <2>2
<1>5. ASSUME NEW q \in Procs PROVE TableFits(bm[q].scn, bm[q].table)'
  BY <1>1, <1>2, <1>3, <1>4 DEF TableFits
<1> QED
  BY <1>5 DEF TableInv

\* A new state.
LEMMA TableChanged ==
  ASSUME IInv, NEW p \in Procs, Known(p), NEW state \in BackupState, NEW known, NEW table, NEW m,
         header' = [state |-> state, scn |-> header.scn + 1],
         BmTo(p, known, header.scn + 1, table, m),
         CASE state = "stalled" -> header.state = "normal" /\ delta' = NoTable /\ table = bm[p].table
           [] state = "merge" -> UNCHANGED delta /\ table = bm[p].table
           [] OTHER -> table = {}
  PROVE  TableInv'
<1>1. header.scn \in Nat /\ header'.scn = header.scn + 1 /\ header'.state = state
      /\ \A q \in Procs : bm[q].scn \in Nat
  BY TypedThreads DEF IInv, TypeInv, DataType, Manager
<1>2. \A q \in Procs : TableFits(bm[q].scn, bm[q].table)
  BY DEF IInv, TableInv
<1>3. /\ \A q \in Procs \ {p} : bm'[q] = bm[q]
      /\ bm'[p].scn = header.scn + 1 /\ bm'[p].table = table
  BY DEF BmTo, IsManager
<1>4. bm[p].scn = header.scn
  BY DEF IInv, StateInv
<1>5. CASE state = "stalled"
  <2>1. DOMAIN delta = {} /\ DOMAIN delta' = {} /\ table = bm[p].table
    BY <1>5 DEF IInv, DiskInv, NoTable
  <2>2. ASSUME NEW q \in Procs PROVE TableFits(bm[q].scn, bm[q].table)'
    <3>1. CASE q = p
      BY <1>1, <1>2, <1>3, <1>4, <1>5, <2>1, <3>1 DEF TableFits
    <3>2. CASE q # p
      <4>1. bm[q].scn <= header.scn /\ (bm[q].scn = header.scn => bm[q].table = {})
        BY <1>2, <2>1 DEF TableFits
      <4> QED
        BY <1>1, <1>3, <1>5, <2>1, <3>2, <4>1 DEF TableFits
    <3> QED
      BY <3>1, <3>2
  <2> QED
    BY <2>2 DEF TableInv
<1>6. CASE state = "merge"
  <2>1. UNCHANGED delta /\ table = bm[p].table
    BY <1>6
  <2>2. ASSUME NEW q \in Procs PROVE TableFits(bm[q].scn, bm[q].table)'
    <3>1. CASE q = p
      BY <1>1, <1>2, <1>3, <1>4, <1>6, <2>1, <3>1 DEF TableFits
    <3>2. CASE q # p
      <4>1. bm[q].scn <= header.scn /\ (bm[q].scn = header.scn => bm[q].table \subseteq DOMAIN delta)
        BY <1>2, <2>1 DEF TableFits
      <4> QED
        BY <1>1, <1>3, <1>6, <2>1, <3>2, <4>1 DEF TableFits
    <3> QED
      BY <3>1, <3>2
  <2> QED
    BY <2>2 DEF TableInv
<1>7. CASE state = "normal"
  <2>1. table = {}
    BY <1>7
  <2>2. ASSUME NEW q \in Procs PROVE TableFits(bm[q].scn, bm[q].table)'
    <3>1. CASE q = p
      BY <1>1, <1>3, <1>7, <2>1, <3>1 DEF TableFits
    <3>2. CASE q # p
      <4>1. bm[q].scn <= header.scn
        BY <1>2 DEF TableFits
      <4> QED
        BY <1>1, <1>3, <1>7, <3>2, <4>1 DEF TableFits
    <3> QED
      BY <3>1, <3>2
  <2> QED
    BY <2>2 DEF TableInv
<1> QED
  BY <1>5, <1>6, <1>7 DEF BackupState

LEMMA TableStep ==
  ASSUME MastersQuiet, IInv, [Next]_vars
  PROVE  TableInv'
<1>1. ASSUME NEW t \in Threads, Enter(t) PROVE TableInv'
  <2>1. UNCHANGED <<bm, header, delta>>
    BY <1>1, EnterEffect DEF IInv
  <2> QED
    BY <2>1 DEF IInv, TableInv, TableFits
<1>2. ASSUME NEW t \in Threads, LockRead(t) PROVE TableInv'
  <2>1. UNCHANGED <<bm, header, delta>>
    BY <1>2, ReadsUnblocked, LockReadEffect DEF IInv
  <2> QED
    BY <2>1 DEF IInv, TableInv, TableFits
<1>3. ASSUME NEW t \in Threads, GrantedRead(t) PROVE TableInv'
  <2>1. UNCHANGED <<header, delta>>
    BY <1>3, ReadsUnblocked, GrantedReadEffect DEF IInv
  <2>2. BmTo(Home[t], header.state, header.scn,
             IF header.state = "normal" \/ header.scn - bm[Home[t]].scn > 1 THEN {} ELSE bm[Home[t]].table,
             bm[Home[t]].master)
    BY <1>3, ReadsUnblocked, GrantedReadEffect DEF IInv
  <2> QED
    BY <2>1, <2>2, TableActualized, TypedThreads DEF IInv
<1>4. ASSUME NEW t \in Threads, Read(t) PROVE TableInv'
  <2>1. UNCHANGED <<header, delta>>
    BY <1>4, ReadEffect DEF IInv
  <2>2. /\ \A q \in Procs \ {Home[t]} : bm'[q] = bm[q]
        /\ bm'[Home[t]].scn = bm[Home[t]].scn
        /\ bm'[Home[t]].table \in {bm[Home[t]].table, DOMAIN delta}
    BY <1>4, ReadEffect DEF IInv, BmTo, IsManager
  <2>3. Entered(t)
    BY <1>4, ReadEffect DEF IInv, Entered, Inside
  <2>4. Known(Home[t])
    BY <2>3 DEF IInv, StateInv
  <2> QED
    BY <2>1, <2>2, <2>4, TableKept, TypedThreads DEF IInv
<1>5. ASSUME NEW t \in Threads, Mark(t) PROVE TableInv'
  <2>1. DOMAIN delta' \subseteq Pages
    BY <1>5, DataTypeStep DEF DataType, Next, ThreadStep
  <2>2. UNCHANGED header /\ DOMAIN delta \subseteq DOMAIN delta'
    BY <1>5, <2>1, MarkEffect DEF IInv
  <2>3. /\ \A q \in Procs \ {Home[t]} : bm'[q] = bm[q]
        /\ bm'[Home[t]].scn = bm[Home[t]].scn
        /\ bm'[Home[t]].table \in {bm[Home[t]].table, DOMAIN delta, DOMAIN delta'}
    BY <1>5, <2>1, MarkEffect DEF IInv, BmTo, IsManager
  <2>4. Entered(t)
    BY <1>5, <2>1, MarkEffect DEF IInv, Entered, Inside
  <2>5. Known(Home[t])
    BY <2>4 DEF IInv, StateInv
  <2> QED
    BY <2>2, <2>3, <2>5, TableKept, TypedThreads DEF IInv
<1>6. ASSUME NEW t \in Threads, FetchHeader(t) PROVE TableInv'
  <2>1. UNCHANGED <<bm, header, delta>>
    BY <1>6, FetchHeaderEffect DEF IInv
  <2> QED
    BY <2>1 DEF IInv, TableInv, TableFits
<1>7. ASSUME NEW t \in Threads, ReadHeader(t) PROVE TableInv'
  <2>1. UNCHANGED <<header, delta>>
    BY <1>7, ReadHeaderEffect DEF IInv
  <2>2. /\ \A q \in Procs \ {Home[t]} : bm'[q] = bm[q]
        /\ bm'[Home[t]].scn = bm[Home[t]].scn /\ bm'[Home[t]].table = bm[Home[t]].table
    BY <1>7, ReadHeaderEffect DEF IInv, BmTo, IsManager
  <2> QED
    BY <2>1, <2>2, TableKept, TypedThreads DEF IInv
<1>8. ASSUME NEW t \in Threads, BeginWrite(t) PROVE TableInv'
  <2>1. UNCHANGED <<bm, header, delta>>
    BY <1>8, BeginWriteEffect DEF IInv
  <2> QED
    BY <2>1 DEF IInv, TableInv, TableFits
<1>9. ASSUME NEW t \in Threads, LockWrite(t) PROVE TableInv'
  <2>1. UNCHANGED <<header, delta>>
    BY <1>9, LockWriteEffect DEF IInv
  <2>2. /\ \A q \in Procs \ {Home[t]} : bm'[q] = bm[q]
        /\ bm'[Home[t]].scn = bm[Home[t]].scn /\ bm'[Home[t]].table = bm[Home[t]].table
    BY <1>9, LockWriteEffect DEF IInv, BmTo, IsManager
  <2> QED
    BY <2>1, <2>2, TableKept, TypedThreads DEF IInv
<1>10. ASSUME NEW t \in Threads, GrantedWrite(t) PROVE TableInv'
  <2>1. UNCHANGED <<header, delta>>
    BY <1>10, GrantedWriteEffect DEF IInv
  <2>2. BmTo(Home[t], header.state, header.scn,
             IF header.state = "normal" \/ header.scn - bm[Home[t]].scn > 1 THEN {} ELSE bm[Home[t]].table,
             bm[Home[t]].master)
    BY <1>10, GrantedWriteEffect DEF IInv
  <2> QED
    BY <2>1, <2>2, TableActualized, TypedThreads DEF IInv
<1>11. ASSUME NEW t \in Threads, Stall(t) PROVE TableInv'
  <2>1. Known(Home[t]) /\ Home[t] \in Procs
    BY <1>11, StallStep, LockedAlone, TypedThreads DEF IInv
  <2>2. CASE header.state = "normal"
    <3>1. /\ header' = [state |-> "stalled", scn |-> header.scn + 1]
          /\ delta' = NoTable
          /\ BmTo(Home[t], bm'[Home[t]].state, header.scn + 1, bm[Home[t]].table, FALSE)
      BY <1>11, <2>2, StallStep
    <3> QED
      BY <2>2, <2>1, <3>1, TableChanged DEF BackupState
  <2>3. CASE header.state # "normal"
    <3>1. /\ UNCHANGED <<header, delta>>
          /\ BmTo(Home[t], bm'[Home[t]].state, header.scn, bm[Home[t]].table, FALSE)
      BY <1>11, <2>3, StallStep
    <3>2. bm[Home[t]].scn = header.scn
      BY <2>1 DEF IInv, StateInv
    <3>3. /\ \A q \in Procs \ {Home[t]} : bm'[q] = bm[q]
          /\ bm'[Home[t]].scn = bm[Home[t]].scn /\ bm'[Home[t]].table = bm[Home[t]].table
      BY <3>1, <3>2 DEF BmTo, IsManager
    <3> QED
      BY <3>1, <3>3, TableKept, TypedThreads DEF IInv
  <2> QED
    BY <2>2, <2>3
<1>12. ASSUME NEW t \in Threads, Check(t) PROVE TableInv'
  <2>1. UNCHANGED <<header, delta>>
    BY <1>12, CheckEffect DEF IInv
  <2>2. /\ \A q \in Procs \ {Home[t]} : bm'[q] = bm[q]
        /\ bm'[Home[t]].scn = bm[Home[t]].scn /\ bm'[Home[t]].table = bm[Home[t]].table
    BY <1>12, CheckEffect DEF IInv, BmTo, IsManager
  <2> QED
    BY <2>1, <2>2, TableKept, TypedThreads DEF IInv
<1>13. ASSUME NEW t \in Threads, StartMerge(t) PROVE TableInv'
  <2>1. Known(Home[t]) /\ Home[t] \in Procs
    BY <1>13, StartMergeStep, LockedAlone, TypedThreads DEF IInv
  <2>2. CASE header.state # "normal"
    <3>1. /\ header' = [state |-> "merge", scn |-> header.scn + 1]
          /\ UNCHANGED delta
          /\ BmTo(Home[t], bm'[Home[t]].state, header.scn + 1, bm[Home[t]].table, bm[Home[t]].master)
      BY <1>13, <2>2, StartMergeStep
    <3> QED
      BY <2>2, <2>1, <3>1, TableChanged DEF BackupState
  <2>3. CASE header.state = "normal"
    <3>1. /\ UNCHANGED <<header, delta>>
          /\ BmTo(Home[t], bm'[Home[t]].state, header.scn, bm[Home[t]].table, FALSE)
      BY <1>13, <2>3, StartMergeStep
    <3>2. bm[Home[t]].scn = header.scn
      BY <2>1 DEF IInv, StateInv
    <3>3. /\ \A q \in Procs \ {Home[t]} : bm'[q] = bm[q]
          /\ bm'[Home[t]].scn = bm[Home[t]].scn /\ bm'[Home[t]].table = bm[Home[t]].table
      BY <3>1, <3>2 DEF BmTo, IsManager
    <3> QED
      BY <3>1, <3>3, TableKept, TypedThreads DEF IInv
  <2> QED
    BY <2>2, <2>3
<1>14. ASSUME NEW t \in Threads, Table(t) PROVE TableInv'
  <2>1. UNCHANGED <<header, delta>>
    BY <1>14, TableEffect DEF IInv
  <2>2. /\ \A q \in Procs \ {Home[t]} : bm'[q] = bm[q]
        /\ bm'[Home[t]].scn = bm[Home[t]].scn
        /\ bm'[Home[t]].table \in {bm[Home[t]].table, DOMAIN delta}
    BY <1>14, TableEffect DEF IInv, BmTo, IsManager
  <2>3. Entered(t)
    BY <1>14, TableEffect DEF IInv, Entered, Inside
  <2>4. Known(Home[t])
    BY <2>3 DEF IInv, StateInv
  <2> QED
    BY <2>1, <2>2, <2>4, TableKept, TypedThreads DEF IInv
<1>15. ASSUME NEW t \in Threads, MergeFlush(t) PROVE TableInv'
  <2>1. UNCHANGED <<bm, header, delta>>
    BY <1>15, MergeFlushEffect DEF IInv
  <2> QED
    BY <2>1 DEF IInv, TableInv, TableFits
<1>16. ASSUME NEW t \in Threads, Merged(t) PROVE TableInv'
  <2>1. UNCHANGED <<header, delta>>
    BY <1>16, MergedEffect DEF IInv
  <2>2. /\ \A q \in Procs \ {Home[t]} : bm'[q] = bm[q]
        /\ bm'[Home[t]].scn = bm[Home[t]].scn /\ bm'[Home[t]].table = bm[Home[t]].table
    BY <1>16, MergedEffect DEF IInv, BmTo, IsManager
  <2> QED
    BY <2>1, <2>2, TableKept, TypedThreads DEF IInv
<1>17. ASSUME NEW t \in Threads, Finish(t) PROVE TableInv'
  <2>1. Known(Home[t]) /\ Home[t] \in Procs
    BY <1>17, FinishStep, LockedAlone, TypedThreads DEF IInv
  <2> QED
    <3>1. /\ header' = [state |-> "normal", scn |-> header.scn + 1]
          /\ BmTo(Home[t], bm'[Home[t]].state, header.scn + 1, {}, FALSE)
      BY <1>17, FinishStep
    <3> QED
      BY <2>1, <3>1, TableChanged DEF BackupState
<1>18. ASSUME NEW t \in Threads, BeginBackup(t) PROVE TableInv'
  <2>1. UNCHANGED <<header, delta>>
    BY <1>18, BeginBackupEffect DEF IInv
  <2>2. /\ \A q \in Procs \ {Home[t]} : bm'[q] = bm[q]
        /\ bm'[Home[t]].scn = bm[Home[t]].scn /\ bm'[Home[t]].table = bm[Home[t]].table
    BY <1>18, BeginBackupEffect DEF IInv, BmTo, IsManager
  <2> QED
    BY <2>1, <2>2, TableKept, TypedThreads DEF IInv
<1>19. ASSUME NEW t \in Threads, EndBackup(t) PROVE TableInv'
  <2>1. UNCHANGED <<header, delta>>
    BY <1>19, EndBackupEffect DEF IInv
  <2>2. /\ \A q \in Procs \ {Home[t]} : bm'[q] = bm[q]
        /\ bm'[Home[t]].scn = bm[Home[t]].scn /\ bm'[Home[t]].table = bm[Home[t]].table
    BY <1>19, EndBackupEffect DEF IInv, BmTo, IsManager
  <2> QED
    BY <2>1, <2>2, TableKept, TypedThreads DEF IInv
<1>20. ASSUME NEW t \in Threads, NEW pg \in Pages, Merge(t, pg) PROVE TableInv'
  <2>1. UNCHANGED <<bm, header, delta>>
    BY <1>20, MergeEffect DEF IInv
  <2> QED
    BY <2>1 DEF IInv, TableInv, TableFits
<1>21. ASSUME NEW t \in Threads, NEW pg \in Pages, Fetch(t, pg) PROVE TableInv'
  <2>1. UNCHANGED <<bm, header, delta>>
    BY <1>21, FetchEffect DEF IInv
  <2> QED
    BY <2>1 DEF IInv, TableInv, TableFits
<1>22. ASSUME NEW pg \in Pages, Write(pg) PROVE TableInv'
  <2>1. UNCHANGED header /\ DOMAIN delta' = DOMAIN delta /\ dirty[pg] \in Procs
    BY <1>22, WriteEffect DEF IInv
  <2>2. /\ \A q \in Procs \ {dirty[pg]} : bm'[q] = bm[q]
        /\ bm'[dirty[pg]].scn = bm[dirty[pg]].scn /\ bm'[dirty[pg]].table = bm[dirty[pg]].table
    BY <1>22, WriteEffect DEF IInv, BmTo, IsManager
  <2> QED
    BY <2>1, <2>2, TableKept, TypedThreads DEF IInv
<1>23. ASSUME NEW p \in Procs, Grant(p) PROVE TableInv'
  <2>1. UNCHANGED <<bm, header, delta>>
    BY <1>23, GrantEffect DEF IInv
  <2> QED
    BY <2>1 DEF IInv, TableInv, TableFits
<1>24. ASSUME NEW p \in Procs, Ast(p) PROVE TableInv'
  <2>1. UNCHANGED <<header, delta>>
    BY <1>24, AstEffect, AstStep DEF IInv
  <2>2. /\ \A q \in Procs \ {p} : bm'[q] = bm[q]
        /\ bm'[p].scn = bm[p].scn /\ bm'[p].table = bm[p].table
    BY <1>24, AstStep DEF IInv, BmTo, IsManager
  <2> QED
    BY <2>1, <2>2, TableKept, TypedThreads DEF IInv
<1>25. ASSUME NEW p \in Procs, AstTry(p) PROVE TableInv'
  <2>1. UNCHANGED <<header, delta>>
    BY <1>25, AstEffect, AstStep DEF IInv
  <2>2. /\ \A q \in Procs \ {p} : bm'[q] = bm[q]
        /\ bm'[p].scn = bm[p].scn /\ bm'[p].table = bm[p].table
    BY <1>25, AstStep DEF IInv, BmTo, IsManager
  <2> QED
    BY <2>1, <2>2, TableKept, TypedThreads DEF IInv
<1>26. ASSUME NEW p \in Procs, AstSet(p) PROVE TableInv'
  <2>1. UNCHANGED <<header, delta>>
    BY <1>26, AstEffect, AstStep DEF IInv
  <2>2. /\ \A q \in Procs \ {p} : bm'[q] = bm[q]
        /\ bm'[p].scn = bm[p].scn /\ bm'[p].table = bm[p].table
    BY <1>26, AstStep DEF IInv, BmTo, IsManager
  <2> QED
    BY <2>1, <2>2, TableKept, TypedThreads DEF IInv
<1>27. ASSUME NEW p \in Procs, Crash(p) PROVE TableInv'
  <2>1. UNCHANGED <<header, delta>>
    BY <1>27, CrashEffect DEF IInv
  <2>2. /\ \A q \in Procs \ {p} : bm'[q] = bm[q]
        /\ bm'[p].scn = 0 /\ bm'[p].table = {}
    BY <1>27, CrashEffect DEF IInv, BmTo, IsManager
  <2>3. header.scn \in Nat
    BY DEF IInv, TypeInv, DataType
  <2>4. ASSUME NEW q \in Procs PROVE TableFits(bm[q].scn, bm[q].table)'
    BY <2>1, <2>2, <2>3 DEF IInv, TableInv, TableFits
  <2> QED
    BY <2>4 DEF TableInv
<1>28. CASE UNCHANGED vars
  <2>1. UNCHANGED <<bm, header, delta>>
    BY <1>28 DEF vars, disk
  <2> QED
    BY <2>1 DEF IInv, TableInv, TableFits
<1> QED
  BY <1>1, <1>2, <1>3, <1>4, <1>5, <1>6, <1>7, <1>8, <1>9, <1>10, <1>11, <1>12, <1>13, <1>14, <1>15, <1>16, <1>17, <1>18, <1>19, <1>20, <1>21, <1>22, <1>23, <1>24, <1>25, <1>26, <1>27, <1>28 DEF Next, ThreadStep

\* No page becomes dirty.
LEMMA DirtyKept ==
  ASSUME IInv, UNCHANGED header, DOMAIN delta' = DOMAIN delta,
         \A pg \in Pages : dirty'[pg] # None =>
           /\ dirty[pg] # None /\ buf'[pg] = buf[pg] /\ latest'[pg] = latest[pg]
           /\ pg \in target => pg \in target'
  PROVE  DirtyInv'
BY DEF IInv, DirtyInv

\* A clean page that is read is what it was at its last change.
LEMMA StoredLatest ==
  ASSUME IInv, NEW p \in Procs, Known(p), NEW pg \in Pages, dirty[pg] = None
  PROVE  Stored(p, pg).v = latest[pg]
<1>1. bm[p].state = header.state /\ bm[p].scn = header.scn
  BY DEF IInv, StateInv
<1>2. bm[p].table \subseteq DOMAIN delta
  BY <1>1 DEF IInv, TableInv, TableFits
<1>3. latest[pg] = OnDisk(pg).v
  BY DEF IInv, DiskInv, NothingLost
<1> QED
  BY <1>1, <1>2, <1>3 DEF Stored, OnDisk

\* The page a thread reads is not dirty.
LEMMA ReadsClean ==
  ASSUME IInv, NEW t \in Threads, At(t, "read")
  PROVE  /\ th[t].page \in Pages /\ busy[th[t].page] = t /\ dirty[th[t].page] = None
         /\ Known(Home[t])
<1>1. HoldsPage(t) /\ ~Marking(t) /\ Entered(t)
  BY DEF At, HoldsPage, Marking, Entering, Entered, Inside
<1> QED
  BY <1>1, Held DEF IInv, PageInv, StateInv

\* The page a thread marks.
LEMMA MarksHeld ==
  ASSUME IInv, NEW t \in Threads, At(t, "mark")
  PROVE  /\ th[t].page \in Pages /\ busy[th[t].page] = t /\ HasPage(t)
         /\ Known(Home[t])
         /\ dirty[th[t].page] = None \/ dirty[th[t].page] = Home[t]
<1>1. HoldsPage(t) /\ HasPage(t) /\ Entered(t)
  BY DEF At, HoldsPage, HasPage, Entered, Inside
<1> QED
  BY <1>1, Held DEF IInv, StateInv

LEMMA DirtyStep ==
  ASSUME MastersQuiet, IInv, [Next]_vars
  PROVE  DirtyInv'
<1>1. ASSUME NEW t \in Threads, Enter(t) PROVE DirtyInv'
  <2>1. UNCHANGED <<header, delta, dirty, buf, latest, target>>
    BY <1>1, EnterEffect DEF IInv
  <2> QED
    BY <2>1, DirtyKept DEF IInv
<1>2. ASSUME NEW t \in Threads, LockRead(t) PROVE DirtyInv'
  <2>1. UNCHANGED <<header, delta, dirty, buf, latest, target>>
    BY <1>2, ReadsUnblocked, LockReadEffect DEF IInv
  <2> QED
    BY <2>1, DirtyKept DEF IInv
<1>3. ASSUME NEW t \in Threads, GrantedRead(t) PROVE DirtyInv'
  <2>1. UNCHANGED <<header, delta, dirty, buf, latest, target>>
    BY <1>3, ReadsUnblocked, GrantedReadEffect DEF IInv
  <2> QED
    BY <2>1, DirtyKept DEF IInv
<1>4. ASSUME NEW t \in Threads, Read(t) PROVE DirtyInv'
  <2>1. /\ UNCHANGED <<header, delta, dirty, latest, target>>
        /\ buf' = [buf EXCEPT ![th[t].page] = Stored(Home[t], th[t].page)]
    BY <1>4, ReadEffect DEF IInv
  <2>2. th[t].page \in Pages /\ dirty[th[t].page] = None
    BY <1>4, ReadEffect, ReadsClean DEF IInv, At
  <2>3. \A pg \in Pages \ {th[t].page} : buf'[pg] = buf[pg]
    BY <2>1 DEF IInv, TypeInv, DataType
  <2> QED
    BY <2>1, <2>2, <2>3, DirtyKept
<1>5. ASSUME NEW t \in Threads, Mark(t) PROVE DirtyInv'
  <2> DEFINE p == Home[t]
             pg == th[t].page
  <2>1. DOMAIN delta' \subseteq Pages
    BY <1>5, DataTypeStep DEF DataType, Next, ThreadStep
  <2>2. At(t, "mark")
    BY <1>5, <2>1, MarkEffect DEF IInv, At
  <2>3. pg \in Pages /\ p \in Procs /\ Known(p) /\ buf[pg].v = latest[pg]
    BY <2>2, MarksHeld, TypedThreads DEF IInv, HeldInv
  <2>4. bm[p].state = header.state /\ bm[p].scn = header.scn /\ bm[p].table \subseteq DOMAIN delta
    BY <2>3 DEF IInv, StateInv, TableInv, TableFits
  <2>5. /\ buf \in [Pages -> PageImage] /\ latest \in [Pages -> Nat] /\ dirty \in [Pages -> Procs \union {None}]
        /\ target \subseteq Pages
    BY DEF IInv, TypeInv, DataType
  <2>6. /\ buf'[pg].v = latest'[pg] /\ buf'[pg].scn = header.scn
        /\ \A q \in Pages \ {pg} : buf'[q] = buf[q] /\ latest'[q] = latest[q] /\ dirty'[q] = dirty[q]
    <3>1. PICK change \in {0, 1} : /\ latest' = [latest EXCEPT ![pg] = @ + change]
                                   /\ buf' = [buf EXCEPT ![pg] = [v |-> @.v + change, scn |-> bm[p].scn]]
      BY <1>5, <2>1, MarkEffect DEF IInv
    <3>2. dirty' = [dirty EXCEPT ![pg] = p]
      BY <1>5, <2>1, MarkEffect DEF IInv
    <3> HIDE DEF pg, p
    <3> QED
      BY <2>3, <2>4, <2>5, <3>1, <3>2 DEF PageImage
  <2>7. /\ UNCHANGED header
        /\ DOMAIN delta' = IF header.state = "stalled" THEN DOMAIN delta \union {pg} ELSE DOMAIN delta
    <3>1. /\ UNCHANGED header
          /\ delta' = IF bm[p].state = "stalled" /\ pg \notin bm[p].table \union DOMAIN delta
                      THEN [q \in DOMAIN delta \union {pg} |-> IF q = pg THEN Blank ELSE delta[q]]
                      ELSE delta
      BY <1>5, <2>1, MarkEffect DEF IInv
    <3> HIDE DEF pg, p
    <3> QED
      BY <2>4, <3>1
  <2>8. header.state = "merge" /\ pg \in DOMAIN delta => pg \in target'
    <3>1. /\ bm[p].state # "stalled" => bm'[p].table = IF bm[p].state # "normal" /\ pg \notin bm[p].table
                                                       THEN DOMAIN delta ELSE bm[p].table
          /\ target' = IF pg \in bm'[p].table /\ bm[p].state \in {"stalled", "merge"}
                       THEN target \union {pg} ELSE target
      BY <1>5, <2>1, MarkEffect DEF IInv, BmTo, IsManager
    <3> HIDE DEF pg, p
    <3> QED
      BY <2>4, <3>1
  <2>9. target \subseteq target'
    BY <1>5, <2>1, MarkEffect DEF IInv
  <2> HIDE DEF pg, p
  <2>10. ASSUME NEW q \in Pages, dirty'[q] # None
         PROVE  /\ buf'[q].v = latest'[q] /\ buf'[q].scn = header'.scn
                /\ header'.state = "stalled" => q \in DOMAIN delta'
                /\ header'.state = "merge" /\ q \in DOMAIN delta' => q \in target'
    <3>1. CASE q = pg
      BY <2>6, <2>7, <2>8, <3>1
    <3>2. CASE q # pg
      <4>1. dirty[q] # None /\ buf'[q] = buf[q] /\ latest'[q] = latest[q]
        BY <2>6, <2>10, <3>2
      <4> QED
        BY <2>7, <2>9, <3>2, <4>1 DEF IInv, DirtyInv
    <3> QED
      BY <3>1, <3>2
  <2> QED
    BY <2>10 DEF DirtyInv
<1>6. ASSUME NEW t \in Threads, FetchHeader(t) PROVE DirtyInv'
  <2>1. UNCHANGED <<header, delta, dirty, buf, latest, target>>
    BY <1>6, FetchHeaderEffect DEF IInv
  <2> QED
    BY <2>1, DirtyKept DEF IInv
<1>7. ASSUME NEW t \in Threads, ReadHeader(t) PROVE DirtyInv'
  <2>1. UNCHANGED <<header, delta, dirty, buf, latest, target>>
    BY <1>7, ReadHeaderEffect DEF IInv
  <2> QED
    BY <2>1, DirtyKept DEF IInv
<1>8. ASSUME NEW t \in Threads, BeginWrite(t) PROVE DirtyInv'
  <2>1. UNCHANGED <<header, delta, dirty, buf, latest, target>>
    BY <1>8, BeginWriteEffect DEF IInv
  <2> QED
    BY <2>1, DirtyKept DEF IInv
<1>9. ASSUME NEW t \in Threads, LockWrite(t) PROVE DirtyInv'
  <2>1. UNCHANGED <<header, delta, dirty, buf, latest, target>>
    BY <1>9, LockWriteEffect DEF IInv
  <2> QED
    BY <2>1, DirtyKept DEF IInv
<1>10. ASSUME NEW t \in Threads, GrantedWrite(t) PROVE DirtyInv'
  <2>1. UNCHANGED <<header, delta, dirty, buf, latest, target>>
    BY <1>10, GrantedWriteEffect DEF IInv
  <2> QED
    BY <2>1, DirtyKept DEF IInv
<1>11. ASSUME NEW t \in Threads, Stall(t) PROVE DirtyInv'
  <2>1. At(t, "locked") /\ UNCHANGED dirty
    BY <1>11, StallStep
  <2>2. \A pg \in Pages : dirty[pg] = None
    BY <2>1, LockedAlone DEF IInv
  <2> QED
    BY <2>1, <2>2 DEF DirtyInv
<1>12. ASSUME NEW t \in Threads, Check(t) PROVE DirtyInv'
  <2>1. UNCHANGED <<header, delta, dirty, buf, latest, target>>
    BY <1>12, CheckEffect DEF IInv
  <2> QED
    BY <2>1, DirtyKept DEF IInv
<1>13. ASSUME NEW t \in Threads, StartMerge(t) PROVE DirtyInv'
  <2>1. At(t, "locked") /\ UNCHANGED dirty
    BY <1>13, StartMergeStep
  <2>2. \A pg \in Pages : dirty[pg] = None
    BY <2>1, LockedAlone DEF IInv
  <2> QED
    BY <2>1, <2>2 DEF DirtyInv
<1>14. ASSUME NEW t \in Threads, Table(t) PROVE DirtyInv'
  <2>1. UNCHANGED <<header, delta, dirty, buf, latest, target>>
    BY <1>14, TableEffect DEF IInv
  <2> QED
    BY <2>1, DirtyKept DEF IInv
<1>15. ASSUME NEW t \in Threads, MergeFlush(t) PROVE DirtyInv'
  <2>1. UNCHANGED <<header, delta, dirty, buf, latest, target>>
    BY <1>15, MergeFlushEffect DEF IInv
  <2> QED
    BY <2>1, DirtyKept DEF IInv
<1>16. ASSUME NEW t \in Threads, Merged(t) PROVE DirtyInv'
  <2>1. UNCHANGED <<header, delta, dirty, buf, latest, target>>
    BY <1>16, MergedEffect DEF IInv
  <2> QED
    BY <2>1, DirtyKept DEF IInv
<1>17. ASSUME NEW t \in Threads, Finish(t) PROVE DirtyInv'
  <2>1. At(t, "locked") /\ UNCHANGED dirty
    BY <1>17, FinishStep
  <2>2. \A pg \in Pages : dirty[pg] = None
    BY <2>1, LockedAlone DEF IInv
  <2> QED
    BY <2>1, <2>2 DEF DirtyInv
<1>18. ASSUME NEW t \in Threads, BeginBackup(t) PROVE DirtyInv'
  <2>1. UNCHANGED <<header, delta, dirty, buf, latest, target>>
    BY <1>18, BeginBackupEffect DEF IInv
  <2> QED
    BY <2>1, DirtyKept DEF IInv
<1>19. ASSUME NEW t \in Threads, EndBackup(t) PROVE DirtyInv'
  <2>1. UNCHANGED <<header, delta, dirty, buf, latest, target>>
    BY <1>19, EndBackupEffect DEF IInv
  <2> QED
    BY <2>1, DirtyKept DEF IInv
<1>20. ASSUME NEW t \in Threads, NEW pg \in Pages, Merge(t, pg) PROVE DirtyInv'
  <2>1. UNCHANGED <<header, delta, dirty, buf, latest, target>>
    BY <1>20, MergeEffect DEF IInv
  <2> QED
    BY <2>1, DirtyKept DEF IInv
<1>21. ASSUME NEW t \in Threads, NEW pg \in Pages, Fetch(t, pg) PROVE DirtyInv'
  <2>1. UNCHANGED <<header, delta, dirty, buf, latest, target>>
    BY <1>21, FetchEffect DEF IInv
  <2> QED
    BY <2>1, DirtyKept DEF IInv
<1>22. ASSUME NEW pg \in Pages, Write(pg) PROVE DirtyInv'
  <2>1. /\ UNCHANGED <<header, latest, buf>> /\ DOMAIN delta' = DOMAIN delta
        /\ dirty' = [dirty EXCEPT ![pg] = None] /\ target' = target \ {pg}
    BY <1>22, WriteEffect DEF IInv
  <2>2. dirty'[pg] = None /\ \A q \in Pages \ {pg} : dirty'[q] = dirty[q]
    BY <2>1 DEF IInv, TypeInv, DataType
  <2> QED
    BY <2>1, <2>2, DirtyKept
<1>23. ASSUME NEW p \in Procs, Grant(p) PROVE DirtyInv'
  <2>1. UNCHANGED <<header, delta, dirty, buf, latest, target>>
    BY <1>23, GrantEffect DEF IInv
  <2> QED
    BY <2>1, DirtyKept DEF IInv
<1>24. ASSUME NEW p \in Procs, Ast(p) PROVE DirtyInv'
  <2>1. UNCHANGED <<header, delta, dirty, buf, latest, target>>
    BY <1>24, AstEffect DEF IInv
  <2> QED
    BY <2>1, DirtyKept DEF IInv
<1>25. ASSUME NEW p \in Procs, AstTry(p) PROVE DirtyInv'
  <2>1. UNCHANGED <<header, delta, dirty, buf, latest, target>>
    BY <1>25, AstEffect DEF IInv
  <2> QED
    BY <2>1, DirtyKept DEF IInv
<1>26. ASSUME NEW p \in Procs, AstSet(p) PROVE DirtyInv'
  <2>1. UNCHANGED <<header, delta, dirty, buf, latest, target>>
    BY <1>26, AstEffect DEF IInv
  <2> QED
    BY <2>1, DirtyKept DEF IInv
<1>27. ASSUME NEW p \in Procs, Crash(p) PROVE DirtyInv'
  <2>1. /\ UNCHANGED <<header, delta, buf>> /\ target' = target \ Dirty(p)
        /\ latest' = [pg \in Pages |-> IF dirty[pg] = p THEN OnDisk(pg).v ELSE latest[pg]]
        /\ dirty' = [pg \in Pages |-> IF dirty[pg] = p THEN None ELSE dirty[pg]]
    BY <1>27, CrashEffect DEF IInv
  <2>2. \A pg \in Pages : dirty'[pg] # None => /\ dirty[pg] # None /\ latest'[pg] = latest[pg]
                                               /\ pg \in target => pg \in target'
    BY <2>1 DEF Dirty
  <2> QED
    BY <2>1, <2>2, DirtyKept
<1>28. CASE UNCHANGED vars
  <2>1. UNCHANGED <<header, delta, dirty, buf, latest, target>>
    BY <1>28 DEF vars, disk, pool
  <2> QED
    BY <2>1, DirtyKept DEF IInv
<1> QED
  BY <1>1, <1>2, <1>3, <1>4, <1>5, <1>6, <1>7, <1>8, <1>9, <1>10, <1>11, <1>12, <1>13, <1>14, <1>15, <1>16, <1>17, <1>18, <1>19, <1>20, <1>21, <1>22, <1>23, <1>24, <1>25, <1>26, <1>27, <1>28 DEF Next, ThreadStep

\* The other threads hold other pages; of those nothing changes.
LEMMA HeldKept ==
  ASSUME IInv, NEW t \in Threads, \A u \in Threads \ {t} : th'[u] = th[u],
         \A pg \in Pages : busy[pg] # t /\ busy[pg] # None => buf'[pg] = buf[pg] /\ latest'[pg] = latest[pg],
         HasPage(t)' => buf'[th'[t].page].v = latest'[th'[t].page]
  PROVE  HeldInv'
<1>1. ASSUME NEW u \in Threads \ {t}, HasPage(u)' PROVE buf'[th'[u].page].v = latest'[th'[u].page]
  <2>1. HoldsPage(u) /\ HasPage(u) /\ th'[u] = th[u]
    BY <1>1 DEF HasPage, HoldsPage, Entering
  <2>2. th[u].page \in Pages /\ busy[th[u].page] = u /\ u # None /\ u # t
    BY <1>1, <2>1, Held, TypedThreads DEF IInv
  <2>3. buf[th[u].page].v = latest[th[u].page]
    BY <2>1 DEF IInv, HeldInv
  <2> QED
    BY <2>1, <2>2, <2>3
<1> QED
  BY <1>1 DEF HeldInv

LEMMA HeldStep ==
  ASSUME MastersQuiet, IInv, [Next]_vars
  PROVE  HeldInv'
<1>1. ASSUME NEW t \in Threads, Enter(t) PROVE HeldInv'
  <2>1. \A u \in Threads \ {t} : th'[u] = th[u]
    BY <1>1, EnterEffect DEF IInv, ThTo
  <2>2. UNCHANGED <<buf, latest>>
    BY <1>1, EnterEffect DEF IInv
  <2>3. HasPage(t)' => HasPage(t) /\ th'[t].page = th[t].page
    BY <1>1, EnterEffect DEF IInv, ThreadInv, Fits, ThTo, IsThread, HasPage, HoldsPage, Entering
  <2> QED
    BY <2>1, <2>2, <2>3, HeldKept DEF IInv, HeldInv
<1>2. ASSUME NEW t \in Threads, LockRead(t) PROVE HeldInv'
  <2>1. \A u \in Threads \ {t} : th'[u] = th[u]
    BY <1>2, ReadsUnblocked, LockReadEffect DEF IInv, ThTo
  <2>2. UNCHANGED <<buf, latest>>
    BY <1>2, ReadsUnblocked, LockReadEffect DEF IInv
  <2>3. HasPage(t)' => HasPage(t) /\ th'[t].page = th[t].page
    BY <1>2, ReadsUnblocked, LockReadEffect DEF IInv, ThreadInv, Fits, ThTo, IsThread, HasPage, HoldsPage, Entering
  <2> QED
    BY <2>1, <2>2, <2>3, HeldKept DEF IInv, HeldInv
<1>3. ASSUME NEW t \in Threads, GrantedRead(t) PROVE HeldInv'
  <2>1. \A u \in Threads \ {t} : th'[u] = th[u]
    BY <1>3, ReadsUnblocked, GrantedReadEffect DEF IInv, ThTo
  <2>2. UNCHANGED <<buf, latest>>
    BY <1>3, ReadsUnblocked, GrantedReadEffect DEF IInv
  <2>3. HasPage(t)' => HasPage(t) /\ th'[t].page = th[t].page
    BY <1>3, ReadsUnblocked, GrantedReadEffect DEF IInv, ThreadInv, Fits, ThTo, IsThread, HasPage, HoldsPage, Entering
  <2> QED
    BY <2>1, <2>2, <2>3, HeldKept DEF IInv, HeldInv
<1>4. ASSUME NEW t \in Threads, Read(t) PROVE HeldInv'
  <2> DEFINE pg == th[t].page
  <2>1. /\ \A u \in Threads \ {t} : th'[u] = th[u]
        /\ UNCHANGED latest /\ buf' = [buf EXCEPT ![pg] = Stored(Home[t], pg)]
        /\ At(t, "read")
    BY <1>4, ReadEffect DEF IInv, ThTo, At
  <2>2. pg \in Pages /\ busy[pg] = t /\ dirty[pg] = None /\ Known(Home[t]) /\ Home[t] \in Procs
    BY <2>1, ReadsClean, TypedThreads DEF IInv
  <2>3. buf'[pg].v = latest[pg] /\ \A q \in Pages \ {pg} : buf'[q] = buf[q]
    BY <2>1, <2>2, StoredLatest DEF IInv, TypeInv, DataType
  <2>4. HasPage(t)' => th'[t].page = pg
    BY <1>4, ReadEffect DEF IInv, ThTo, IsThread, HasPage, HoldsPage, Entering
  <2> QED
    BY <2>1, <2>2, <2>3, <2>4, HeldKept
<1>5. ASSUME NEW t \in Threads, Mark(t) PROVE HeldInv'
  <2> DEFINE pg == th[t].page
  <2>1. DOMAIN delta' \subseteq Pages
    BY <1>5, DataTypeStep DEF DataType, Next, ThreadStep
  <2>2. At(t, "mark") /\ \A u \in Threads \ {t} : th'[u] = th[u]
    BY <1>5, <2>1, MarkEffect DEF IInv, ThTo, At
  <2>3. pg \in Pages /\ busy[pg] = t
    BY <2>2, MarksHeld
  <2>4. \A q \in Pages \ {pg} : buf'[q] = buf[q] /\ latest'[q] = latest[q]
    <3>1. PICK change \in {0, 1} : /\ latest' = [latest EXCEPT ![pg] = @ + change]
                                   /\ buf' = [buf EXCEPT ![pg] = [v |-> @.v + change, scn |-> bm[Home[t]].scn]]
      BY <1>5, <2>1, MarkEffect DEF IInv
    <3> HIDE DEF pg
    <3> QED
      BY <3>1 DEF IInv, TypeInv, DataType
  <2>5. ~HasPage(t)'
    BY <1>5, <2>1, MarkEffect DEF IInv, ThTo, IsThread, HasPage, HoldsPage, Entering
  <2> QED
    BY <2>2, <2>3, <2>4, <2>5, HeldKept
<1>6. ASSUME NEW t \in Threads, FetchHeader(t) PROVE HeldInv'
  <2>1. \A u \in Threads \ {t} : th'[u] = th[u]
    BY <1>6, FetchHeaderEffect DEF IInv, ThTo
  <2>2. UNCHANGED <<buf, latest>>
    BY <1>6, FetchHeaderEffect DEF IInv
  <2>3. HasPage(t)' => HasPage(t) /\ th'[t].page = th[t].page
    BY <1>6, FetchHeaderEffect DEF IInv, ThreadInv, Fits, ThTo, IsThread, HasPage, HoldsPage, Entering
  <2> QED
    BY <2>1, <2>2, <2>3, HeldKept DEF IInv, HeldInv
<1>7. ASSUME NEW t \in Threads, ReadHeader(t) PROVE HeldInv'
  <2>1. \A u \in Threads \ {t} : th'[u] = th[u]
    BY <1>7, ReadHeaderEffect DEF IInv, ThTo
  <2>2. UNCHANGED <<buf, latest>>
    BY <1>7, ReadHeaderEffect DEF IInv
  <2>3. HasPage(t)' => HasPage(t) /\ th'[t].page = th[t].page
    BY <1>7, ReadHeaderEffect DEF IInv, ThreadInv, Fits, ThTo, IsThread, HasPage, HoldsPage, Entering
  <2> QED
    BY <2>1, <2>2, <2>3, HeldKept DEF IInv, HeldInv
<1>8. ASSUME NEW t \in Threads, BeginWrite(t) PROVE HeldInv'
  <2>1. \A u \in Threads \ {t} : th'[u] = th[u]
    BY <1>8, BeginWriteEffect DEF IInv, ThTo
  <2>2. UNCHANGED <<buf, latest>>
    BY <1>8, BeginWriteEffect DEF IInv
  <2>3. HasPage(t)' => HasPage(t) /\ th'[t].page = th[t].page
    BY <1>8, BeginWriteEffect DEF IInv, ThreadInv, Fits, ThTo, IsThread, HasPage, HoldsPage, Entering
  <2> QED
    BY <2>1, <2>2, <2>3, HeldKept DEF IInv, HeldInv
<1>9. ASSUME NEW t \in Threads, LockWrite(t) PROVE HeldInv'
  <2>1. \A u \in Threads \ {t} : th'[u] = th[u]
    BY <1>9, LockWriteEffect DEF IInv, ThTo
  <2>2. UNCHANGED <<buf, latest>>
    BY <1>9, LockWriteEffect DEF IInv
  <2>3. HasPage(t)' => HasPage(t) /\ th'[t].page = th[t].page
    BY <1>9, LockWriteEffect DEF IInv, ThreadInv, Fits, ThTo, IsThread, HasPage, HoldsPage, Entering
  <2> QED
    BY <2>1, <2>2, <2>3, HeldKept DEF IInv, HeldInv
<1>10. ASSUME NEW t \in Threads, GrantedWrite(t) PROVE HeldInv'
  <2>1. \A u \in Threads \ {t} : th'[u] = th[u]
    BY <1>10, GrantedWriteEffect DEF IInv, ThTo
  <2>2. UNCHANGED <<buf, latest>>
    BY <1>10, GrantedWriteEffect DEF IInv
  <2>3. HasPage(t)' => HasPage(t) /\ th'[t].page = th[t].page
    BY <1>10, GrantedWriteEffect DEF IInv, ThreadInv, Fits, ThTo, IsThread, HasPage, HoldsPage, Entering
  <2> QED
    BY <2>1, <2>2, <2>3, HeldKept DEF IInv, HeldInv
<1>11. ASSUME NEW t \in Threads, Stall(t) PROVE HeldInv'
  <2>1. \A u \in Threads \ {t} : th'[u] = th[u]
    BY <1>11, StallStep DEF ThTo
  <2>2. UNCHANGED <<buf, latest>>
    BY <1>11, StallStep
  <2>3. ~HasPage(t)'
    BY <1>11, StallStep DEF ThTo, IsThread, HasPage, HoldsPage, Entering
  <2> QED
    BY <2>1, <2>2, <2>3, HeldKept
<1>12. ASSUME NEW t \in Threads, Check(t) PROVE HeldInv'
  <2>1. \A u \in Threads \ {t} : th'[u] = th[u]
    BY <1>12, CheckEffect DEF IInv, ThTo
  <2>2. UNCHANGED <<buf, latest>>
    BY <1>12, CheckEffect DEF IInv
  <2>3. HasPage(t)' => HasPage(t) /\ th'[t].page = th[t].page
    BY <1>12, CheckEffect DEF IInv, ThreadInv, Fits, ThTo, IsThread, HasPage, HoldsPage, Entering
  <2> QED
    BY <2>1, <2>2, <2>3, HeldKept DEF IInv, HeldInv
<1>13. ASSUME NEW t \in Threads, StartMerge(t) PROVE HeldInv'
  <2>1. \A u \in Threads \ {t} : th'[u] = th[u]
    BY <1>13, StartMergeStep DEF ThTo
  <2>2. UNCHANGED <<buf, latest>>
    BY <1>13, StartMergeStep
  <2>3. ~HasPage(t)'
    BY <1>13, StartMergeStep DEF ThTo, IsThread, HasPage, HoldsPage, Entering
  <2> QED
    BY <2>1, <2>2, <2>3, HeldKept
<1>14. ASSUME NEW t \in Threads, Table(t) PROVE HeldInv'
  <2>1. \A u \in Threads \ {t} : th'[u] = th[u]
    BY <1>14, TableEffect DEF IInv, ThTo
  <2>2. UNCHANGED <<buf, latest>>
    BY <1>14, TableEffect DEF IInv
  <2>3. HasPage(t)' => HasPage(t) /\ th'[t].page = th[t].page
    BY <1>14, TableEffect DEF IInv, ThreadInv, Fits, ThTo, IsThread, HasPage, HoldsPage, Entering
  <2> QED
    BY <2>1, <2>2, <2>3, HeldKept DEF IInv, HeldInv
<1>15. ASSUME NEW t \in Threads, MergeFlush(t) PROVE HeldInv'
  <2>1. \A u \in Threads \ {t} : th'[u] = th[u]
    BY <1>15, MergeFlushEffect DEF IInv, ThTo
  <2>2. UNCHANGED <<buf, latest>>
    BY <1>15, MergeFlushEffect DEF IInv
  <2>3. HasPage(t)' => HasPage(t) /\ th'[t].page = th[t].page
    BY <1>15, MergeFlushEffect DEF IInv, ThreadInv, Fits, ThTo, IsThread, HasPage, HoldsPage, Entering
  <2> QED
    BY <2>1, <2>2, <2>3, HeldKept DEF IInv, HeldInv
<1>16. ASSUME NEW t \in Threads, Merged(t) PROVE HeldInv'
  <2>1. \A u \in Threads \ {t} : th'[u] = th[u]
    BY <1>16, MergedEffect DEF IInv, ThTo
  <2>2. UNCHANGED <<buf, latest>>
    BY <1>16, MergedEffect DEF IInv
  <2>3. HasPage(t)' => HasPage(t) /\ th'[t].page = th[t].page
    BY <1>16, MergedEffect DEF IInv, ThreadInv, Fits, ThTo, IsThread, HasPage, HoldsPage, Entering
  <2> QED
    BY <2>1, <2>2, <2>3, HeldKept DEF IInv, HeldInv
<1>17. ASSUME NEW t \in Threads, Finish(t) PROVE HeldInv'
  <2>1. \A u \in Threads \ {t} : th'[u] = th[u]
    BY <1>17, FinishStep DEF ThTo
  <2>2. UNCHANGED <<buf, latest>>
    BY <1>17, FinishStep
  <2>3. ~HasPage(t)'
    BY <1>17, FinishStep DEF ThTo, IsThread, HasPage, HoldsPage, Entering
  <2> QED
    BY <2>1, <2>2, <2>3, HeldKept
<1>18. ASSUME NEW t \in Threads, BeginBackup(t) PROVE HeldInv'
  <2>1. \A u \in Threads \ {t} : th'[u] = th[u]
    BY <1>18, BeginBackupEffect DEF IInv, ThTo
  <2>2. UNCHANGED <<buf, latest>>
    BY <1>18, BeginBackupEffect DEF IInv
  <2>3. HasPage(t)' => HasPage(t) /\ th'[t].page = th[t].page
    BY <1>18, BeginBackupEffect DEF IInv, ThreadInv, Fits, ThTo, IsThread, HasPage, HoldsPage, Entering
  <2> QED
    BY <2>1, <2>2, <2>3, HeldKept DEF IInv, HeldInv
<1>19. ASSUME NEW t \in Threads, EndBackup(t) PROVE HeldInv'
  <2>1. \A u \in Threads \ {t} : th'[u] = th[u]
    BY <1>19, EndBackupEffect DEF IInv, ThTo
  <2>2. UNCHANGED <<buf, latest>>
    BY <1>19, EndBackupEffect DEF IInv
  <2>3. HasPage(t)' => HasPage(t) /\ th'[t].page = th[t].page
    BY <1>19, EndBackupEffect DEF IInv, ThreadInv, Fits, ThTo, IsThread, HasPage, HoldsPage, Entering
  <2> QED
    BY <2>1, <2>2, <2>3, HeldKept DEF IInv, HeldInv
<1>20. ASSUME NEW t \in Threads, NEW pg \in Pages, Merge(t, pg) PROVE HeldInv'
  <2>1. \A u \in Threads \ {t} : th'[u] = th[u]
    BY <1>20, MergeEffect DEF IInv, ThTo
  <2>2. UNCHANGED <<buf, latest>>
    BY <1>20, MergeEffect DEF IInv
  <2>3. HasPage(t)' => th'[t].page = pg /\ dirty[pg] # None
    BY <1>20, MergeEffect, TypedThreads DEF IInv, ThTo, IsThread, HasPage, HoldsPage, Entering
  <2> QED
    BY <2>1, <2>2, <2>3, HeldKept DEF IInv, DirtyInv
<1>21. ASSUME NEW t \in Threads, NEW pg \in Pages, Fetch(t, pg) PROVE HeldInv'
  <2>1. \A u \in Threads \ {t} : th'[u] = th[u]
    BY <1>21, FetchEffect DEF IInv, ThTo
  <2>2. UNCHANGED <<buf, latest>>
    BY <1>21, FetchEffect DEF IInv
  <2>3. HasPage(t)' => th'[t].page = pg /\ dirty[pg] # None
    BY <1>21, FetchEffect, TypedThreads DEF IInv, ThTo, IsThread, HasPage, HoldsPage, Entering
  <2> QED
    BY <2>1, <2>2, <2>3, HeldKept DEF IInv, DirtyInv
<1>22. ASSUME NEW pg \in Pages, Write(pg) PROVE HeldInv'
  <2>1. UNCHANGED <<buf, latest>>
    BY <1>22, WriteEffect DEF IInv
  <2>2. \A u \in Threads : /\ HasPage(u)' <=> HasPage(u)
                           /\ th'[u].page = th[u].page
    BY <1>22, WriteEffect DEF IInv, IsThread, HasPage, HoldsPage, Entering
  <2> QED
    BY <2>1, <2>2 DEF IInv, HeldInv
<1>23. ASSUME NEW p \in Procs, Grant(p) PROVE HeldInv'
  <2>1. UNCHANGED <<th, buf, latest>>
    BY <1>23, GrantEffect DEF IInv
  <2> QED
    BY <2>1 DEF IInv, HeldInv, HasPage, HoldsPage, Entering
<1>24. ASSUME NEW p \in Procs, Ast(p) PROVE HeldInv'
  <2>1. UNCHANGED <<th, buf, latest>>
    BY <1>24, AstEffect DEF IInv
  <2> QED
    BY <2>1 DEF IInv, HeldInv, HasPage, HoldsPage, Entering
<1>25. ASSUME NEW p \in Procs, AstTry(p) PROVE HeldInv'
  <2>1. UNCHANGED <<th, buf, latest>>
    BY <1>25, AstEffect DEF IInv
  <2> QED
    BY <2>1 DEF IInv, HeldInv, HasPage, HoldsPage, Entering
<1>26. ASSUME NEW p \in Procs, AstSet(p) PROVE HeldInv'
  <2>1. UNCHANGED <<th, buf, latest>>
    BY <1>26, AstEffect DEF IInv
  <2> QED
    BY <2>1 DEF IInv, HeldInv, HasPage, HoldsPage, Entering
<1>27. ASSUME NEW p \in Procs, Crash(p) PROVE HeldInv'
  <2>1. /\ UNCHANGED buf
        /\ latest' = [pg \in Pages |-> IF dirty[pg] = p THEN OnDisk(pg).v ELSE latest[pg]]
        /\ \A t \in Threads : IF Home[t] = p THEN IsThread(th'[t], "idle", "none", "none", None, {})
                                             ELSE th'[t] = th[t]
    BY <1>27, CrashEffect DEF IInv
  <2>2. ASSUME NEW u \in Threads, HasPage(u)' PROVE buf'[th'[u].page].v = latest'[th'[u].page]
    <3>1. Home[u] # p
      BY <2>1, <2>2 DEF IsThread, HasPage, HoldsPage, Entering
    <3>2. th'[u] = th[u] /\ HoldsPage(u) /\ HasPage(u)
      BY <2>1, <2>2, <3>1 DEF HasPage, HoldsPage, Entering
    <3>3. th[u].page \in Pages /\ dirty[th[u].page] # p
      BY <3>1, <3>2, Held, TypedThreads DEF IInv
    <3>4. buf[th[u].page].v = latest[th[u].page]
      BY <3>2 DEF IInv, HeldInv
    <3> QED
      BY <2>1, <3>2, <3>3, <3>4
  <2> QED
    BY <2>2 DEF HeldInv
<1>28. CASE UNCHANGED vars
  <2>1. UNCHANGED <<th, buf, latest>>
    BY <1>28 DEF vars, pool
  <2> QED
    BY <2>1 DEF IInv, HeldInv, HasPage, HoldsPage, Entering
<1> QED
  BY <1>1, <1>2, <1>3, <1>4, <1>5, <1>6, <1>7, <1>8, <1>9, <1>10, <1>11, <1>12, <1>13, <1>14, <1>15, <1>16, <1>17, <1>18, <1>19, <1>20, <1>21, <1>22, <1>23, <1>24, <1>25, <1>26, <1>27, <1>28 DEF Next, ThreadStep

\* The files stay; what is no more dirty is lost with its changes.
LEMMA DiskKept ==
  ASSUME IInv, UNCHANGED <<header, file, delta>>,
         \A pg \in Pages : dirty'[pg] = None =>
           \/ dirty[pg] = None /\ latest'[pg] = latest[pg]
           \/ latest'[pg] = OnDisk(pg).v
  PROVE  DiskInv'
<1>1. \A pg \in Pages : dirty'[pg] = None => latest'[pg] = OnDisk(pg).v
  BY DEF IInv, DiskInv, NothingLost
<1>2. NothingLost'
  BY <1>1 DEF NothingLost, OnDisk
<1> QED
  BY <1>2 DEF IInv, DiskInv

\* A page is written where it is looked for.
LEMMA DiskWritten ==
  ASSUME IInv, NEW pg \in Pages, dirty[pg] # None, UNCHANGED <<header, latest>>,
         delta' = IF header.state = "stalled" \/ (header.state = "merge" /\ pg \in target)
                  THEN IF pg \in DOMAIN delta THEN [delta EXCEPT ![pg] = buf[pg]] ELSE delta ELSE delta,
         file' = IF header.state = "stalled" THEN file ELSE [file EXCEPT ![pg] = buf[pg]],
         dirty' = [dirty EXCEPT ![pg] = None]
  PROVE  /\ DiskInv'
         /\ DOMAIN delta' = DOMAIN delta
         /\ \A q \in Pages \ {pg} : file'[q] = file[q] /\ dirty'[q] = dirty[q]
         /\ \A q \in DOMAIN delta \ {pg} : delta'[q] = delta[q]
         /\ header.state = "merge" /\ pg \in DOMAIN delta => delta'[pg] = file'[pg]
<1>1. /\ header \in [state : BackupState, scn : Nat] /\ file \in [Pages -> PageImage]
      /\ DOMAIN delta \subseteq Pages /\ delta \in [DOMAIN delta -> PageImage]
      /\ dirty \in [Pages -> Procs \union {None}] /\ buf \in [Pages -> PageImage] /\ buf[pg].scn \in Nat
  BY DEF IInv, TypeInv, DataType, PageImage
<1>2. /\ buf[pg].v = latest[pg] /\ buf[pg].scn = header.scn /\ header.scn > 0
      /\ header.state = "stalled" => pg \in DOMAIN delta
      /\ header.state = "merge" /\ pg \in DOMAIN delta => pg \in target
  BY DEF IInv, DirtyInv, DiskInv
<1>3. buf[pg] # Blank
  BY <1>1, <1>2 DEF Blank
<1>4. /\ DOMAIN delta' = DOMAIN delta
      /\ \A q \in DOMAIN delta \ {pg} : delta'[q] = delta[q]
      /\ header.state # "normal" /\ pg \in DOMAIN delta => delta'[pg] = buf[pg]
  BY <1>1, <1>2 DEF BackupState
<1>5. /\ \A q \in Pages \ {pg} : file'[q] = file[q] /\ dirty'[q] = dirty[q]
      /\ header.state # "stalled" => file'[pg] = buf[pg]
      /\ header.state = "stalled" => file' = file
  BY <1>1
<1>6. header.state = "normal" => DOMAIN delta' = {}
  BY <1>4 DEF IInv, DiskInv
<1>7. \A q \in DOMAIN delta' : delta'[q].scn <= header.scn
  <2>1. ASSUME NEW q \in DOMAIN delta' PROVE delta'[q].scn <= header.scn
    <3>1. CASE q # pg
      BY <1>4, <3>1 DEF IInv, DiskInv
    <3>2. CASE q = pg
      <4>1. header.state # "normal"
        BY <1>6, <2>1
      <4> QED
        BY <1>1, <1>2, <1>4, <3>2, <4>1
    <3> QED
      BY <3>1, <3>2
  <2> QED
    BY <2>1
<1>8. header.state = "merge" => \A q \in DOMAIN delta' : delta'[q].scn = header.scn => delta'[q] = file'[q]
  <2>1. ASSUME header.state = "merge", NEW q \in DOMAIN delta', delta'[q].scn = header.scn PROVE delta'[q] = file'[q]
    <3>1. CASE q # pg
      BY <1>1, <1>4, <1>5, <2>1, <3>1 DEF IInv, DiskInv
    <3>2. CASE q = pg
      BY <1>4, <1>5, <2>1, <3>2
    <3> QED
      BY <3>1, <3>2
  <2> QED
    BY <2>1
<1>9. NothingLost'
  <2>1. ASSUME NEW q \in Pages, dirty'[q] = None PROVE latest'[q] = OnDisk(q)'.v
    <3>1. CASE q # pg
      <4>1. latest[q] = OnDisk(q).v
        BY <1>5, <2>1, <3>1 DEF IInv, DiskInv, NothingLost
      <4> QED
        BY <1>4, <1>5, <3>1, <4>1 DEF OnDisk
    <3>2. CASE q = pg
      <4>1. CASE header.state # "normal" /\ pg \in DOMAIN delta
        BY <1>2, <1>3, <1>4, <3>2, <4>1 DEF OnDisk
      <4>2. CASE header.state # "normal" /\ pg \notin DOMAIN delta
        BY <1>2, <1>4, <1>5, <3>2, <4>2 DEF OnDisk
      <4>3. CASE header.state = "normal"
        BY <1>2, <1>5, <3>2, <4>3 DEF OnDisk
      <4> QED
        BY <4>1, <4>2, <4>3
    <3> QED
      BY <3>1, <3>2
  <2> QED
    BY <2>1 DEF NothingLost
<1>10. header.state = "merge" /\ pg \in DOMAIN delta => delta'[pg] = file'[pg]
  BY <1>4, <1>5
<1> QED
  BY <1>2, <1>4, <1>5, <1>6, <1>7, <1>8, <1>9, <1>10 DEF DiskInv

\* Write has the effect above.
LEMMA Writes ==
  ASSUME IInv, NEW pg \in Pages, Write(pg)
  PROVE  /\ dirty[pg] # None /\ UNCHANGED <<header, latest>>
         /\ delta' = IF header.state = "stalled" \/ (header.state = "merge" /\ pg \in target)
                     THEN IF pg \in DOMAIN delta THEN [delta EXCEPT ![pg] = buf[pg]] ELSE delta ELSE delta
         /\ file' = IF header.state = "stalled" THEN file ELSE [file EXCEPT ![pg] = buf[pg]]
         /\ dirty' = [dirty EXCEPT ![pg] = None]
<1>1. dirty[pg] # None /\ dirty[pg] \in Procs
  BY WriteEffect DEF IInv
<1>2. bm[dirty[pg]].state = header.state
  BY <1>1 DEF IInv, StateInv
<1>3. /\ UNCHANGED <<header, latest>> /\ dirty' = [dirty EXCEPT ![pg] = None]
      /\ delta' = IF /\ bm[dirty[pg]].state = "stalled" \/ (bm[dirty[pg]].state = "merge" /\ pg \in target)
                     /\ pg \in DOMAIN delta
                  THEN [delta EXCEPT ![pg] = buf[pg]] ELSE delta
      /\ file' = IF bm[dirty[pg]].state = "stalled" THEN file ELSE [file EXCEPT ![pg] = buf[pg]]
  BY WriteEffect DEF IInv
<1> QED
  BY <1>1, <1>2, <1>3

\* A mark allocates the page in the difference file, and writes nothing.
LEMMA Marks ==
  ASSUME IInv, NEW t \in Threads, Mark(t), DOMAIN delta' \subseteq Pages
  PROVE  /\ UNCHANGED <<header, file>> /\ DOMAIN delta \subseteq DOMAIN delta'
         /\ \A q \in DOMAIN delta : delta'[q] = delta[q]
         /\ \A q \in DOMAIN delta' \ DOMAIN delta : q = th[t].page /\ delta'[q] = Blank /\ header.state = "stalled"
         /\ th[t].page \in Pages /\ busy[th[t].page] = t /\ dirty'[th[t].page] = Home[t]
         /\ \A q \in Pages \ {th[t].page} : dirty'[q] = dirty[q] /\ latest'[q] = latest[q]
<1> DEFINE pg == th[t].page
<1>1. At(t, "mark")
  BY MarkEffect DEF IInv, At
<1>2. pg \in Pages /\ busy[pg] = t /\ bm[Home[t]].state = header.state
  BY <1>1, MarksHeld, TypedThreads DEF IInv, StateInv
<1>3. /\ UNCHANGED <<header, file>> /\ dirty' = [dirty EXCEPT ![pg] = Home[t]]
      /\ delta' = IF bm[Home[t]].state = "stalled" /\ pg \notin bm[Home[t]].table \union DOMAIN delta
                  THEN [q \in DOMAIN delta \union {pg} |-> IF q = pg THEN Blank ELSE delta[q]]
                  ELSE delta
  BY MarkEffect DEF IInv
<1>4. PICK change \in {0, 1} : latest' = [latest EXCEPT ![pg] = @ + change]
  BY MarkEffect DEF IInv
<1> HIDE DEF pg
<1>5. /\ dirty'[pg] = Home[t]
      /\ \A q \in Pages \ {pg} : dirty'[q] = dirty[q] /\ latest'[q] = latest[q]
  BY <1>2, <1>3, <1>4, TypedThreads DEF IInv, TypeInv, DataType
<1>6. CASE delta' = delta
  BY <1>2, <1>3, <1>5, <1>6 DEF pg
<1>7. CASE /\ header.state = "stalled" /\ pg \notin DOMAIN delta
           /\ delta' = [q \in DOMAIN delta \union {pg} |-> IF q = pg THEN Blank ELSE delta[q]]
  <2>1. /\ DOMAIN delta' = DOMAIN delta \union {pg} /\ delta'[pg] = Blank
        /\ \A q \in DOMAIN delta : delta'[q] = delta[q]
    BY <1>7
  <2> QED
    BY <1>2, <1>3, <1>5, <1>7, <2>1 DEF pg
<1> QED
  BY <1>2, <1>3, <1>6, <1>7

LEMMA DiskStep ==
  ASSUME MastersQuiet, IInv, [Next]_vars
  PROVE  DiskInv'
<1>1. ASSUME NEW t \in Threads, Enter(t) PROVE DiskInv'
  <2>1. UNCHANGED <<header, file, delta, dirty, latest>>
    BY <1>1, EnterEffect DEF IInv
  <2> QED
    BY <2>1, DiskKept
<1>2. ASSUME NEW t \in Threads, LockRead(t) PROVE DiskInv'
  <2>1. UNCHANGED <<header, file, delta, dirty, latest>>
    BY <1>2, ReadsUnblocked, LockReadEffect DEF IInv
  <2> QED
    BY <2>1, DiskKept
<1>3. ASSUME NEW t \in Threads, GrantedRead(t) PROVE DiskInv'
  <2>1. UNCHANGED <<header, file, delta, dirty, latest>>
    BY <1>3, ReadsUnblocked, GrantedReadEffect DEF IInv
  <2> QED
    BY <2>1, DiskKept
<1>4. ASSUME NEW t \in Threads, Read(t) PROVE DiskInv'
  <2>1. UNCHANGED <<header, file, delta, dirty, latest>>
    BY <1>4, ReadEffect DEF IInv
  <2> QED
    BY <2>1, DiskKept
<1>5. ASSUME NEW t \in Threads, Mark(t) PROVE DiskInv'
  <2>1. DOMAIN delta' \subseteq Pages
    BY <1>5, DataTypeStep DEF DataType, Next, ThreadStep
  <2>2. /\ UNCHANGED <<header, file>> /\ DOMAIN delta \subseteq DOMAIN delta'
        /\ \A q \in DOMAIN delta : delta'[q] = delta[q]
        /\ \A q \in DOMAIN delta' \ DOMAIN delta : q = th[t].page /\ delta'[q] = Blank /\ header.state = "stalled"
        /\ dirty'[th[t].page] # None
        /\ \A q \in Pages \ {th[t].page} : dirty'[q] = dirty[q] /\ latest'[q] = latest[q]
    BY <1>5, <2>1, Marks, TypedThreads DEF IInv
  <2>3. header.scn > 0 /\ header.scn \in Nat
    BY DEF IInv, DiskInv, TypeInv, DataType
  <2>4. header.state = "normal" => DOMAIN delta' = {}
    BY <2>2 DEF IInv, DiskInv
  <2>5. \A q \in DOMAIN delta' : delta'[q].scn <= header.scn
    BY <2>2, <2>3 DEF IInv, DiskInv, Blank
  <2>6. header.state = "merge" => \A q \in DOMAIN delta' : delta'[q].scn = header.scn => delta'[q] = file[q]
    BY <2>2 DEF IInv, DiskInv
  <2>7. NothingLost'
    <3>1. ASSUME NEW q \in Pages, dirty'[q] = None PROVE latest'[q] = OnDisk(q)'.v
      <4>1. q # th[t].page /\ dirty[q] = None /\ latest'[q] = latest[q]
        BY <2>2, <3>1
      <4>2. latest[q] = OnDisk(q).v
        BY <4>1 DEF IInv, DiskInv, NothingLost
      <4> QED
        BY <2>2, <4>1, <4>2 DEF OnDisk
    <3> QED
      BY <3>1 DEF NothingLost
  <2> QED
    BY <2>2, <2>3, <2>4, <2>5, <2>6, <2>7 DEF DiskInv
<1>6. ASSUME NEW t \in Threads, FetchHeader(t) PROVE DiskInv'
  <2>1. UNCHANGED <<header, file, delta, dirty, latest>>
    BY <1>6, FetchHeaderEffect DEF IInv
  <2> QED
    BY <2>1, DiskKept
<1>7. ASSUME NEW t \in Threads, ReadHeader(t) PROVE DiskInv'
  <2>1. UNCHANGED <<header, file, delta, dirty, latest>>
    BY <1>7, ReadHeaderEffect DEF IInv
  <2> QED
    BY <2>1, DiskKept
<1>8. ASSUME NEW t \in Threads, BeginWrite(t) PROVE DiskInv'
  <2>1. UNCHANGED <<header, file, delta, dirty, latest>>
    BY <1>8, BeginWriteEffect DEF IInv
  <2> QED
    BY <2>1, DiskKept
<1>9. ASSUME NEW t \in Threads, LockWrite(t) PROVE DiskInv'
  <2>1. UNCHANGED <<header, file, delta, dirty, latest>>
    BY <1>9, LockWriteEffect DEF IInv
  <2> QED
    BY <2>1, DiskKept
<1>10. ASSUME NEW t \in Threads, GrantedWrite(t) PROVE DiskInv'
  <2>1. UNCHANGED <<header, file, delta, dirty, latest>>
    BY <1>10, GrantedWriteEffect DEF IInv
  <2> QED
    BY <2>1, DiskKept
<1>11. ASSUME NEW t \in Threads, Stall(t) PROVE DiskInv'
  <2>1. /\ header.scn \in Nat /\ UNCHANGED <<file, dirty, latest>>
    BY <1>11, StallStep DEF IInv, TypeInv, DataType
  <2>2. CASE header.state = "normal"
    <3>1. header' = [state |-> "stalled", scn |-> header.scn + 1] /\ DOMAIN delta' = {} /\ DOMAIN delta = {}
      BY <1>11, <2>2, StallStep DEF IInv, DiskInv, NoTable
    <3>2. NothingLost'
      BY <2>1, <2>2, <3>1 DEF IInv, DiskInv, NothingLost, OnDisk
    <3> QED
      BY <2>1, <3>1, <3>2 DEF DiskInv
  <2>3. CASE header.state # "normal"
    <3>1. UNCHANGED <<header, file, delta, dirty, latest>>
      BY <1>11, <2>3, StallStep
    <3> QED
      BY <3>1, DiskKept
  <2> QED
    BY <2>2, <2>3
<1>12. ASSUME NEW t \in Threads, Check(t) PROVE DiskInv'
  <2>1. UNCHANGED <<header, file, delta, dirty, latest>>
    BY <1>12, CheckEffect DEF IInv
  <2> QED
    BY <2>1, DiskKept
<1>13. ASSUME NEW t \in Threads, StartMerge(t) PROVE DiskInv'
  <2>1. /\ header.scn \in Nat /\ UNCHANGED <<file, delta, dirty, latest>>
        /\ delta \in [DOMAIN delta -> PageImage]
    BY <1>13, StartMergeStep DEF IInv, TypeInv, DataType
  <2>2. CASE header.state # "normal"
    <3>1. header' = [state |-> "merge", scn |-> header.scn + 1]
      BY <1>13, <2>2, StartMergeStep
    <3>2. NothingLost'
      BY <2>1, <2>2, <3>1 DEF IInv, DiskInv, NothingLost, OnDisk
    <3>3. header'.scn > 0 /\ \A q \in DOMAIN delta : delta[q].scn <= header'.scn /\ delta[q].scn # header'.scn
      BY <2>1, <3>1 DEF IInv, DiskInv, PageImage
    <3> QED
      BY <2>1, <3>1, <3>2, <3>3 DEF DiskInv
  <2>3. CASE header.state = "normal"
    <3>1. UNCHANGED <<header, file, delta, dirty, latest>>
      BY <1>13, <2>3, StartMergeStep
    <3> QED
      BY <3>1, DiskKept
  <2> QED
    BY <2>2, <2>3
<1>14. ASSUME NEW t \in Threads, Table(t) PROVE DiskInv'
  <2>1. UNCHANGED <<header, file, delta, dirty, latest>>
    BY <1>14, TableEffect DEF IInv
  <2> QED
    BY <2>1, DiskKept
<1>15. ASSUME NEW t \in Threads, MergeFlush(t) PROVE DiskInv'
  <2>1. UNCHANGED <<header, file, delta, dirty, latest>>
    BY <1>15, MergeFlushEffect DEF IInv
  <2> QED
    BY <2>1, DiskKept
<1>16. ASSUME NEW t \in Threads, Merged(t) PROVE DiskInv'
  <2>1. UNCHANGED <<header, file, delta, dirty, latest>>
    BY <1>16, MergedEffect DEF IInv
  <2> QED
    BY <2>1, DiskKept
<1>17. ASSUME NEW t \in Threads, Finish(t) PROVE DiskInv'
  <2>1. /\ header.scn \in Nat /\ UNCHANGED <<file, dirty, latest>> /\ At(t, "locked") /\ th[t].op = "finish"
        /\ header' = [state |-> "normal", scn |-> header.scn + 1] /\ DOMAIN delta' = {}
    BY <1>17, FinishStep DEF IInv, TypeInv, DataType, NoTable
  <2>2. \A pg \in Pages : dirty[pg] = None
    BY <2>1, LockedAlone DEF IInv
  <2>3. \A pg \in DOMAIN delta : InFile(pg)
    <3>1. TableTaken(t) /\ \A pg \in DOMAIN delta : ~ToMerge(t, pg)
      BY <2>1 DEF TableTaken, ToMerge, HoldsPage, Entering, At
    <3>2. DOMAIN delta \subseteq Pages /\ Home[t] # None
      BY TypedThreads DEF IInv, TypeInv, DataType
    <3> QED
      BY <2>2, <3>1, <3>2 DEF IInv, MergeInv
  <2>4. NothingLost'
    <3>1. \A pg \in Pages : latest[pg] = OnDisk(pg).v
      BY <2>2 DEF IInv, DiskInv, NothingLost
    <3> QED
      BY <2>1, <2>3, <3>1 DEF NothingLost, OnDisk, InFile
  <2> QED
    BY <2>1, <2>4 DEF DiskInv
<1>18. ASSUME NEW t \in Threads, BeginBackup(t) PROVE DiskInv'
  <2>1. UNCHANGED <<header, file, delta, dirty, latest>>
    BY <1>18, BeginBackupEffect DEF IInv
  <2> QED
    BY <2>1, DiskKept
<1>19. ASSUME NEW t \in Threads, EndBackup(t) PROVE DiskInv'
  <2>1. UNCHANGED <<header, file, delta, dirty, latest>>
    BY <1>19, EndBackupEffect DEF IInv
  <2> QED
    BY <2>1, DiskKept
<1>20. ASSUME NEW t \in Threads, NEW pg \in Pages, Merge(t, pg) PROVE DiskInv'
  <2>1. UNCHANGED <<header, file, delta, dirty, latest>>
    BY <1>20, MergeEffect DEF IInv
  <2> QED
    BY <2>1, DiskKept
<1>21. ASSUME NEW t \in Threads, NEW pg \in Pages, Fetch(t, pg) PROVE DiskInv'
  <2>1. UNCHANGED <<header, file, delta, dirty, latest>>
    BY <1>21, FetchEffect DEF IInv
  <2> QED
    BY <2>1, DiskKept
<1>22. ASSUME NEW pg \in Pages, Write(pg) PROVE DiskInv'
  BY <1>22, Writes, DiskWritten
<1>23. ASSUME NEW p \in Procs, Grant(p) PROVE DiskInv'
  <2>1. UNCHANGED <<header, file, delta, dirty, latest>>
    BY <1>23, GrantEffect DEF IInv
  <2> QED
    BY <2>1, DiskKept
<1>24. ASSUME NEW p \in Procs, Ast(p) PROVE DiskInv'
  <2>1. UNCHANGED <<header, file, delta, dirty, latest>>
    BY <1>24, AstEffect DEF IInv
  <2> QED
    BY <2>1, DiskKept
<1>25. ASSUME NEW p \in Procs, AstTry(p) PROVE DiskInv'
  <2>1. UNCHANGED <<header, file, delta, dirty, latest>>
    BY <1>25, AstEffect DEF IInv
  <2> QED
    BY <2>1, DiskKept
<1>26. ASSUME NEW p \in Procs, AstSet(p) PROVE DiskInv'
  <2>1. UNCHANGED <<header, file, delta, dirty, latest>>
    BY <1>26, AstEffect DEF IInv
  <2> QED
    BY <2>1, DiskKept
<1>27. ASSUME NEW p \in Procs, Crash(p) PROVE DiskInv'
  <2>1. /\ UNCHANGED <<header, file, delta>>
        /\ latest' = [pg \in Pages |-> IF dirty[pg] = p THEN OnDisk(pg).v ELSE latest[pg]]
        /\ dirty' = [pg \in Pages |-> IF dirty[pg] = p THEN None ELSE dirty[pg]]
    BY <1>27, CrashEffect DEF IInv
  <2> QED
    BY <2>1, DiskKept
<1>28. CASE UNCHANGED vars
  <2>1. UNCHANGED <<header, file, delta, dirty, latest>>
    BY <1>28 DEF vars, disk, pool
  <2> QED
    BY <2>1, DiskKept
<1> QED
  BY <1>1, <1>2, <1>3, <1>4, <1>5, <1>6, <1>7, <1>8, <1>9, <1>10, <1>11, <1>12, <1>13, <1>14, <1>15, <1>16, <1>17, <1>18, <1>19, <1>20, <1>21, <1>22, <1>23, <1>24, <1>25, <1>26, <1>27, <1>28 DEF Next, ThreadStep

\* One thread goes on; nothing is written.
LEMMA MergeKept ==
  ASSUME IInv, NEW t \in Threads, \A u \in Threads \ {t} : th'[u] = th[u],
         UNCHANGED <<header, file>>, UNCHANGED delta \/ header.state # "merge",
         th'[t].op \in {"merge", "finish"} => th[t].op \in {"merge", "finish"},
         \A pg \in Pages : dirty[pg] # None => dirty'[pg] = dirty[pg],
         TableTaken(t)' => \A pg \in DOMAIN delta :
           \/ TableTaken(t) /\ ~ToMerge(t, pg)
           \/ ToMerge(t, pg)' \/ dirty'[pg] = Home[t] \/ InFile(pg)
  PROVE  MergeInv'
<1>1. \A u \in Threads : th'[u].op \in {"merge", "finish"} => th[u].op \in {"merge", "finish"}
  OBVIOUS
<1>2. \A u \in Threads : th'[u].op \in {"merge", "finish"} => header'.state = "merge"
  BY <1>1 DEF IInv, MergeInv
<1>3. ASSUME NEW u \in Threads, TableTaken(u)', NEW pg \in DOMAIN delta'
      PROVE  ToMerge(u, pg)' \/ dirty'[pg] = Home[u] \/ InFile(pg)'
  <2>1. UNCHANGED delta
    BY <1>2, <1>3 DEF TableTaken
  <2>2. pg \in DOMAIN delta /\ pg \in Pages
    BY <2>1, <1>3 DEF IInv, TypeInv, DataType
  <2>3. InFile(pg) => InFile(pg)'
    BY <2>1 DEF InFile
  <2>4. Home[u] # None
    BY TypedThreads DEF IInv
  <2>5. TableTaken(u) => ToMerge(u, pg) \/ dirty[pg] = Home[u] \/ InFile(pg)
    BY <2>2 DEF IInv, MergeInv
  <2>6. CASE u = t
    BY <1>3, <2>2, <2>3, <2>4, <2>5, <2>6
  <2>7. CASE u # t
    <3>1. TableTaken(u) /\ (ToMerge(u, pg) => ToMerge(u, pg)')
      BY <1>3, <2>7 DEF TableTaken, ToMerge, HoldsPage, Entering
    <3> QED
      BY <2>2, <2>3, <2>4, <2>5, <3>1
  <2> QED
    BY <2>6, <2>7
<1> QED
  BY <1>2, <1>3 DEF MergeInv

\* The threads go on with nothing but pages to write.
LEMMA MergeStays ==
  ASSUME IInv, UNCHANGED header, DOMAIN delta' = DOMAIN delta,
         \A u \in Threads : TableTaken(u)' => TableTaken(u) /\ \A pg \in Pages : ToMerge(u, pg) => ToMerge(u, pg)',
         \A u \in Threads : th'[u].op \in {"merge", "finish"} => th[u].op \in {"merge", "finish"},
         \A u \in Threads, pg \in DOMAIN delta : TableTaken(u)' /\ header.state = "merge" =>
           /\ dirty[pg] = Home[u] => dirty'[pg] = Home[u] \/ InFile(pg)'
           /\ InFile(pg) => InFile(pg)'
  PROVE  MergeInv'
<1>1. \A u \in Threads : th'[u].op \in {"merge", "finish"} => header'.state = "merge"
  BY DEF IInv, MergeInv
<1>2. ASSUME NEW u \in Threads, TableTaken(u)', NEW pg \in DOMAIN delta'
      PROVE  ToMerge(u, pg)' \/ dirty'[pg] = Home[u] \/ InFile(pg)'
  <2>1. header.state = "merge"
    BY <1>1, <1>2 DEF TableTaken
  <2>2. pg \in DOMAIN delta /\ pg \in Pages
    BY <1>2 DEF IInv, TypeInv, DataType
  <2>3. ToMerge(u, pg) \/ dirty[pg] = Home[u] \/ InFile(pg)
    BY <1>2, <2>2 DEF IInv, MergeInv
  <2> QED
    BY <1>2, <2>1, <2>2, <2>3
<1> QED
  BY <1>1, <1>2 DEF MergeInv

\* One thread ends backups at a time.
LEMMA OneMerge ==
  ASSUME IInv, NEW t \in Threads, NEW u \in Threads,
         th[t].op \in {"end", "merge", "finish"}, th[u].op \in {"end", "merge", "finish"}
  PROVE  t = u
BY DEF IInv, ThreadInv

LEMMA MergeStep ==
  ASSUME MastersQuiet, IInv, [Next]_vars
  PROVE  MergeInv'
<1>1. ASSUME NEW t \in Threads, Enter(t) PROVE MergeInv'
  <2>1. \A u \in Threads \ {t} : th'[u] = th[u]
    BY <1>1, EnterEffect DEF IInv, ThTo
  <2>2. UNCHANGED <<header, file, delta, dirty>>
    BY <1>1, EnterEffect DEF IInv
  <2>3. th'[t].op \in {"merge", "finish"} => th[t].op \in {"merge", "finish"}
    BY <1>1, EnterEffect DEF IInv, ThTo, IsThread
  <2>4. TableTaken(t)' => \A pg \in DOMAIN delta : (TableTaken(t) /\ ~ToMerge(t, pg)) \/ ToMerge(t, pg)'
    <3>1. CASE th[t].op = "merge"
      <4>1. th[t].why \in {"table", "mark"} /\ th[t].pc = "enter"
        BY <1>1, <3>1, EnterEffect DEF IInv, ThreadInv, Fits
      <4>2. th[t].why = "mark" => Entered(t)
        BY <3>1, <4>1 DEF Entered, Inside
      <4>3. th[t].why = "mark" => bm[Home[t]].state # "unknown"
        BY <4>2 DEF IInv, StateInv, Known
      <4>4. /\ th'[t].op = "merge" /\ th'[t].page = th[t].page /\ th'[t].left = th[t].left
            /\ th'[t].pc \in {"lockRead", th[t].why} /\ (th[t].why = "mark" => th'[t].pc = "mark")
        BY <1>1, <3>1, <4>3, EnterEffect DEF IInv, ThTo, IsThread
      <4>5. th[t].why = "table" => ~TableTaken(t)'
        BY <4>4 DEF TableTaken
      <4>6. th[t].why = "mark" => TableTaken(t) /\ \A pg \in DOMAIN delta : ToMerge(t, pg) => ToMerge(t, pg)'
        BY <3>1, <4>1, <4>4 DEF TableTaken, ToMerge, HoldsPage, Entering
      <4> QED
        BY <4>1, <4>5, <4>6
    <3>2. CASE th[t].op # "merge"
      BY <1>1, <3>2, EnterEffect DEF IInv, ThreadInv, Fits, ThTo, IsThread, TableTaken, ToMerge, HoldsPage, Entering
    <3> QED
      BY <3>1, <3>2
  <2> QED
    BY <2>1, <2>2, <2>3, <2>4, MergeKept
<1>2. ASSUME NEW t \in Threads, LockRead(t) PROVE MergeInv'
  <2>1. \A u \in Threads \ {t} : th'[u] = th[u]
    BY <1>2, ReadsUnblocked, LockReadEffect DEF IInv, ThTo
  <2>2. UNCHANGED <<header, file, delta, dirty>>
    BY <1>2, ReadsUnblocked, LockReadEffect DEF IInv
  <2>3. th'[t].op \in {"merge", "finish"} => th[t].op \in {"merge", "finish"}
    BY <1>2, ReadsUnblocked, LockReadEffect DEF IInv, ThTo, IsThread
  <2>4. TableTaken(t)' => \A pg \in DOMAIN delta : TableTaken(t) /\ ~ToMerge(t, pg)
    BY <1>2, ReadsUnblocked, LockReadEffect DEF IInv, ThreadInv, Fits, StateInv, ThTo, IsThread, TableTaken, ToMerge, HoldsPage, Entering
  <2> QED
    BY <2>1, <2>2, <2>3, <2>4, MergeKept
<1>3. ASSUME NEW t \in Threads, GrantedRead(t) PROVE MergeInv'
  <2>1. \A u \in Threads \ {t} : th'[u] = th[u]
    BY <1>3, ReadsUnblocked, GrantedReadEffect DEF IInv, ThTo
  <2>2. UNCHANGED <<header, file, delta, dirty>>
    BY <1>3, ReadsUnblocked, GrantedReadEffect DEF IInv
  <2>3. th'[t].op \in {"merge", "finish"} => th[t].op \in {"merge", "finish"}
    BY <1>3, ReadsUnblocked, GrantedReadEffect DEF IInv, ThTo, IsThread
  <2>4. TableTaken(t)' => \A pg \in DOMAIN delta : TableTaken(t) /\ ~ToMerge(t, pg)
    BY <1>3, ReadsUnblocked, GrantedReadEffect DEF IInv, ThreadInv, Fits, StateInv, ThTo, IsThread, TableTaken, ToMerge, HoldsPage, Entering
  <2> QED
    BY <2>1, <2>2, <2>3, <2>4, MergeKept
<1>4. ASSUME NEW t \in Threads, Read(t) PROVE MergeInv'
  <2>1. \A u \in Threads \ {t} : th'[u] = th[u]
    BY <1>4, ReadEffect DEF IInv, ThTo
  <2>2. UNCHANGED <<header, file, delta, dirty>>
    BY <1>4, ReadEffect DEF IInv
  <2>3. th'[t].op \in {"merge", "finish"} => th[t].op \in {"merge", "finish"}
    BY <1>4, ReadEffect DEF IInv, ThTo, IsThread
  <2>4. TableTaken(t)' => \A pg \in DOMAIN delta : (TableTaken(t) /\ ~ToMerge(t, pg)) \/ ToMerge(t, pg)' \/ InFile(pg)
    <3> DEFINE q == th[t].page
    <3>1. At(t, "read") /\ th[t].op \in {"change", "merge"}
      BY <1>4, ReadEffect DEF IInv, At
    <3>2. th[t].op = "change" => ~TableTaken(t)'
      BY <1>4, ReadEffect DEF IInv, ThTo, IsThread, TableTaken
    <3>3. CASE th[t].op = "merge"
      <4>1. /\ th'[t].op = "merge" /\ th'[t].page = q /\ th'[t].left = th[t].left
            /\ \/ th'[t].pc = "enter" /\ th'[t].why = "mark"
               \/ th'[t].pc = "merge" /\ Stored(Home[t], q).scn = bm[Home[t]].scn
        BY <1>4, <3>3, ReadEffect DEF IInv, ThTo, IsThread
      <4>2. q \in Pages /\ Known(Home[t]) /\ Home[t] \in Procs
        BY <3>1, ReadsClean, TypedThreads DEF IInv
      <4>3. header.state = "merge" /\ bm[Home[t]].state = header.state /\ bm[Home[t]].scn = header.scn
        BY <3>3, <4>2 DEF IInv, StateInv, MergeInv
      <4>4. q \in DOMAIN delta /\ Stored(Home[t], q).scn = bm[Home[t]].scn => InFile(q)
        BY <4>3 DEF Stored, IInv, DiskInv, InFile
      <4>5. TableTaken(t)
        BY <3>1, <3>3 DEF TableTaken, At
      <4>6. \A pg \in DOMAIN delta : ToMerge(t, pg) => ToMerge(t, pg)' \/ InFile(pg)
        BY <3>1, <3>3, <4>1, <4>4 DEF ToMerge, HoldsPage, Entering, At
      <4> QED
        BY <4>5, <4>6
    <3> QED
      BY <3>1, <3>2, <3>3
  <2> QED
    BY <2>1, <2>2, <2>3, <2>4, MergeKept
<1>5. ASSUME NEW t \in Threads, Mark(t) PROVE MergeInv'
  <2>0. DOMAIN delta' \subseteq Pages
    BY <1>5, DataTypeStep DEF DataType, Next, ThreadStep
  <2>1. /\ \A u \in Threads \ {t} : th'[u] = th[u]
        /\ At(t, "mark") /\ th[t].op \in {"change", "merge"}
        /\ IF th[t].op = "merge"
           THEN th'[t].pc = "merge" /\ th'[t].op = "merge" /\ th'[t].left = th[t].left
           ELSE th'[t].op = "none"
    BY <1>5, <2>0, MarkEffect DEF IInv, ThreadInv, Fits, ThTo, IsThread, At
  <2>2. /\ UNCHANGED <<header, file>> /\ DOMAIN delta \subseteq DOMAIN delta'
        /\ \A q \in DOMAIN delta : delta'[q] = delta[q]
        /\ \A q \in DOMAIN delta' \ DOMAIN delta : header.state = "stalled"
        /\ dirty'[th[t].page] = Home[t]
        /\ \A q \in Pages \ {th[t].page} : dirty'[q] = dirty[q]
    BY <1>5, <2>0, Marks
  <2>3. \A pg \in Pages : dirty[pg] # None => dirty'[pg] = dirty[pg]
    BY <2>1, <2>2, MarksHeld
  <2>4. TableTaken(t)' => \A pg \in DOMAIN delta : (TableTaken(t) /\ ~ToMerge(t, pg)) \/ ToMerge(t, pg)' \/ dirty'[pg] = Home[t]
    <3>1. CASE th[t].op = "merge"
      <4>1. TableTaken(t)
        BY <2>1, <3>1 DEF TableTaken, At
      <4>2. \A pg \in DOMAIN delta : ToMerge(t, pg) /\ pg # th[t].page => ToMerge(t, pg)'
        BY <2>1, <3>1 DEF ToMerge, HoldsPage, At
      <4> QED
        BY <2>2, <4>1, <4>2
    <3>2. CASE th[t].op # "merge"
      BY <2>1, <3>2 DEF TableTaken
    <3> QED
      BY <3>1, <3>2
  <2>5. header.state # "merge" \/ UNCHANGED delta
    <3>1. SUFFICES ASSUME header.state = "merge" PROVE UNCHANGED delta
      OBVIOUS
    <3>2. bm[Home[t]].state # "stalled"
      BY <2>1, <3>1, MarksHeld, TypedThreads DEF IInv, StateInv
    <3> QED
      BY <1>5, <2>0, <3>2, MarkEffect DEF IInv
  <2>6. th'[t].op \in {"merge", "finish"} => th[t].op \in {"merge", "finish"}
    BY <2>1
  <2> QED
    BY <2>1, <2>2, <2>3, <2>4, <2>5, <2>6, MergeKept
<1>6. ASSUME NEW t \in Threads, FetchHeader(t) PROVE MergeInv'
  <2>1. \A u \in Threads \ {t} : th'[u] = th[u]
    BY <1>6, FetchHeaderEffect DEF IInv, ThTo
  <2>2. UNCHANGED <<header, file, delta, dirty>>
    BY <1>6, FetchHeaderEffect DEF IInv
  <2>3. th'[t].op \in {"merge", "finish"} => th[t].op \in {"merge", "finish"}
    BY <1>6, FetchHeaderEffect DEF IInv, ThTo, IsThread
  <2>4. TableTaken(t)' => \A pg \in DOMAIN delta : TableTaken(t) /\ ~ToMerge(t, pg)
    BY <1>6, FetchHeaderEffect DEF IInv, ThreadInv, Fits, StateInv, ThTo, IsThread, TableTaken, ToMerge, HoldsPage, Entering
  <2> QED
    BY <2>1, <2>2, <2>3, <2>4, MergeKept
<1>7. ASSUME NEW t \in Threads, ReadHeader(t) PROVE MergeInv'
  <2>1. \A u \in Threads \ {t} : th'[u] = th[u]
    BY <1>7, ReadHeaderEffect DEF IInv, ThTo
  <2>2. UNCHANGED <<header, file, delta, dirty>>
    BY <1>7, ReadHeaderEffect DEF IInv
  <2>3. th'[t].op \in {"merge", "finish"} => th[t].op \in {"merge", "finish"}
    BY <1>7, ReadHeaderEffect DEF IInv, ThTo, IsThread
  <2>4. TableTaken(t)' => \A pg \in DOMAIN delta : TableTaken(t) /\ ~ToMerge(t, pg)
    BY <1>7, ReadHeaderEffect DEF IInv, ThreadInv, Fits, StateInv, ThTo, IsThread, TableTaken, ToMerge, HoldsPage, Entering
  <2> QED
    BY <2>1, <2>2, <2>3, <2>4, MergeKept
<1>8. ASSUME NEW t \in Threads, BeginWrite(t) PROVE MergeInv'
  <2>1. \A u \in Threads \ {t} : th'[u] = th[u]
    BY <1>8, BeginWriteEffect DEF IInv, ThTo
  <2>2. UNCHANGED <<header, file, delta, dirty>>
    BY <1>8, BeginWriteEffect DEF IInv
  <2>3. th'[t].op \in {"merge", "finish"} => th[t].op \in {"merge", "finish"}
    BY <1>8, BeginWriteEffect DEF IInv, ThTo, IsThread
  <2>4. TableTaken(t)' => \A pg \in DOMAIN delta : TableTaken(t) /\ ~ToMerge(t, pg)
    BY <1>8, BeginWriteEffect DEF IInv, ThreadInv, Fits, StateInv, ThTo, IsThread, TableTaken, ToMerge, HoldsPage, Entering
  <2> QED
    BY <2>1, <2>2, <2>3, <2>4, MergeKept
<1>9. ASSUME NEW t \in Threads, LockWrite(t) PROVE MergeInv'
  <2>1. \A u \in Threads \ {t} : th'[u] = th[u]
    BY <1>9, LockWriteEffect DEF IInv, ThTo
  <2>2. UNCHANGED <<header, file, delta, dirty>>
    BY <1>9, LockWriteEffect DEF IInv
  <2>3. th'[t].op \in {"merge", "finish"} => th[t].op \in {"merge", "finish"}
    BY <1>9, LockWriteEffect DEF IInv, ThTo, IsThread
  <2>4. TableTaken(t)' => \A pg \in DOMAIN delta : TableTaken(t) /\ ~ToMerge(t, pg)
    BY <1>9, LockWriteEffect DEF IInv, ThreadInv, Fits, StateInv, ThTo, IsThread, TableTaken, ToMerge, HoldsPage, Entering
  <2> QED
    BY <2>1, <2>2, <2>3, <2>4, MergeKept
<1>10. ASSUME NEW t \in Threads, GrantedWrite(t) PROVE MergeInv'
  <2>1. \A u \in Threads \ {t} : th'[u] = th[u]
    BY <1>10, GrantedWriteEffect DEF IInv, ThTo
  <2>2. UNCHANGED <<header, file, delta, dirty>>
    BY <1>10, GrantedWriteEffect DEF IInv
  <2>3. th'[t].op \in {"merge", "finish"} => th[t].op \in {"merge", "finish"}
    BY <1>10, GrantedWriteEffect DEF IInv, ThTo, IsThread
  <2>4. TableTaken(t)' => \A pg \in DOMAIN delta : TableTaken(t) /\ ~ToMerge(t, pg)
    BY <1>10, GrantedWriteEffect DEF IInv, ThreadInv, Fits, StateInv, ThTo, IsThread, TableTaken, ToMerge, HoldsPage, Entering
  <2> QED
    BY <2>1, <2>2, <2>3, <2>4, MergeKept
<1>11. ASSUME NEW t \in Threads, Stall(t) PROVE MergeInv'
  <2>1. /\ \A u \in Threads \ {t} : th'[u] = th[u]
        /\ th'[t].op = "none" /\ UNCHANGED <<file, dirty>>
    BY <1>11, StallStep DEF ThTo, IsThread
  <2>2. ~TableTaken(t)'
    BY <2>1 DEF TableTaken
  <2>3. CASE header.state = "normal"
    <3>1. \A u \in Threads : th'[u].op \notin {"merge", "finish"}
      BY <2>1, <2>3 DEF IInv, MergeInv
    <3> QED
      BY <3>1 DEF MergeInv, TableTaken
  <2>4. CASE header.state # "normal"
    <3>1. UNCHANGED <<header, delta>>
      BY <1>11, <2>4, StallStep
    <3> QED
      BY <2>1, <2>2, <3>1, MergeKept
  <2> QED
    BY <2>3, <2>4
<1>12. ASSUME NEW t \in Threads, Check(t) PROVE MergeInv'
  <2>1. \A u \in Threads \ {t} : th'[u] = th[u]
    BY <1>12, CheckEffect DEF IInv, ThTo
  <2>2. UNCHANGED <<header, file, delta, dirty>>
    BY <1>12, CheckEffect DEF IInv
  <2>3. th'[t].op \in {"merge", "finish"} => th[t].op \in {"merge", "finish"}
    BY <1>12, CheckEffect DEF IInv, ThTo, IsThread
  <2>4. TableTaken(t)' => \A pg \in DOMAIN delta : TableTaken(t) /\ ~ToMerge(t, pg)
    BY <1>12, CheckEffect DEF IInv, ThreadInv, Fits, StateInv, ThTo, IsThread, TableTaken, ToMerge, HoldsPage, Entering
  <2> QED
    BY <2>1, <2>2, <2>3, <2>4, MergeKept
<1>13. ASSUME NEW t \in Threads, StartMerge(t) PROVE MergeInv'
  <2>1. /\ \A u \in Threads \ {t} : th'[u] = th[u]
        /\ th[t].op = "end" /\ UNCHANGED <<file, delta, dirty>>
    BY <1>13, StartMergeStep DEF ThTo
  <2>2. \A u \in Threads \ {t} : th[u].op \notin {"merge", "finish"}
    BY <2>1, OneMerge
  <2>3. CASE header.state # "normal"
    <3>1. /\ header'.state = "merge" /\ th'[t].op = "merge" /\ th'[t].pc = "enter" /\ th'[t].why = "table"
      <4>1. /\ header' = [state |-> "merge", scn |-> header.scn + 1]
            /\ ThTo(t, "enter", "merge", "table", th[t].page, th[t].left)
        BY <1>13, <2>3, StartMergeStep
      <4> QED
        BY <4>1 DEF ThTo, IsThread
    <3>2. ~TableTaken(t)'
      BY <3>1 DEF TableTaken
    <3> QED
      BY <2>1, <2>2, <3>1, <3>2 DEF MergeInv, TableTaken
  <2>4. CASE header.state = "normal"
    <3>1. th'[t].op = "none"
      BY <1>13, <2>4, StartMergeStep DEF ThTo, IsThread
    <3> QED
      BY <2>1, <2>2, <3>1 DEF MergeInv, TableTaken
  <2> QED
    BY <2>3, <2>4
<1>14. ASSUME NEW t \in Threads, Table(t) PROVE MergeInv'
  <2>1. \A u \in Threads \ {t} : th'[u] = th[u]
    BY <1>14, TableEffect DEF IInv, ThTo
  <2>2. UNCHANGED <<header, file, delta, dirty>>
    BY <1>14, TableEffect DEF IInv
  <2>3. th'[t].op \in {"merge", "finish"} => th[t].op \in {"merge", "finish"}
    BY <1>14, TableEffect DEF IInv, ThTo, IsThread
  <2>4. \A pg \in DOMAIN delta : ToMerge(t, pg)'
    <3>1. th[t].op = "merge"
      BY <1>14, TableEffect DEF IInv, ThreadInv, Fits
    <3> QED
      BY <1>14, <3>1, TableEffect DEF IInv, ThTo, IsThread, ToMerge
  <2> QED
    BY <2>1, <2>2, <2>3, <2>4, MergeKept
<1>15. ASSUME NEW t \in Threads, MergeFlush(t) PROVE MergeInv'
  <2>1. \A u \in Threads \ {t} : th'[u] = th[u]
    BY <1>15, MergeFlushEffect DEF IInv, ThTo
  <2>2. UNCHANGED <<header, file, delta, dirty>>
    BY <1>15, MergeFlushEffect DEF IInv
  <2>3. th'[t].op \in {"merge", "finish"} => th[t].op \in {"merge", "finish"}
    BY <1>15, MergeFlushEffect DEF IInv, ThTo, IsThread
  <2>4. TableTaken(t)' => \A pg \in DOMAIN delta : TableTaken(t) /\ ~ToMerge(t, pg)
    BY <1>15, MergeFlushEffect DEF IInv, ThreadInv, Fits, StateInv, ThTo, IsThread, TableTaken, ToMerge, HoldsPage, Entering
  <2> QED
    BY <2>1, <2>2, <2>3, <2>4, MergeKept
<1>16. ASSUME NEW t \in Threads, Merged(t) PROVE MergeInv'
  <2>1. \A u \in Threads \ {t} : th'[u] = th[u]
    BY <1>16, MergedEffect DEF IInv, ThTo
  <2>2. UNCHANGED <<header, file, delta, dirty>>
    BY <1>16, MergedEffect DEF IInv
  <2>3. th'[t].op \in {"merge", "finish"} => th[t].op \in {"merge", "finish"}
    BY <1>16, MergedEffect DEF IInv
  <2>4. TableTaken(t)' => \A pg \in DOMAIN delta : TableTaken(t) /\ ~ToMerge(t, pg)
    BY <1>16, MergedEffect DEF IInv, ThreadInv, Fits, StateInv, ThTo, IsThread, TableTaken, ToMerge, HoldsPage, Entering
  <2> QED
    BY <2>1, <2>2, <2>3, <2>4, MergeKept
<1>17. ASSUME NEW t \in Threads, Finish(t) PROVE MergeInv'
  <2>1. /\ \A u \in Threads \ {t} : th'[u] = th[u]
        /\ th[t].op = "finish" /\ th'[t].op = "none"
    BY <1>17, FinishStep DEF ThTo, IsThread
  <2>2. \A u \in Threads \ {t} : th[u].op \notin {"merge", "finish"}
    BY <2>1, OneMerge
  <2> QED
    BY <2>1, <2>2 DEF MergeInv, TableTaken
<1>18. ASSUME NEW t \in Threads, BeginBackup(t) PROVE MergeInv'
  <2>1. \A u \in Threads \ {t} : th'[u] = th[u]
    BY <1>18, BeginBackupEffect DEF IInv, ThTo
  <2>2. UNCHANGED <<header, file, delta, dirty>>
    BY <1>18, BeginBackupEffect DEF IInv
  <2>3. th'[t].op \in {"merge", "finish"} => th[t].op \in {"merge", "finish"}
    BY <1>18, BeginBackupEffect DEF IInv, ThTo, IsThread
  <2>4. TableTaken(t)' => \A pg \in DOMAIN delta : TableTaken(t) /\ ~ToMerge(t, pg)
    BY <1>18, BeginBackupEffect DEF IInv, ThreadInv, Fits, StateInv, ThTo, IsThread, TableTaken, ToMerge, HoldsPage, Entering
  <2> QED
    BY <2>1, <2>2, <2>3, <2>4, MergeKept
<1>19. ASSUME NEW t \in Threads, EndBackup(t) PROVE MergeInv'
  <2>1. \A u \in Threads \ {t} : th'[u] = th[u]
    BY <1>19, EndBackupEffect DEF IInv, ThTo
  <2>2. UNCHANGED <<header, file, delta, dirty>>
    BY <1>19, EndBackupEffect DEF IInv
  <2>3. th'[t].op \in {"merge", "finish"} => th[t].op \in {"merge", "finish"}
    BY <1>19, EndBackupEffect DEF IInv, ThTo, IsThread
  <2>4. TableTaken(t)' => \A pg \in DOMAIN delta : TableTaken(t) /\ ~ToMerge(t, pg)
    BY <1>19, EndBackupEffect DEF IInv, ThreadInv, Fits, StateInv, ThTo, IsThread, TableTaken, ToMerge, HoldsPage, Entering
  <2> QED
    BY <2>1, <2>2, <2>3, <2>4, MergeKept
<1>20. ASSUME NEW t \in Threads, NEW pg \in Pages, Merge(t, pg) PROVE MergeInv'
  <2>1. \A u \in Threads \ {t} : th'[u] = th[u]
    BY <1>20, MergeEffect DEF IInv, ThTo
  <2>2. UNCHANGED <<header, file, delta, dirty>>
    BY <1>20, MergeEffect DEF IInv
  <2>3. th'[t].op \in {"merge", "finish"} => th[t].op \in {"merge", "finish"}
    BY <1>20, MergeEffect DEF IInv, ThTo, IsThread
  <2>4. \A q \in DOMAIN delta : (TableTaken(t) /\ ~ToMerge(t, q)) \/ ToMerge(t, q)' \/ dirty'[q] = Home[t]
    <3>1. th[t].op = "merge" /\ th[t].pc = "merge"
      BY <1>20, MergeEffect DEF IInv, ThreadInv, Fits
    <3>2. \/ /\ dirty[pg] = Home[t]
             /\ th'[t].pc = "merge" /\ th'[t].left = th[t].left \ {pg} /\ th'[t].op = th[t].op
          \/ /\ th'[t].pc \in {"mark", "read"} /\ th'[t].left = th[t].left \ {pg} /\ th'[t].op = th[t].op
             /\ th'[t].page = pg
      BY <1>20, MergeEffect DEF IInv, ThTo, IsThread
    <3> QED
      BY <2>2, <3>1, <3>2 DEF TableTaken, ToMerge, HoldsPage, Entering
  <2> QED
    BY <2>1, <2>2, <2>3, <2>4, MergeKept
<1>21. ASSUME NEW t \in Threads, NEW pg \in Pages, Fetch(t, pg) PROVE MergeInv'
  <2>1. \A u \in Threads \ {t} : th'[u] = th[u]
    BY <1>21, FetchEffect DEF IInv, ThTo
  <2>2. UNCHANGED <<header, file, delta, dirty>>
    BY <1>21, FetchEffect DEF IInv
  <2>3. th'[t].op \in {"merge", "finish"} => th[t].op \in {"merge", "finish"}
    BY <1>21, FetchEffect DEF IInv, ThTo, IsThread
  <2>4. TableTaken(t)' => \A x \in DOMAIN delta : TableTaken(t) /\ ~ToMerge(t, x)
    BY <1>21, FetchEffect DEF IInv, ThreadInv, Fits, StateInv, ThTo, IsThread, TableTaken, ToMerge, HoldsPage, Entering
  <2> QED
    BY <2>1, <2>2, <2>3, <2>4, MergeKept
<1>22. ASSUME NEW pg \in Pages, Write(pg) PROVE MergeInv'
  <2>1. UNCHANGED header
    BY <1>22, WriteEffect DEF IInv
  <2>2. /\ DOMAIN delta' = DOMAIN delta
        /\ \A q \in Pages \ {pg} : file'[q] = file[q] /\ dirty'[q] = dirty[q]
        /\ \A q \in DOMAIN delta \ {pg} : delta'[q] = delta[q]
        /\ header.state = "merge" /\ pg \in DOMAIN delta => delta'[pg] = file'[pg]
    BY <1>22, Writes, DiskWritten
  <2>3. \A u \in Threads : /\ th'[u].pc = th[u].pc /\ th'[u].op = th[u].op /\ th'[u].why = th[u].why
                           /\ th'[u].page = th[u].page /\ (th[u].pc # "flush" => th'[u].left = th[u].left)
    BY <1>22, WriteEffect DEF IInv, IsThread
  <2>4. \A u \in Threads : TableTaken(u)' <=> TableTaken(u)
    BY <2>3 DEF TableTaken
  <2>5. \A u \in Threads, q \in Pages : ToMerge(u, q)' <=> ToMerge(u, q)
    BY <2>3 DEF ToMerge, HoldsPage, Entering
  <2>6. \A q \in DOMAIN delta : header.state = "merge" /\ q = pg => InFile(q)'
    BY <2>2 DEF InFile
  <2>7. \A q \in DOMAIN delta : q # pg => (InFile(q) => InFile(q)') /\ dirty'[q] = dirty[q]
    BY <2>2 DEF InFile, IInv, TypeInv, DataType
  <2> QED
    BY <2>1, <2>2, <2>3, <2>4, <2>5, <2>6, <2>7, MergeStays
<1>23. ASSUME NEW p \in Procs, Grant(p) PROVE MergeInv'
  <2>1. UNCHANGED <<th, header, file, delta, dirty>>
    BY <1>23, GrantEffect DEF IInv
  <2>2. \A u \in Threads : TableTaken(u)' <=> TableTaken(u)
    BY <2>1 DEF TableTaken
  <2>3. \A u \in Threads, pg \in Pages : ToMerge(u, pg)' <=> ToMerge(u, pg)
    BY <2>1 DEF ToMerge, HoldsPage, Entering
  <2>4. \A pg \in DOMAIN delta : InFile(pg)' <=> InFile(pg)
    BY <2>1 DEF InFile
  <2> QED
    BY <2>1, <2>2, <2>3, <2>4, MergeStays
<1>24. ASSUME NEW p \in Procs, Ast(p) PROVE MergeInv'
  <2>1. UNCHANGED <<th, header, file, delta, dirty>>
    BY <1>24, AstEffect DEF IInv
  <2>2. \A u \in Threads : TableTaken(u)' <=> TableTaken(u)
    BY <2>1 DEF TableTaken
  <2>3. \A u \in Threads, pg \in Pages : ToMerge(u, pg)' <=> ToMerge(u, pg)
    BY <2>1 DEF ToMerge, HoldsPage, Entering
  <2>4. \A pg \in DOMAIN delta : InFile(pg)' <=> InFile(pg)
    BY <2>1 DEF InFile
  <2> QED
    BY <2>1, <2>2, <2>3, <2>4, MergeStays
<1>25. ASSUME NEW p \in Procs, AstTry(p) PROVE MergeInv'
  <2>1. UNCHANGED <<th, header, file, delta, dirty>>
    BY <1>25, AstEffect DEF IInv
  <2>2. \A u \in Threads : TableTaken(u)' <=> TableTaken(u)
    BY <2>1 DEF TableTaken
  <2>3. \A u \in Threads, pg \in Pages : ToMerge(u, pg)' <=> ToMerge(u, pg)
    BY <2>1 DEF ToMerge, HoldsPage, Entering
  <2>4. \A pg \in DOMAIN delta : InFile(pg)' <=> InFile(pg)
    BY <2>1 DEF InFile
  <2> QED
    BY <2>1, <2>2, <2>3, <2>4, MergeStays
<1>26. ASSUME NEW p \in Procs, AstSet(p) PROVE MergeInv'
  <2>1. UNCHANGED <<th, header, file, delta, dirty>>
    BY <1>26, AstEffect DEF IInv
  <2>2. \A u \in Threads : TableTaken(u)' <=> TableTaken(u)
    BY <2>1 DEF TableTaken
  <2>3. \A u \in Threads, pg \in Pages : ToMerge(u, pg)' <=> ToMerge(u, pg)
    BY <2>1 DEF ToMerge, HoldsPage, Entering
  <2>4. \A pg \in DOMAIN delta : InFile(pg)' <=> InFile(pg)
    BY <2>1 DEF InFile
  <2> QED
    BY <2>1, <2>2, <2>3, <2>4, MergeStays
<1>27. ASSUME NEW p \in Procs, Crash(p) PROVE MergeInv'
  <2>1. /\ UNCHANGED <<header, file, delta>>
        /\ dirty' = [pg \in Pages |-> IF dirty[pg] = p THEN None ELSE dirty[pg]]
        /\ \A t \in Threads : IF Home[t] = p THEN IsThread(th'[t], "idle", "none", "none", None, {})
                                             ELSE th'[t] = th[t]
    BY <1>27, CrashEffect DEF IInv
  <2>2. \A u \in Threads : th'[u].op \in {"merge", "finish"} => Home[u] # p /\ th'[u] = th[u]
    BY <2>1 DEF IsThread
  <2>3. \A u \in Threads : TableTaken(u)' => Home[u] # p /\ TableTaken(u) /\ th'[u] = th[u]
    BY <2>2 DEF TableTaken
  <2>4. \A u \in Threads, pg \in Pages : TableTaken(u)' /\ ToMerge(u, pg) => ToMerge(u, pg)'
    BY <2>3 DEF ToMerge, HoldsPage, Entering
  <2>5. \A pg \in DOMAIN delta : InFile(pg)' <=> InFile(pg)
    BY <2>1 DEF InFile
  <2>6. \A u \in Threads, pg \in DOMAIN delta : TableTaken(u)' /\ dirty[pg] = Home[u] => dirty'[pg] = Home[u]
    BY <2>1, <2>3 DEF IInv, TypeInv, DataType
  <2> QED
    BY <2>1, <2>2, <2>3, <2>4, <2>5, <2>6, MergeStays
<1>28. CASE UNCHANGED vars
  <2>1. UNCHANGED <<th, header, file, delta, dirty>>
    BY <1>28 DEF vars, disk, pool
  <2>2. \A u \in Threads : TableTaken(u)' <=> TableTaken(u)
    BY <2>1 DEF TableTaken
  <2>3. \A u \in Threads, pg \in Pages : ToMerge(u, pg)' <=> ToMerge(u, pg)
    BY <2>1 DEF ToMerge, HoldsPage, Entering
  <2>4. \A pg \in DOMAIN delta : InFile(pg)' <=> InFile(pg)
    BY <2>1 DEF InFile
  <2> QED
    BY <2>1, <2>2, <2>3, <2>4, MergeStays
<1> QED
  BY <1>1, <1>2, <1>3, <1>4, <1>5, <1>6, <1>7, <1>8, <1>9, <1>10, <1>11, <1>12, <1>13, <1>14, <1>15, <1>16, <1>17, <1>18, <1>19, <1>20, <1>21, <1>22, <1>23, <1>24, <1>25, <1>26, <1>27, <1>28 DEF Next, ThreadStep

LEMMA NamedStep ==
  ASSUME MastersQuiet, IInv, [Next]_vars
  PROVE  NamedInv'
<1>1. ASSUME NEW t \in Threads, Enter(t) PROVE NamedInv'
  <2>1. \A u \in Threads \ {t} : th'[u] = th[u]
    BY <1>1, EnterEffect DEF IInv, ThTo
  <2>2. \/ th'[t].why # "mark" \/ th'[t].page \in Pages
        \/ th'[t].why = th[t].why /\ th'[t].page = th[t].page
    BY <1>1, EnterEffect DEF IInv, ThTo, IsThread
  <2> QED
    BY <2>1, <2>2 DEF IInv, NamedInv
<1>2. ASSUME NEW t \in Threads, LockRead(t) PROVE NamedInv'
  <2>1. \A u \in Threads \ {t} : th'[u] = th[u]
    BY <1>2, ReadsUnblocked, LockReadEffect DEF IInv, ThTo
  <2>2. \/ th'[t].why # "mark" \/ th'[t].page \in Pages
        \/ th'[t].why = th[t].why /\ th'[t].page = th[t].page
    BY <1>2, ReadsUnblocked, LockReadEffect DEF IInv, ThTo, IsThread
  <2> QED
    BY <2>1, <2>2 DEF IInv, NamedInv
<1>3. ASSUME NEW t \in Threads, GrantedRead(t) PROVE NamedInv'
  <2>1. \A u \in Threads \ {t} : th'[u] = th[u]
    BY <1>3, ReadsUnblocked, GrantedReadEffect DEF IInv, ThTo
  <2>2. \/ th'[t].why # "mark" \/ th'[t].page \in Pages
        \/ th'[t].why = th[t].why /\ th'[t].page = th[t].page
    BY <1>3, ReadsUnblocked, GrantedReadEffect DEF IInv, ThTo, IsThread
  <2> QED
    BY <2>1, <2>2 DEF IInv, NamedInv
<1>4. ASSUME NEW t \in Threads, Read(t) PROVE NamedInv'
  <2>0. At(t, "read")
    BY <1>4, ReadEffect DEF IInv, At
  <2>1. \A u \in Threads \ {t} : th'[u] = th[u]
    BY <1>4, <2>0, ReadEffect DEF IInv, ThTo
  <2>2. \/ th'[t].why # "mark" \/ th'[t].page \in Pages
        \/ th'[t].why = th[t].why /\ th'[t].page = th[t].page
    BY <1>4, <2>0, ReadsClean, ReadEffect DEF IInv, ThTo, IsThread
  <2> QED
    BY <2>1, <2>2 DEF IInv, NamedInv
<1>5. ASSUME NEW t \in Threads, Mark(t) PROVE NamedInv'
  <2>0. DOMAIN delta' \subseteq Pages
    BY <1>5, DataTypeStep DEF DataType, Next, ThreadStep
  <2>1. \A u \in Threads \ {t} : th'[u] = th[u]
    BY <1>5, <2>0, MarkEffect DEF IInv, ThTo
  <2>2. \/ th'[t].why # "mark" \/ th'[t].page \in Pages
        \/ th'[t].why = th[t].why /\ th'[t].page = th[t].page
    BY <1>5, <2>0, MarkEffect DEF IInv, ThTo, IsThread
  <2> QED
    BY <2>1, <2>2 DEF IInv, NamedInv
<1>6. ASSUME NEW t \in Threads, FetchHeader(t) PROVE NamedInv'
  <2>1. \A u \in Threads \ {t} : th'[u] = th[u]
    BY <1>6, FetchHeaderEffect DEF IInv, ThTo
  <2>2. \/ th'[t].why # "mark" \/ th'[t].page \in Pages
        \/ th'[t].why = th[t].why /\ th'[t].page = th[t].page
    BY <1>6, FetchHeaderEffect DEF IInv, ThTo, IsThread
  <2> QED
    BY <2>1, <2>2 DEF IInv, NamedInv
<1>7. ASSUME NEW t \in Threads, ReadHeader(t) PROVE NamedInv'
  <2>1. \A u \in Threads \ {t} : th'[u] = th[u]
    BY <1>7, ReadHeaderEffect DEF IInv, ThTo
  <2>2. \/ th'[t].why # "mark" \/ th'[t].page \in Pages
        \/ th'[t].why = th[t].why /\ th'[t].page = th[t].page
    BY <1>7, ReadHeaderEffect DEF IInv, ThTo, IsThread
  <2> QED
    BY <2>1, <2>2 DEF IInv, NamedInv
<1>8. ASSUME NEW t \in Threads, BeginWrite(t) PROVE NamedInv'
  <2>1. \A u \in Threads \ {t} : th'[u] = th[u]
    BY <1>8, BeginWriteEffect DEF IInv, ThTo
  <2>2. \/ th'[t].why # "mark" \/ th'[t].page \in Pages
        \/ th'[t].why = th[t].why /\ th'[t].page = th[t].page
    BY <1>8, BeginWriteEffect DEF IInv, ThTo, IsThread
  <2> QED
    BY <2>1, <2>2 DEF IInv, NamedInv
<1>9. ASSUME NEW t \in Threads, LockWrite(t) PROVE NamedInv'
  <2>1. \A u \in Threads \ {t} : th'[u] = th[u]
    BY <1>9, LockWriteEffect DEF IInv, ThTo
  <2>2. \/ th'[t].why # "mark" \/ th'[t].page \in Pages
        \/ th'[t].why = th[t].why /\ th'[t].page = th[t].page
    BY <1>9, LockWriteEffect DEF IInv, ThTo, IsThread
  <2> QED
    BY <2>1, <2>2 DEF IInv, NamedInv
<1>10. ASSUME NEW t \in Threads, GrantedWrite(t) PROVE NamedInv'
  <2>1. \A u \in Threads \ {t} : th'[u] = th[u]
    BY <1>10, GrantedWriteEffect DEF IInv, ThTo
  <2>2. \/ th'[t].why # "mark" \/ th'[t].page \in Pages
        \/ th'[t].why = th[t].why /\ th'[t].page = th[t].page
    BY <1>10, GrantedWriteEffect DEF IInv, ThTo, IsThread
  <2> QED
    BY <2>1, <2>2 DEF IInv, NamedInv
<1>11. ASSUME NEW t \in Threads, Stall(t) PROVE NamedInv'
  <2>1. \A u \in Threads \ {t} : th'[u] = th[u]
    BY <1>11, StallStep DEF IInv, ThTo
  <2>2. \/ th'[t].why # "mark" \/ th'[t].page \in Pages
        \/ th'[t].why = th[t].why /\ th'[t].page = th[t].page
    BY <1>11, StallStep DEF IInv, ThTo, IsThread
  <2> QED
    BY <2>1, <2>2 DEF IInv, NamedInv
<1>12. ASSUME NEW t \in Threads, Check(t) PROVE NamedInv'
  <2>1. \A u \in Threads \ {t} : th'[u] = th[u]
    BY <1>12, CheckEffect DEF IInv, ThTo
  <2>2. \/ th'[t].why # "mark" \/ th'[t].page \in Pages
        \/ th'[t].why = th[t].why /\ th'[t].page = th[t].page
    BY <1>12, CheckEffect DEF IInv, ThTo, IsThread
  <2> QED
    BY <2>1, <2>2 DEF IInv, NamedInv
<1>13. ASSUME NEW t \in Threads, StartMerge(t) PROVE NamedInv'
  <2>1. \A u \in Threads \ {t} : th'[u] = th[u]
    BY <1>13, StartMergeStep DEF IInv, ThTo
  <2>2. \/ th'[t].why # "mark" \/ th'[t].page \in Pages
        \/ th'[t].why = th[t].why /\ th'[t].page = th[t].page
    BY <1>13, StartMergeStep DEF IInv, ThTo, IsThread
  <2> QED
    BY <2>1, <2>2 DEF IInv, NamedInv
<1>14. ASSUME NEW t \in Threads, Table(t) PROVE NamedInv'
  <2>1. \A u \in Threads \ {t} : th'[u] = th[u]
    BY <1>14, TableEffect DEF IInv, ThTo
  <2>2. \/ th'[t].why # "mark" \/ th'[t].page \in Pages
        \/ th'[t].why = th[t].why /\ th'[t].page = th[t].page
    BY <1>14, TableEffect DEF IInv, ThTo, IsThread
  <2> QED
    BY <2>1, <2>2 DEF IInv, NamedInv
<1>15. ASSUME NEW t \in Threads, MergeFlush(t) PROVE NamedInv'
  <2>1. \A u \in Threads \ {t} : th'[u] = th[u]
    BY <1>15, MergeFlushEffect DEF IInv, ThTo
  <2>2. \/ th'[t].why # "mark" \/ th'[t].page \in Pages
        \/ th'[t].why = th[t].why /\ th'[t].page = th[t].page
    BY <1>15, MergeFlushEffect DEF IInv, ThTo, IsThread
  <2> QED
    BY <2>1, <2>2 DEF IInv, NamedInv
<1>16. ASSUME NEW t \in Threads, Merged(t) PROVE NamedInv'
  <2>1. \A u \in Threads \ {t} : th'[u] = th[u]
    BY <1>16, MergedEffect DEF IInv, ThTo
  <2>2. \/ th'[t].why # "mark" \/ th'[t].page \in Pages
        \/ th'[t].why = th[t].why /\ th'[t].page = th[t].page
    BY <1>16, MergedEffect DEF IInv, ThTo, IsThread
  <2> QED
    BY <2>1, <2>2 DEF IInv, NamedInv
<1>17. ASSUME NEW t \in Threads, Finish(t) PROVE NamedInv'
  <2>1. \A u \in Threads \ {t} : th'[u] = th[u]
    BY <1>17, FinishStep DEF IInv, ThTo
  <2>2. \/ th'[t].why # "mark" \/ th'[t].page \in Pages
        \/ th'[t].why = th[t].why /\ th'[t].page = th[t].page
    BY <1>17, FinishStep DEF IInv, ThTo, IsThread
  <2> QED
    BY <2>1, <2>2 DEF IInv, NamedInv
<1>18. ASSUME NEW t \in Threads, BeginBackup(t) PROVE NamedInv'
  <2>1. \A u \in Threads \ {t} : th'[u] = th[u]
    BY <1>18, BeginBackupEffect DEF IInv, ThTo
  <2>2. \/ th'[t].why # "mark" \/ th'[t].page \in Pages
        \/ th'[t].why = th[t].why /\ th'[t].page = th[t].page
    BY <1>18, BeginBackupEffect DEF IInv, ThTo, IsThread
  <2> QED
    BY <2>1, <2>2 DEF IInv, NamedInv
<1>19. ASSUME NEW t \in Threads, EndBackup(t) PROVE NamedInv'
  <2>1. \A u \in Threads \ {t} : th'[u] = th[u]
    BY <1>19, EndBackupEffect DEF IInv, ThTo
  <2>2. \/ th'[t].why # "mark" \/ th'[t].page \in Pages
        \/ th'[t].why = th[t].why /\ th'[t].page = th[t].page
    BY <1>19, EndBackupEffect DEF IInv, ThTo, IsThread
  <2> QED
    BY <2>1, <2>2 DEF IInv, NamedInv
<1>20. ASSUME NEW t \in Threads, NEW pg \in Pages, Merge(t, pg) PROVE NamedInv'
  <2>1. \A u \in Threads \ {t} : th'[u] = th[u]
    BY <1>20, MergeEffect DEF IInv, ThTo
  <2>2. \/ th'[t].why # "mark" \/ th'[t].page \in Pages
        \/ th'[t].why = th[t].why /\ th'[t].page = th[t].page
    BY <1>20, MergeEffect DEF IInv, ThTo, IsThread
  <2> QED
    BY <2>1, <2>2 DEF IInv, NamedInv
<1>21. ASSUME NEW t \in Threads, NEW pg \in Pages, Fetch(t, pg) PROVE NamedInv'
  <2>1. \A u \in Threads \ {t} : th'[u] = th[u]
    BY <1>21, FetchEffect DEF IInv, ThTo
  <2>2. \/ th'[t].why # "mark" \/ th'[t].page \in Pages
        \/ th'[t].why = th[t].why /\ th'[t].page = th[t].page
    BY <1>21, FetchEffect DEF IInv, ThTo, IsThread
  <2> QED
    BY <2>1, <2>2 DEF IInv, NamedInv
<1>22. ASSUME NEW pg \in Pages, Write(pg) PROVE NamedInv'
  <2>1. \A u \in Threads : th'[u].why = th[u].why /\ th'[u].page = th[u].page
    BY <1>22, WriteEffect DEF IInv, IsThread
  <2> QED
    BY <2>1 DEF IInv, NamedInv
<1>23. ASSUME NEW p \in Procs, Grant(p) PROVE NamedInv'
  <2>1. UNCHANGED th
    BY <1>23, GrantEffect DEF IInv
  <2> QED
    BY <2>1 DEF IInv, NamedInv
<1>24. ASSUME NEW p \in Procs, Ast(p) PROVE NamedInv'
  <2>1. UNCHANGED th
    BY <1>24, AstEffect DEF IInv
  <2> QED
    BY <2>1 DEF IInv, NamedInv
<1>25. ASSUME NEW p \in Procs, AstTry(p) PROVE NamedInv'
  <2>1. UNCHANGED th
    BY <1>25, AstEffect DEF IInv
  <2> QED
    BY <2>1 DEF IInv, NamedInv
<1>26. ASSUME NEW p \in Procs, AstSet(p) PROVE NamedInv'
  <2>1. UNCHANGED th
    BY <1>26, AstEffect DEF IInv
  <2> QED
    BY <2>1 DEF IInv, NamedInv
<1>27. ASSUME NEW p \in Procs, Crash(p) PROVE NamedInv'
  <2>1. \A u \in Threads : th'[u] = th[u] \/ th'[u].why = "none"
    BY <1>27, CrashEffect DEF IInv, IsThread
  <2> QED
    BY <2>1 DEF IInv, NamedInv
<1>28. CASE UNCHANGED vars
  <2>1. UNCHANGED th
    BY <1>28 DEF vars
  <2> QED
    BY <2>1 DEF IInv, NamedInv
<1> QED
  BY <1>1, <1>2, <1>3, <1>4, <1>5, <1>6, <1>7, <1>8, <1>9, <1>10, <1>11, <1>12, <1>13, <1>14, <1>15, <1>16, <1>17, <1>18, <1>19, <1>20, <1>21, <1>22, <1>23, <1>24, <1>25, <1>26, <1>27, <1>28 DEF Next, ThreadStep

(***************************************************************************)
(* The theorems                                                            *)
(***************************************************************************)

LEMMA InitInv ==
  ASSUME Init
  PROVE  IInv
<1>1. None \notin Threads /\ None \notin Procs /\ None \notin Pages
  BY NBackupAssumption
<1>2. \A t \in Threads : th[t].pc = "idle" /\ th[t].op = "none" /\ th[t].why = "none" /\ th[t].page = None
  BY DEF Init, Idle
<1>3. \A p \in Procs : /\ bm[p].state = "unknown" /\ bm[p].scn = 0 /\ bm[p].table = {} /\ ~bm[p].master
                       /\ gl[p].phys = "none" /\ gl[p].want = "none" /\ gl[p].pending = None
                       /\ ~gl[p].writer /\ ~gl[p].blocking
                       /\ writer[p] = None
  BY DEF Init, NewManager, NewLock
<1>4. \A pg \in Pages : dirty[pg] = None /\ busy[pg] = None
  BY DEF Init
<1>5. \A t \in Threads : /\ ~HoldsPage(t) /\ ~Inside(t) /\ ~Entered(t) /\ ~Writing(t)
                         /\ ~TableTaken(t) /\ ~HasPage(t)
  BY <1>2 DEF HoldsPage, Entering, Inside, Entered, Writing, TableTaken, HasPage
<1>6. DataType
  BY DEF Init, DataType, PageImage, BackupState, MaybeThread, Blank, NoTable
<1>7. ProcType
  <2>1. NewManager \in Manager
    BY DEF NewManager, Manager, KnownState
  <2>2. NewLock \in StateLock
    BY DEF NewLock, StateLock, Level, MaybeThread
  <2>3. NoAst \in AstThread
    BY DEF NoAst, AstThread
  <2>4. Idle \in Thread
    BY DEF Idle, Thread, ThreadPc, ThreadOp, ThreadWhy, MaybePage
  <2> QED
    BY <2>1, <2>2, <2>3, <2>4 DEF Init, ProcType, MaybeThread
<1>8. ThreadInv
  BY <1>2 DEF ThreadInv, Fits
<1>9. PageInv
  BY <1>1, <1>4, <1>5 DEF Init, PageInv
<1>10. LocalInv
  BY <1>1, <1>3, <1>5, NBackupAssumption DEF LocalInv
<1>11. GlobalInv
  <2>1. \A t \in Threads : Home[t] \in Procs /\ ~At(t, "waitRead") /\ ~At(t, "waitWrite") /\ ~At(t, "locked")
    BY <1>2, NBackupAssumption DEF At
  <2> QED
    BY <1>1, <1>2, <1>3, <2>1 DEF GlobalInv, Exclusive, Waiting, Holding, Blocked
<1>12. StateInv
  BY <1>2, <1>3, <1>4, <1>5 DEF StateInv, Known
<1>13. TableInv
  <2>1. header.scn = 1 /\ header.state = "normal"
    BY DEF Init
  <2>2. ASSUME NEW p \in Procs PROVE TableFits(bm[p].scn, bm[p].table)
    <3>1. bm[p].scn = 0 /\ bm[p].table = {}
      BY <1>3
    <3> QED
      BY <2>1, <3>1 DEF TableFits
  <2> QED
    BY <2>2 DEF TableInv
<1>14. DirtyInv
  BY <1>4 DEF DirtyInv
<1>15. MergeInv
  BY <1>2, <1>5 DEF MergeInv
<1>16. DiskInv
  BY DEF Init, DiskInv, NoTable, NothingLost, OnDisk
<1>17. HeldInv
  BY <1>5 DEF HeldInv
<1>18. NamedInv
  BY <1>2 DEF NamedInv
<1> QED
  BY <1>6, <1>7, <1>8, <1>9, <1>10, <1>11, <1>12, <1>13, <1>14, <1>15, <1>16, <1>17, <1>18 DEF IInv, TypeInv

LEMMA StepInv ==
  ASSUME MastersQuiet, IInv, [Next]_vars
  PROVE  IInv'
BY DataTypeStep, ProcTypeStep, ThreadStepInv, PageStep, LocalStep, GlobalStep, StateStep, TableStep,
   DirtyStep, MergeStep, DiskStep, HeldStep, NamedStep DEF IInv, TypeInv

\* A step in which nothing changes is not one of an AST that finds the lock
\* wanted: that gives the lock up or notes that it could not.
LEMMA NoAstStutters ==
  ASSUME IInv, UNCHANGED vars
  PROVE  MastersQuiet
<1> SUFFICES ASSUME NEW p \in Procs, Ast(p), bm[p].master, WantedFrom(p, "write") PROVE FALSE
  BY DEF MastersQuiet
<1>1. gl' = gl /\ Conflict(p) /\ ~gl[p].told /\ Handler(p, bm[p])
  BY DEF vars, Ast
<1>2. gl \in [Procs -> StateLock] /\ gl[p] \in StateLock
  BY DEF IInv, TypeInv, ProcType
<1>3. gl[p].phys # "none" /\ Downgraded(p) = "none"
  BY <1>1 DEF Conflict, Downgraded
<1>4. CASE gl[p].pending = None /\ ~gl[p].writer
  <2>1. gl'[p].phys = "none"
    BY <1>2, <1>1, <1>3, <1>4 DEF Handler, StateLock
  <2> QED
    BY <1>1, <1>3, <2>1
<1>5. CASE ~(gl[p].pending = None /\ ~gl[p].writer)
  <2>1. gl'[p].told = TRUE
    BY <1>2, <1>1, <1>5 DEF Handler, StateLock
  <2> QED
    BY <1>1, <2>1
<1> QED
  BY <1>4, <1>5

LEMMA QuietStep ==
  ASSUME IInv, [Next]_vars, [MastersQuiet]_vars
  PROVE  MastersQuiet /\ IInv'
<1>1. MastersQuiet
  BY NoAstStutters
<1> QED
  BY <1>1, StepInv

\* The invariant is one, as long as the ASTs of masters disturb nobody.
THEOREM Inductive == Spec /\ [][MastersQuiet]_vars => []IInv
<1>1. Init => IInv
  BY InitInv
<1>2. IInv /\ [Next]_vars /\ [MastersQuiet]_vars => IInv'
  BY QuietStep
<1> QED
  BY <1>1, <1>2, PTL DEF Spec

\* The variables have their types: the header page in one of the three states,
\* pages held, dirty and in the difference file by whom they can be.
THEOREM TypeCorrect == Spec /\ [][MastersQuiet]_vars => []TypeOK
<1>1. IInv => TypeOK
  <2> SUFFICES ASSUME IInv PROVE TypeOK
    OBVIOUS
  <2>1. \A p \in Procs : /\ bm[p].state \in {"unknown", "normal", "stalled", "merge"}
                         /\ gl[p].phys \in {"none", "read", "write"}
                         /\ gl[p].want \in {"none", "read", "write"}
    <3>1. \A p \in Procs : bm[p] \in Manager /\ gl[p] \in StateLock
      BY DEF IInv, TypeInv, ProcType
    <3> QED
      BY <3>1 DEF Manager, StateLock, KnownState, BackupState, Level
  <2>2. target \subseteq {pg \in Pages : dirty[pg] # None}
    BY DEF IInv, TypeInv, DataType, PageInv
  <2> QED
    BY <2>1, <2>2 DEF IInv, TypeInv, DataType, ProcType, TypeOK, PageImage, BackupState, MaybeThread
<1> QED
  BY <1>1, Inductive, PTL

\* Under the local lock a process knows the backup state the header page has:
\* the assertions on hdr_nbak_unknown in CCH_fetch_page, CCH_mark, write_page.
THEOREM StateKnown == Spec /\ [][MastersQuiet]_vars => []KnownInside
<1>1. IInv => KnownInside
  <2> SUFFICES ASSUME IInv PROVE KnownInside
    OBVIOUS
  <2>1. ASSUME NEW p \in Procs, NEW pg \in Pages, dirty[pg] = p PROVE bm[p].state = header.state
    BY <2>1, TypedThreads DEF IInv, StateInv
  <2>2. ASSUME NEW t \in Threads, th[t].pc \in {"read", "mark", "check", "table"}
        PROVE  bm[Home[t]].state = header.state
    <3>1. Entered(t)
      BY <2>2 DEF Entered, Inside
    <3> QED
      BY <3>1, TypedThreads DEF IInv, StateInv
  <2> QED
    BY <2>1, <2>2 DEF KnownInside
<1> QED
  BY <1>1, Inductive, PTL

\* A dirty page has the SCN of the state it will be written in: no change is
\* left out of the next incremental backup (StateWriteGuard flushes first).
THEOREM DirtyScn == Spec /\ [][MastersQuiet]_vars => []DirtyOfThisScn
<1>1. IInv => DirtyOfThisScn
  BY DEF IInv, DirtyInv, DirtyOfThisScn
<1> QED
  BY <1>1, Inductive, PTL

\* A process that knows the state has of the table of the difference file only
\* pages that are in it, whatever changes of the state it has slept through
\* (actualizeState, missed_cycle).
THEOREM TablesFresh == Spec /\ [][MastersQuiet]_vars => []TableFresh
<1>1. IInv => TableFresh
  BY DEF IInv, TableInv, TableFits, StateInv, Known, TableFresh
<1> QED
  BY <1>1, Inductive, PTL

\* What is not dirty is on disk, where it is looked for: the merge of the
\* difference file and its deletion lose no change (endBackup, write_page).
THEOREM DiskComplete == Spec /\ [][MastersQuiet]_vars => []NothingLost
<1>1. IInv => NothingLost
  BY DEF IInv, DiskInv
<1> QED
  BY <1>1, Inductive, PTL

\* A thread changes the last version of a page, whichever file it has read it
\* from (CCH_fetch_page, getPageIndex).
THEOREM LatestRead == Spec /\ [][MastersQuiet]_vars => []ReadsLatest
<1>1. IInv => ReadsLatest
  <2> SUFFICES ASSUME IInv, NEW t \in Threads, th[t].why = "mark", th[t].pc # "read", busy[th[t].page] = t
               PROVE  buf[th[t].page].v = latest[th[t].page]
    BY DEF ReadsLatest
  <2>1. HoldsPage(t)
    BY DEF IInv, PageInv, NamedInv
  <2>2. HasPage(t)
    BY <2>1 DEF HasPage
  <2> QED
    BY <2>2 DEF IInv, HeldInv
<1> QED
  BY <1>1, Inductive, PTL

\* While the state stays stalled, and the database file is copied, no page of
\* it is written (write_page).
THEOREM FileFrozen == Spec /\ [][MastersQuiet]_vars => FrozenWhileStalled
<1> DEFINE Frozen == header.state = "stalled" /\ header'.state = "stalled" => file' = file
<1>1. IInv /\ [Next]_vars /\ [MastersQuiet]_vars => [Frozen]_vars
  <2> SUFFICES ASSUME IInv, [Next]_vars, MastersQuiet PROVE Frozen
    BY QuietStep
  <2>1. ASSUME NEW t \in Threads, Enter(t) PROVE Frozen
    BY <2>1, EnterEffect DEF IInv, Frozen
  <2>2. ASSUME NEW t \in Threads, LockRead(t) PROVE Frozen
    BY <2>2, ReadsUnblocked, LockReadEffect DEF IInv, Frozen
  <2>3. ASSUME NEW t \in Threads, GrantedRead(t) PROVE Frozen
    BY <2>3, ReadsUnblocked, GrantedReadEffect DEF IInv, Frozen
  <2>4. ASSUME NEW t \in Threads, Read(t) PROVE Frozen
    BY <2>4, ReadEffect DEF IInv, Frozen
  <2>5. ASSUME NEW t \in Threads, Mark(t) PROVE Frozen
    <3>1. DOMAIN delta' \subseteq Pages
      BY <2>5, DataTypeStep DEF DataType, Next, ThreadStep
    <3> QED
      BY <2>5, <3>1, MarkEffect DEF IInv, Frozen
  <2>6. ASSUME NEW t \in Threads, FetchHeader(t) PROVE Frozen
    BY <2>6, FetchHeaderEffect DEF IInv, Frozen
  <2>7. ASSUME NEW t \in Threads, ReadHeader(t) PROVE Frozen
    BY <2>7, ReadHeaderEffect DEF IInv, Frozen
  <2>8. ASSUME NEW t \in Threads, BeginWrite(t) PROVE Frozen
    BY <2>8, BeginWriteEffect DEF IInv, Frozen
  <2>9. ASSUME NEW t \in Threads, LockWrite(t) PROVE Frozen
    BY <2>9, LockWriteEffect DEF IInv, Frozen
  <2>10. ASSUME NEW t \in Threads, GrantedWrite(t) PROVE Frozen
    BY <2>10, GrantedWriteEffect DEF IInv, Frozen
  <2>11. ASSUME NEW t \in Threads, Stall(t) PROVE Frozen
    BY <2>11, StallStep DEF IInv, Frozen
  <2>12. ASSUME NEW t \in Threads, Check(t) PROVE Frozen
    BY <2>12, CheckEffect DEF IInv, Frozen
  <2>13. ASSUME NEW t \in Threads, StartMerge(t) PROVE Frozen
    BY <2>13, StartMergeStep DEF IInv, Frozen
  <2>14. ASSUME NEW t \in Threads, Table(t) PROVE Frozen
    BY <2>14, TableEffect DEF IInv, Frozen
  <2>15. ASSUME NEW t \in Threads, MergeFlush(t) PROVE Frozen
    BY <2>15, MergeFlushEffect DEF IInv, Frozen
  <2>16. ASSUME NEW t \in Threads, Merged(t) PROVE Frozen
    BY <2>16, MergedEffect DEF IInv, Frozen
  <2>17. ASSUME NEW t \in Threads, Finish(t) PROVE Frozen
    BY <2>17, FinishStep DEF IInv, Frozen
  <2>18. ASSUME NEW t \in Threads, BeginBackup(t) PROVE Frozen
    BY <2>18, BeginBackupEffect DEF IInv, Frozen
  <2>19. ASSUME NEW t \in Threads, EndBackup(t) PROVE Frozen
    BY <2>19, EndBackupEffect DEF IInv, Frozen
  <2>20. ASSUME NEW t \in Threads, NEW pg \in Pages, Merge(t, pg) PROVE Frozen
    BY <2>20, MergeEffect DEF IInv, Frozen
  <2>21. ASSUME NEW t \in Threads, NEW pg \in Pages, Fetch(t, pg) PROVE Frozen
    BY <2>21, FetchEffect DEF IInv, Frozen
  <2>22. ASSUME NEW pg \in Pages, Write(pg) PROVE Frozen
    BY <2>22, Writes DEF Frozen
  <2>23. ASSUME NEW p \in Procs, Grant(p) PROVE Frozen
    BY <2>23, GrantEffect DEF IInv, Frozen
  <2>24. ASSUME NEW p \in Procs, Ast(p) PROVE Frozen
    BY <2>24, AstEffect DEF IInv, Frozen
  <2>25. ASSUME NEW p \in Procs, AstTry(p) PROVE Frozen
    BY <2>25, AstEffect DEF IInv, Frozen
  <2>26. ASSUME NEW p \in Procs, AstSet(p) PROVE Frozen
    BY <2>26, AstEffect DEF IInv, Frozen
  <2>27. ASSUME NEW p \in Procs, Crash(p) PROVE Frozen
    BY <2>27, CrashEffect DEF IInv, Frozen
  <2>28. CASE UNCHANGED vars
    BY <2>28 DEF vars, disk, Frozen
  <2> QED
    BY <2>1, <2>2, <2>3, <2>4, <2>5, <2>6, <2>7, <2>8, <2>9, <2>10, <2>11, <2>12, <2>13, <2>14, <2>15, <2>16, <2>17, <2>18, <2>19, <2>20, <2>21, <2>22, <2>23, <2>24, <2>25, <2>26, <2>27, <2>28 DEF Next, ThreadStep
<1> QED
  BY <1>1, Inductive, PTL DEF FrozenWhileStalled, Spec

(***************************************************************************)
(* When the condition holds                                                *)
(***************************************************************************)

\* The flag of a master is set only while a thread of the process begins or
\* ends a backup.
MasterWorks ==
  \A p \in Procs : bm[p].master => \E t \in Threads : Home[t] = p /\ Working(t)

\* A step of t alone in whose end t works, or does what it did, or has reset the flag.
LEMMA WorksKept ==
  ASSUME IInv, MasterWorks, NEW t \in Threads, \A u \in Threads \ {t} : th'[u] = th[u],
         \A q \in Procs : bm'[q].master => bm[q].master \/ (q = Home[t] /\ Working(t)'),
         Working(t)' \/ ~Working(t) \/ ~bm'[Home[t]].master
  PROVE  MasterWorks'
BY TypedThreads DEF IInv, MasterWorks, Working

LEMMA WorksStep ==
  ASSUME MastersQuiet, IInv, MasterWorks, [Next]_vars
  PROVE  MasterWorks'
<1>1. ASSUME NEW t \in Threads, Enter(t) PROVE MasterWorks'
  BY <1>1, WorksKept, EnterEffect DEF IInv, ThTo, IsThread, Working
<1>2. ASSUME NEW t \in Threads, LockRead(t) PROVE MasterWorks'
  BY <1>2, WorksKept, ReadsUnblocked, LockReadEffect DEF IInv, ThTo, IsThread, BmTo, IsManager, Working
<1>3. ASSUME NEW t \in Threads, GrantedRead(t) PROVE MasterWorks'
  BY <1>3, WorksKept, ReadsUnblocked, GrantedReadEffect DEF IInv, ThTo, IsThread, BmTo, IsManager, Working
<1>4. ASSUME NEW t \in Threads, Read(t) PROVE MasterWorks'
  <2>1. /\ \A u \in Threads \ {t} : th'[u] = th[u]
        /\ Working(t)' <=> Working(t)
    BY <1>4, ReadEffect DEF IInv, ThreadInv, Fits, ThTo, IsThread, Working
  <2>2. \A q \in Procs : bm'[q].master = bm[q].master
    BY <1>4, ReadEffect DEF IInv, BmTo, IsManager
  <2> QED
    BY <2>1, <2>2, WorksKept
<1>5. ASSUME NEW t \in Threads, Mark(t) PROVE MasterWorks'
  <2>3. DOMAIN delta' \subseteq Pages
    BY <1>5, DataTypeStep DEF DataType, Next, ThreadStep
  <2>1. /\ \A u \in Threads \ {t} : th'[u] = th[u]
        /\ Working(t)' <=> Working(t)
    BY <1>5, <2>3, MarkEffect DEF IInv, ThreadInv, Fits, ThTo, IsThread, Working
  <2>2. \A q \in Procs : bm'[q].master = bm[q].master
    BY <1>5, <2>3, MarkEffect DEF IInv, BmTo, IsManager
  <2> QED
    BY <2>1, <2>2, WorksKept
<1>6. ASSUME NEW t \in Threads, FetchHeader(t) PROVE MasterWorks'
  BY <1>6, WorksKept, FetchHeaderEffect DEF IInv, ThTo, IsThread, BmTo, IsManager, Working
<1>7. ASSUME NEW t \in Threads, ReadHeader(t) PROVE MasterWorks'
  <2>1. /\ \A u \in Threads \ {t} : th'[u] = th[u]
        /\ th'[t].op = th[t].op
    BY <1>7, ReadHeaderEffect DEF IInv, ThTo, IsThread
  <2>2. \A q \in Procs : bm'[q].master = bm[q].master
    BY <1>7, ReadHeaderEffect DEF IInv, BmTo, IsManager
  <2> QED
    BY <2>1, <2>2, WorksKept DEF Working
<1>8. ASSUME NEW t \in Threads, BeginWrite(t) PROVE MasterWorks'
  BY <1>8, WorksKept, BeginWriteEffect DEF IInv, ThTo, IsThread, BmTo, IsManager, Working
<1>9. ASSUME NEW t \in Threads, LockWrite(t) PROVE MasterWorks'
  <2>1. /\ \A u \in Threads \ {t} : th'[u] = th[u]
        /\ th'[t].op = th[t].op
    BY <1>9, LockWriteEffect DEF IInv, ThTo, IsThread
  <2>2. \A q \in Procs : bm'[q].master = bm[q].master
    BY <1>9, LockWriteEffect DEF IInv, BmTo, IsManager
  <2> QED
    BY <2>1, <2>2, WorksKept DEF Working
<1>10. ASSUME NEW t \in Threads, GrantedWrite(t) PROVE MasterWorks'
  <2>1. /\ \A u \in Threads \ {t} : th'[u] = th[u]
        /\ th'[t].op = th[t].op
    BY <1>10, GrantedWriteEffect DEF IInv, ThTo, IsThread
  <2>2. \A q \in Procs : bm'[q].master = bm[q].master
    BY <1>10, GrantedWriteEffect DEF IInv, BmTo, IsManager
  <2> QED
    BY <2>1, <2>2, WorksKept DEF Working
<1>11. ASSUME NEW t \in Threads, Stall(t) PROVE MasterWorks'
  <2>1. /\ \A u \in Threads \ {t} : th'[u] = th[u]
        /\ ~bm'[Home[t]].master /\ \A q \in Procs \ {Home[t]} : bm'[q] = bm[q]
    BY <1>11, StallStep DEF ThTo, BmTo, IsManager
  <2> QED
    BY <2>1, WorksKept
<1>12. ASSUME NEW t \in Threads, Check(t) PROVE MasterWorks'
  <2>1. /\ \A u \in Threads \ {t} : th'[u] = th[u]
        /\ Working(t)' \/ ~bm'[Home[t]].master
    BY <1>12, CheckEffect DEF IInv, ThTo, IsThread, BmTo, IsManager, Working
  <2>2. Home[t] \in Procs
    BY TypedThreads DEF IInv
  <2>3. CASE bm[Home[t]].state \in {"stalled", "merge"}
    <3>1. ThTo(t, "flush", "end", "none", None, Dirty(Home[t]))
      BY <1>12, <2>3, CheckEffect DEF IInv
    <3>2. Working(t)'
      BY <3>1 DEF ThTo, IsThread, Working
    <3>3. \A q \in Procs \ {Home[t]} : bm'[q] = bm[q]
      BY <1>12, <2>3, CheckEffect DEF IInv, BmTo
    <3> QED
      BY <2>1, <3>2, <3>3, WorksKept
  <2>4. CASE bm[Home[t]].state \notin {"stalled", "merge"}
    <3>1. /\ ~bm'[Home[t]].master
          /\ \A q \in Procs \ {Home[t]} : bm'[q] = bm[q]
      BY <1>12, <2>2, <2>4, CheckEffect DEF IInv, BmTo, IsManager
    <3> QED
      BY <2>1, <3>1, WorksKept
  <2> QED
    BY <2>3, <2>4
<1>13. ASSUME NEW t \in Threads, StartMerge(t) PROVE MasterWorks'
  <2>1. /\ \A u \in Threads \ {t} : th'[u] = th[u]
        /\ Working(t)' \/ ~bm'[Home[t]].master
    BY <1>13, StartMergeStep DEF ThTo, IsThread, BmTo, IsManager, Working
  <2>2. \A q \in Procs : bm'[q].master => bm[q].master
    BY <1>13, StartMergeStep DEF BmTo, IsManager
  <2> QED
    BY <2>1, <2>2, WorksKept
<1>14. ASSUME NEW t \in Threads, Table(t) PROVE MasterWorks'
  BY <1>14, WorksKept, TableEffect DEF IInv, ThTo, IsThread, BmTo, IsManager, Working
<1>15. ASSUME NEW t \in Threads, MergeFlush(t) PROVE MasterWorks'
  BY <1>15, WorksKept, MergeFlushEffect DEF IInv, ThTo, IsThread, BmTo, IsManager, Working
<1>16. ASSUME NEW t \in Threads, Merged(t) PROVE MasterWorks'
  <2>1. /\ \A u \in Threads \ {t} : th'[u] = th[u]
        /\ Working(t)'
    BY <1>16, MergedEffect DEF IInv, ThTo, IsThread, Working
  <2>2. \A q \in Procs \ {Home[t]} : bm'[q] = bm[q]
    BY <1>16, MergedEffect DEF IInv, BmTo
  <2> QED
    BY <2>1, <2>2, WorksKept
<1>17. ASSUME NEW t \in Threads, Finish(t) PROVE MasterWorks'
  BY <1>17, WorksKept, FinishStep DEF ThTo, IsThread, BmTo, IsManager, Working
<1>18. ASSUME NEW t \in Threads, BeginBackup(t) PROVE MasterWorks'
  <2>1. /\ \A u \in Threads \ {t} : th'[u] = th[u]
        /\ Working(t)'
    BY <1>18, BeginBackupEffect DEF IInv, ThTo, IsThread, Working
  <2>2. \A q \in Procs \ {Home[t]} : bm'[q] = bm[q]
    BY <1>18, BeginBackupEffect DEF IInv, BmTo
  <2> QED
    BY <2>1, <2>2, WorksKept
<1>19. ASSUME NEW t \in Threads, EndBackup(t) PROVE MasterWorks'
  <2>1. /\ \A u \in Threads \ {t} : th'[u] = th[u]
        /\ Working(t)'
    BY <1>19, EndBackupEffect DEF IInv, ThTo, IsThread, Working
  <2>2. \A q \in Procs \ {Home[t]} : bm'[q] = bm[q]
    BY <1>19, EndBackupEffect DEF IInv, BmTo
  <2> QED
    BY <2>1, <2>2, WorksKept
<1>20. ASSUME NEW t \in Threads, NEW pg \in Pages, Merge(t, pg) PROVE MasterWorks'
  BY <1>20, WorksKept, MergeEffect DEF IInv, ThTo, IsThread, BmTo, IsManager, Working
<1>21. ASSUME NEW t \in Threads, NEW pg \in Pages, Fetch(t, pg) PROVE MasterWorks'
  <2>1. /\ \A u \in Threads \ {t} : th'[u] = th[u]
        /\ ~Working(t)
    BY <1>21, FetchEffect DEF IInv, ThreadInv, Fits, ThTo, IsThread, Working
  <2>2. UNCHANGED bm
    BY <1>21, FetchEffect DEF IInv
  <2> QED
    BY <2>1, <2>2, WorksKept
<1>22. ASSUME NEW pg \in Pages, Write(pg) PROVE MasterWorks'
  <2>1. /\ \A u \in Threads : th'[u].op = th[u].op
        /\ \A q \in Procs : bm'[q].master = bm[q].master
    BY <1>22, WriteEffect DEF IInv, IsThread, BmTo, IsManager
  <2> QED
    BY <2>1 DEF MasterWorks, Working
<1>23. ASSUME NEW p \in Procs, Grant(p) PROVE MasterWorks'
  BY <1>23, GrantEffect DEF IInv, MasterWorks, Working
<1>24. ASSUME NEW p \in Procs, Ast(p) \/ AstTry(p) \/ AstSet(p) PROVE MasterWorks'
  <2>1. th' = th
    BY <1>24, AstEffect DEF IInv
  <2>2. \A q \in Procs : bm'[q].master = bm[q].master
    BY <1>24, AstStep DEF BmTo, IsManager
  <2> QED
    BY <2>1, <2>2 DEF MasterWorks, Working
<1>25. ASSUME NEW p \in Procs, Crash(p) PROVE MasterWorks'
  <2>1. ~bm'[p].master /\ \A q \in Procs \ {p} : bm'[q] = bm[q]
    BY <1>25, CrashEffect DEF IInv, BmTo, IsManager
  <2>2. \A u \in Threads : Home[u] # p => th'[u] = th[u]
    BY <1>25, CrashEffect DEF IInv
  <2> QED
    BY <2>1, <2>2 DEF MasterWorks, Working
<1>26. CASE UNCHANGED vars
  BY <1>26 DEF vars, MasterWorks, Working
<1> QED
  BY <1>1, <1>2, <1>3, <1>4, <1>5, <1>6, <1>7, <1>8, <1>9, <1>10, <1>11, <1>12, <1>13, <1>14, <1>15,
     <1>16, <1>17, <1>18, <1>19, <1>20, <1>21, <1>22, <1>23, <1>24, <1>25, <1>26 DEF Next, ThreadStep

\* Whoever waits for the write lock works, so that no other process has a master.
LEMMA TurnQuiet ==
  ASSUME IInv, MasterWorks, InTurn
  PROVE  MastersQuiet
<1> SUFFICES ASSUME NEW p \in Procs, NEW q \in Procs \ {p}, bm[p].master, gl[q].want = "write" PROVE FALSE
  BY DEF MastersQuiet, WantedFrom
<1> DEFINE u == gl[q].pending
<1>1. u \in Threads /\ Home[u] = q
  BY TypedThreads DEF MaybeThread, IInv, GlobalInv, Waiting
<1>2. th[u].pc \in {"waitRead", "waitWrite"}
  BY <1>1 DEF IInv, GlobalInv, Waiting
<1>3. th[u].pc # "waitRead"
  <2> SUFFICES ASSUME At(u, "waitRead") PROVE FALSE
    BY DEF At
  <2>1. gl[q].want = "read" \/ gl[q].want = "none"
    BY <1>1 DEF IInv, GlobalInv, Waiting
  <2> QED
    BY <2>1
<1>4. Working(u)
  BY <1>1, <1>2, <1>3 DEF IInv, ThreadInv, Fits, Working
<1>5. PICK t \in Threads : Home[t] = p /\ Working(t)
  BY DEF MasterWorks
<1> QED
  BY <1>1, <1>4, <1>5 DEF InTurn

\* Every step of processes that take turns keeps the invariant,
LEMMA TurnStep ==
  ASSUME IInv, MasterWorks, InTurn, [Next]_vars
  PROVE  IInv' /\ MasterWorks'
BY TurnQuiet, StepInv, WorksStep

\* and at first there is no master.
LEMMA NoMasterYet ==
  ASSUME Init
  PROVE  MasterWorks
BY DEF Init, NewManager, MasterWorks

\* Processes that begin and end backups in turn, whichever they are, never
\* meet the case: only two that work at the same time can.
THEOREM TurnsQuiet == Spec /\ []InTurn => [][MastersQuiet]_vars
<1>1. Init => IInv /\ MasterWorks
  BY InitInv, NoMasterYet
<1>2. IInv /\ MasterWorks /\ InTurn /\ [Next]_vars => (IInv /\ MasterWorks)'
  BY TurnStep
<1>3. IInv /\ MasterWorks /\ InTurn => [MastersQuiet]_vars
  BY TurnQuiet
<1> QED
  BY <1>1, <1>2, <1>3, PTL DEF Spec

\* Neither does a server of one process, or any set of processes of which one
\* begins and ends the backups.
THEOREM OneQuiet == ASSUME OneBackupProcess PROVE Spec => [][MastersQuiet]_vars
<1>1. Init => IInv /\ MasterWorks
  BY InitInv, NoMasterYet
<1>2. IInv => InTurn
  BY DEF IInv, ThreadInv, InTurn, Working, OneBackupProcess
<1>3. IInv /\ MasterWorks /\ [Next]_vars => (IInv /\ MasterWorks)'
  BY <1>2, TurnStep
<1>4. IInv /\ MasterWorks => [MastersQuiet]_vars
  BY <1>2, TurnQuiet
<1> QED
  BY <1>1, <1>3, <1>4, PTL DEF Spec

\* When backups are begun and ended in turn, in whichever processes, the
\* database file is not written while it is copied, no dirty page misses its
\* SCN, no change is lost, and nobody reads or writes a page by a state that
\* is not that of the header page.
THEOREM BackupsInTurn ==
  Spec /\ []InTurn => /\ [](KnownInside /\ DirtyOfThisScn /\ NothingLost)
                     /\ FrozenWhileStalled
BY TurnsQuiet, StateKnown, DirtyScn, DiskComplete, FileFrozen, PTL DEF FrozenWhileStalled
=============================================================================
