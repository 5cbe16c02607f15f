----------------------------- MODULE EventTable -----------------------------
(* The event manager of jrd/event.cpp: the table of events, sessions and     *)
(* requests in shared memory, the two steps of a post, the watcher thread of *)
(* every process that delivers completed requests, and what is left behind   *)
(* by a process that dies.                                                   *)
(*                                                                           *)
(* The table has one mutex: an action is the code between acquire_shmem and  *)
(* release_shmem.  The mutex is given up around the call-back of the client  *)
(* and in the wait of delete_session.  Blocks are numbered in the order in   *)
(* which they were put at the tail of their queue, so the least number is    *)
(* the first of a queue.                                                     *)
EXTENDS Integers, FiniteSets

CONSTANTS
  Procs, Events,
  MaxSessions,  \* bound on the sessions created
  MaxRequests,  \* bound on the requests
  MaxPosts,     \* bound on the posts of an event
  MaxCrash      \* bound on the processes that die

ASSUME EventTableAssumption ==
  /\ MaxSessions \in Nat /\ MaxRequests \in Nat /\ MaxPosts \in Nat /\ MaxCrash \in Nat

Sessions == 1..MaxSessions
Requests == 1..MaxRequests
NoEvent == -1

VARIABLES
  evnt,       \* evnt_count, NoEvent when there is no block for the event
  prb,        \* the process blocks
  ses,        \* the session blocks
  req,        \* the request blocks: rint_count of their events
  hist,       \* ses_interests: the events of the historical interests
  watcher,    \* where the watcher thread of a process is, and in which session
  due,        \* processes with a thread between postEvent and deliverEvents
  probing,    \* dead processes that create_process does not get rid of
  told,       \* what the client of a session was told of an event: its next rint_count
  stranded,   \* completed requests the code loses sight of, see Turn, Purged, Crash
  crashes     \* what MaxCrash counts

table == <<evnt, prb, ses, req, hist>>
vars == <<table, watcher, due, probing, told, stranded, crashes>>

NoProcess == [state |-> "none", wakeup |-> FALSE, pending |-> FALSE, posted |-> FALSE]
NoSession == [home |-> "none", state |-> "none", delivering |-> FALSE, purge |-> FALSE]
NoRequest == [ses |-> 0, counts |-> <<>>]
Done == -1  \* req.ses of a request that is gone

Init ==
  /\ evnt = [e \in Events |-> NoEvent]
  /\ prb = [p \in Procs |-> NoProcess]
  /\ ses = [s \in Sessions |-> NoSession]
  /\ req = [r \in Requests |-> NoRequest]
  /\ hist = [s \in Sessions |-> {}]
  /\ watcher = [p \in Procs |-> [pc |-> "none", ses |-> 0]]
  /\ due = {} /\ probing = [p \in Procs |-> {}]
  /\ told = [s \in Sessions |-> [e \in Events |-> 0]]
  /\ stranded = {} /\ crashes = 0

Open(s) == ses[s].state = "open"
Live(p) == prb[p].state = "live"
SessionsOf(p) == {s \in Sessions : Open(s) /\ ses[s].home = p}
RequestsOf(s) == {r \in Requests : req[r].ses = s}
Used(r) == req[r].ses \in Sessions
First(S) == CHOOSE x \in S : \A y \in S : x <= y

\* request_completed
Completed(r) == \E e \in DOMAIN req[r].counts : req[r].counts[e] <= evnt[e]

CompletedOf(p) == {r \in Requests : Completed(r) /\ ses[req[r].ses].home = p}

\* post_process
Posted(b) == [state |-> b.state, wakeup |-> FALSE, pending |-> TRUE, posted |-> TRUE]

(***************************************************************************)
(* Processes and sessions                                                  *)
(***************************************************************************)

CreateSession(p, s) ==
  /\ Live(p) /\ ses[s].state = "none"
  /\ \A r \in Sessions : r < s => ses[r].state # "none"
  /\ ses' = [ses EXCEPT ![s] = [home |-> p, state |-> "open", delivering |-> FALSE, purge |-> FALSE]]
  /\ UNCHANGED <<evnt, prb, req, hist, watcher, due, probing, told, stranded, crashes>>

\* Who is interested in an event apart from the sessions S: a request or a
\* historical interest.
Interested(e, S) ==
  \E s \in Sessions \ S :
    e \in hist[s] \/ \E r \in RequestsOf(s) : e \in DOMAIN req[r].counts

\* Mutant: an event stays without an interest.
Deleted_eventless(S, lost, busy) ==
  /\ ses' = [s \in Sessions |-> IF s \in S THEN [NoSession EXCEPT !.state = "deleted"]
                                ELSE [ses[s] EXCEPT !.purge = @ \/ s \in busy]]
  /\ req' = [r \in Requests |-> IF req[r].ses \in S THEN [NoRequest EXCEPT !.ses = Done] ELSE req[r]]
  /\ hist' = [s \in Sessions |-> IF s \in S THEN {} ELSE hist[s]]
  /\ evnt' = evnt
  /\ stranded' = {r \in stranded : req[r].ses \notin S} \union lost

\* The part of delete_session for sessions that are not delivering: their
\* requests, their interests, and the events nobody else is interested in; the
\* requests of lost are passed over.  The sessions of busy are delivering and
\* only marked.
Deleted(S, lost, busy) ==
  /\ ses' = [s \in Sessions |-> IF s \in S THEN [NoSession EXCEPT !.state = "deleted"]
                                ELSE [ses[s] EXCEPT !.purge = @ \/ s \in busy]]
  /\ req' = [r \in Requests |-> IF req[r].ses \in S THEN [NoRequest EXCEPT !.ses = Done] ELSE req[r]]
  /\ hist' = [s \in Sessions |-> IF s \in S THEN {} ELSE hist[s]]
  /\ evnt' = [e \in Events |-> IF Interested(e, {}) /\ ~Interested(e, S) THEN NoEvent ELSE evnt[e]]
  /\ stranded' = {r \in stranded : req[r].ses \notin S} \union lost

\* Mutant: the session goes although its request is being delivered.
DeleteSession_now(s) ==
  /\ Open(s) /\ ~ses[s].purge /\ Live(ses[s].home)
  /\ Deleted({s}, {}, {})
  /\ UNCHANGED <<prb, watcher, due, probing, told, crashes>>

\* deleteSession; a session whose requests are being delivered is left to the
\* watcher.
DeleteSession(s) ==
  /\ Open(s) /\ ~ses[s].purge /\ Live(ses[s].home)
  /\ IF ses[s].delivering
     THEN Deleted({}, {}, {s}) ELSE Deleted({s}, {}, {})
  /\ UNCHANGED <<prb, watcher, due, probing, told, crashes>>

\* create_process with probe_processes: the dead are deleted, up to one that has
\* a session still marked as delivering (taken to be the last of the queue).
\* The watcher starts when none is left.
CreateProcess(p) ==
  LET dead == {q \in Procs : prb[q].state = "dead"}
      stuck == {q \in dead : \E s \in SessionsOf(q) : ses[s].delivering}
  IN
  /\ prb[p].state = "none"
  /\ prb' = [q \in Procs |-> IF q = p THEN [NoProcess EXCEPT !.state = "live"]
                            ELSE IF q \in dead \ stuck THEN [NoProcess EXCEPT !.state = "deleted"]
                            ELSE prb[q]]
  /\ Deleted(UNION {SessionsOf(q) : q \in dead \ stuck}, {}, {})
  /\ probing' = [probing EXCEPT ![p] = stuck]
  /\ watcher' = IF stuck = {} THEN [watcher EXCEPT ![p].pc = "start"] ELSE watcher
  /\ UNCHANGED <<due, told, crashes>>

\* The loop of delete_process for such a one: at the session that is delivering
\* delete_session gives the mutex up for a while, and the loop comes round.
Probe(p, q) ==
  /\ Live(p) /\ q \in probing[p]
  /\ LET busy == {s \in SessionsOf(q) : ses[s].delivering} IN
     IF busy # {}
     THEN /\ Deleted({s \in SessionsOf(q) : s < First(busy)}, {}, {First(busy)})
          /\ UNCHANGED <<prb, probing, watcher>>
     ELSE /\ Deleted(SessionsOf(q), {}, {})
          /\ prb' = [prb EXCEPT ![q] = [NoProcess EXCEPT !.state = "deleted"]]
          /\ probing' = [probing EXCEPT ![p] = @ \ {q}]
          /\ watcher' = IF probing'[p] = {} THEN [watcher EXCEPT ![p].pc = "start"] ELSE watcher
  /\ UNCHANGED <<due, told, crashes>>

(***************************************************************************)
(* Requests                                                                *)
(***************************************************************************)

\* queEvents of a new request for the events E, with the counts the client was
\* told.  A historical interest becomes an interest of the request.
QueEvents(s, r, E) ==
  LET p == ses[s].home IN
  /\ Open(s) /\ ~ses[s].purge /\ Live(p) /\ E # {}
  /\ req[r].ses = 0 /\ \A q \in Requests : q < r => req[q].ses # 0
  /\ req' = [req EXCEPT ![r] = [ses |-> s, counts |-> [e \in E |-> told[s][e]]]]
  /\ hist' = [hist EXCEPT ![s] = @ \ E]
  /\ evnt' = [e \in Events |-> IF e \in E /\ evnt[e] = NoEvent THEN 0 ELSE evnt[e]]
  /\ prb' = IF \E e \in E : told[s][e] <= evnt'[e] THEN [prb EXCEPT ![p] = Posted(@)] ELSE prb
  /\ UNCHANGED <<ses, watcher, due, probing, told, stranded, crashes>>

\* Mutant: no historical interest is kept.
Dropped_forgotten(r) ==
  /\ req' = [req EXCEPT ![r] = [NoRequest EXCEPT !.ses = Done]]
  /\ hist' = hist
  /\ stranded' = stranded \ {r}

\* delete_request: its interests become historical, one for every event.
Dropped(r) ==
  /\ req' = [req EXCEPT ![r] = [NoRequest EXCEPT !.ses = Done]]
  /\ hist' = [hist EXCEPT ![req[r].ses] = @ \union DOMAIN req[r].counts]
  /\ stranded' = stranded \ {r}

CancelEvents(r) ==
  /\ Used(r) /\ Live(ses[req[r].ses].home)
  /\ Dropped(r)
  /\ UNCHANGED <<evnt, prb, ses, watcher, due, probing, told, crashes>>

(***************************************************************************)
(* Posting and delivering                                                  *)
(***************************************************************************)

\* The event is counted and the processes of the requests that are completed now
\* are marked.
Count(e) ==
  LET completed == {r \in Requests : e \in DOMAIN req[r].counts /\ req[r].counts[e] <= evnt'[e]} IN
  /\ evnt[e] # NoEvent /\ evnt[e] < MaxPosts
  /\ evnt' = [evnt EXCEPT ![e] = @ + 1]
  /\ prb' = [q \in Procs |->
               IF \E r \in completed : ses[req[r].ses].home = q
               THEN [prb[q] EXCEPT !.wakeup = TRUE] ELSE prb[q]]

\* postEvent by a thread of p at commit, which calls deliverEvents next whether
\* anybody is interested in the event or not.
PostEvent(p, e) ==
  /\ Live(p)
  /\ Count(e) \/ (evnt[e] = NoEvent /\ UNCHANGED <<evnt, prb>>)
  /\ due' = due \union {p}
  /\ UNCHANGED <<ses, req, hist, watcher, probing, told, stranded, crashes>>

\* Mutant: only the own process is woken.
DeliverEvents_own(p) ==
  /\ Live(p) /\ p \in due
  /\ due' = due \ {p}
  /\ prb' = IF prb[p].wakeup THEN [prb EXCEPT ![p] = Posted(@)] ELSE prb
  /\ UNCHANGED <<evnt, ses, req, hist, watcher, probing, told, stranded, crashes>>

\* deliverEvents
DeliverEvents(p) ==
  /\ Live(p) /\ p \in due
  /\ due' = due \ {p}
  /\ prb' = [q \in Procs |-> IF prb[q].wakeup THEN Posted(prb[q]) ELSE prb[q]]
  /\ UNCHANGED <<evnt, ses, req, hist, watcher, probing, told, stranded, crashes>>

\* deliver goes on with the sessions S: the first with a completed request is
\* found, or the watcher goes back to sleep.  deliver_request unlinks the
\* request and gives the mutex up for the call-back.
Scan(p, S) ==
  LET ready == {s \in S : \E r \in RequestsOf(s) : Completed(r)}
      s == First(ready)
      r == First({q \in RequestsOf(s) : Completed(q)})
  IN
  IF ready = {}
  THEN /\ watcher' = [watcher EXCEPT ![p] = [pc |-> "wait", ses |-> 0]]
       /\ ses' = [q \in Sessions |-> IF ses[q].home = p THEN [ses[q] EXCEPT !.delivering = FALSE]
                                     ELSE ses[q]]
       /\ UNCHANGED <<req, hist, told, stranded>>
  ELSE /\ watcher' = [watcher EXCEPT ![p] = [pc |-> "callback", ses |-> s]]
       /\ ses' = [q \in Sessions |-> IF ses[q].home = p THEN [ses[q] EXCEPT !.delivering = (q = s)]
                                     ELSE ses[q]]
       /\ told' = [told EXCEPT ![s] = [e \in Events |-> IF e \in DOMAIN req[r].counts
                                                        THEN evnt[e] + 1 ELSE told[s][e]]]
       /\ Dropped(r)

\* A turn of watcher_thread: at its start, or when the event was posted.  Only
\* PRB_pending makes it deliver; PRB_wakeup, which another thread may have set
\* and not yet followed up, is reset in any case.
Turn(p) ==
  /\ Live(p)
  /\ watcher[p].pc = "start" \/ (watcher[p].pc = "wait" /\ prb[p].posted)
  /\ prb' = [prb EXCEPT ![p] = [NoProcess EXCEPT !.state = prb[p].state]]
  /\ IF prb[p].pending
     THEN Scan(p, SessionsOf(p))
     ELSE /\ watcher' = [watcher EXCEPT ![p].pc = "wait"]
          /\ stranded' = stranded \union IF prb[p].wakeup THEN CompletedOf(p) ELSE {}
          /\ UNCHANGED <<ses, req, hist, told>>
  /\ UNCHANGED <<evnt, due, probing, crashes>>

\* A session that was deleted during its call-back goes when the watcher is
\* back, and deliver stops without looking at the sessions behind it.
Purged(p) ==
  LET s == watcher[p].ses
      passed == IF prb[p].pending THEN {} ELSE {r \in CompletedOf(p) : req[r].ses > s}
  IN
  /\ watcher' = [watcher EXCEPT ![p] = [pc |-> "wait", ses |-> 0]]
  /\ Deleted({s}, passed, {})
  /\ UNCHANGED told

\* Mutant: PRB_pending is reset at the end of deliver.
Return_reset(p) ==
  LET s == watcher[p].ses IN
  /\ Live(p) /\ watcher[p].pc = "callback"
  /\ IF ses[s].purge THEN Purged(p) ELSE Scan(p, {q \in SessionsOf(p) : q >= s}) /\ UNCHANGED evnt
  /\ prb' = [prb EXCEPT ![p].pending = watcher'[p].pc = "callback" /\ @]
  /\ UNCHANGED <<due, probing, crashes>>

\* The call-back returns: the requests of the session are looked through
\* again, then those of the next.
Return(p) ==
  LET s == watcher[p].ses IN
  /\ Live(p) /\ watcher[p].pc = "callback"
  /\ IF ses[s].purge THEN Purged(p) ELSE Scan(p, {q \in SessionsOf(p) : q >= s}) /\ UNCHANGED evnt
  /\ UNCHANGED <<prb, due, probing, crashes>>

\* A process dies outside the mutex; its blocks stay until it is probed.  What
\* it posted and did not follow up waits for the next deliverEvents of anyone.
Crash(p) ==
  /\ Live(p) /\ crashes < MaxCrash /\ crashes' = crashes + 1
  /\ prb' = [prb EXCEPT ![p].state = "dead"]
  /\ watcher' = [watcher EXCEPT ![p] = [pc |-> "none", ses |-> 0]]
  /\ due' = due \ {p} /\ probing' = [probing EXCEPT ![p] = {}]
  /\ stranded' = stranded \union IF due = {p} THEN UNION {CompletedOf(q) : q \in {q \in Procs : prb[q].wakeup}}
                                 ELSE {}
  /\ UNCHANGED <<evnt, ses, req, hist, told>>

\* ~EventManager, after the watcher has ended: delete_process.
Shutdown(p) ==
  /\ Live(p) /\ watcher[p].pc = "wait" /\ p \notin due
  /\ Deleted(SessionsOf(p), {}, {})
  /\ prb' = [prb EXCEPT ![p] = [NoProcess EXCEPT !.state = "deleted"]]
  /\ watcher' = [watcher EXCEPT ![p].pc = "none"]
  /\ UNCHANGED <<due, probing, told, crashes>>

Next ==
  \/ \E p \in Procs :
       \/ CreateProcess(p) \/ (\E s \in Sessions : CreateSession(p, s))
       \/ (\E q \in Procs : Probe(p, q))
       \/ (\E e \in Events : PostEvent(p, e)) \/ DeliverEvents(p)
       \/ Turn(p) \/ Return(p) \/ Crash(p) \/ Shutdown(p)
  \/ \E s \in Sessions : DeleteSession(s) \/ \E r \in Requests, E \in SUBSET Events : QueEvents(s, r, E)
  \/ \E r \in Requests : CancelEvents(r)

Spec == Init /\ [][Next]_vars

\* The threads run: a commit goes on to deliverEvents, the watcher wakes up,
\* the call-back returns, create_process goes on probing.
Fairness ==
  \A p \in Procs : /\ WF_vars(DeliverEvents(p)) /\ WF_vars(Turn(p)) /\ WF_vars(Return(p))
                   /\ \A q \in Procs : WF_vars(Probe(p, q))
FairSpec == Spec /\ Fairness

(***************************************************************************)
(* Properties                                                              *)
(***************************************************************************)

TypeOK ==
  /\ evnt \in [Events -> {NoEvent} \union 0..MaxPosts]
  /\ prb \in [Procs -> [state : {"none", "live", "dead", "deleted"},
                        wakeup : BOOLEAN, pending : BOOLEAN, posted : BOOLEAN]]
  /\ ses \in [Sessions -> [home : Procs \union {"none"}, state : {"none", "open", "deleted"},
                           delivering : BOOLEAN, purge : BOOLEAN]]
  /\ \A r \in Requests : req[r].ses \in Sessions \union {0, Done} /\ DOMAIN req[r].counts \subseteq Events
  /\ \A r \in Requests : Used(r) => Open(req[r].ses)
  /\ hist \in [Sessions -> SUBSET Events]
  /\ watcher \in [Procs -> [pc : {"none", "start", "wait", "callback"}, ses : Sessions \union {0}]]
  /\ due \subseteq Procs /\ probing \in [Procs -> SUBSET Procs]
  /\ told \in [Sessions -> [Events -> 0..MaxPosts + 1]]
  /\ stranded \subseteq Requests /\ crashes \in 0..MaxCrash

\* A completed request is on its way to its client: its process has been
\* woken, or is marked and a thread is about to wake it, or its watcher has
\* the session still before it (postEvent, deliverEvents, deliver).  The
\* requests of stranded are those the code loses sight of.
CompletedIsDue ==
  \A r \in Requests \ stranded :
    LET s == req[r].ses
        p == ses[s].home
    IN
    Completed(r) /\ Live(p) =>
      \/ prb[p].pending /\ prb[p].posted
      \/ prb[p].wakeup /\ due # {}
      \/ watcher[p].pc = "callback" /\ s >= watcher[p].ses

\* An event the client was told of keeps its count while the session is open:
\* no post between the delivery and the next request is missed
\* (delete_request, historical_interest, delete_event).
CountsKept ==
  \A s \in Sessions, e \in Events :
    Open(s) /\ told[s][e] > 0 => evnt[e] # NoEvent /\ told[s][e] <= evnt[e] + 1

\* The session whose request the watcher delivers is not freed under the
\* call-back (SES_delivering, SES_purge).
NotFreedInCallback ==
  \A p \in Procs :
    watcher[p].pc = "callback" =>
      LET s == watcher[p].ses IN Open(s) /\ ses[s].home = p /\ ses[s].delivering

\* There is a block for an event exactly as long as a session is interested.
EventsMatchInterests ==
  \A e \in Events : evnt[e] # NoEvent <=> Interested(e, {})

\* A completed request of a process whose watcher runs is delivered in the
\* end, unless it is cancelled, its process dies, or it is stranded.
Delivered ==
  \A r \in Requests :
    Completed(r) /\ watcher[ses[req[r].ses].home].pc # "none"
      ~> ~Used(r) \/ r \in stranded \/ ~Live(ses[req[r].ses].home)

\* probe_processes gets rid of the dead it has found.
DeadAreDeleted ==
  \A p \in Procs : probing[p] # {} ~> probing[p] = {}
=============================================================================
