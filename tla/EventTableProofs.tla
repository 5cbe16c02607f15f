-------------------------- MODULE EventTableProofs --------------------------
(* Proofs about EventTable, for any processes, events and bounds: the type   *)
(* invariant, that no session is freed under its call-back, that the blocks  *)
(* of events are those somebody is interested in, that an event keeps its    *)
(* count between a delivery and the next request for it, and that a          *)
(* completed request is always on its way to its client.                     *)
EXTENDS EventTable, WellFoundedInduction, TLAPS

(***************************************************************************)
(* The inductive invariant                                                 *)
(***************************************************************************)

\* The types of the table, without those of processes.
TableType ==
  /\ evnt \in [Events -> {NoEvent} \union 0..MaxPosts]
  /\ ses \in [Sessions -> [home : Procs \union {"none"}, state : {"none", "open", "deleted"},
                           delivering : BOOLEAN, purge : BOOLEAN]]
  /\ \A r \in Requests : req[r].ses \in Sessions \union {0, Done} /\ DOMAIN req[r].counts \subseteq Events
  /\ \A r \in Requests : Used(r) => Open(req[r].ses)
  /\ hist \in [Sessions -> SUBSET Events]
  /\ told \in [Sessions -> [Events -> 0..MaxPosts + 1]]
  /\ stranded \subseteq Requests

\* The types of the processes.
ProcType ==
  /\ prb \in [Procs -> [state : {"none", "live", "dead", "deleted"},
                        wakeup : BOOLEAN, pending : BOOLEAN, posted : BOOLEAN]]
  /\ watcher \in [Procs -> [pc : {"none", "start", "wait", "callback"}, ses : Sessions \union {0}]]
  /\ due \subseteq Procs /\ probing \in [Procs -> SUBSET Procs]
  /\ crashes \in 0..MaxCrash

\* Request blocks are records.
Shape == req = [r \in Requests |-> [ses |-> req[r].ses, counts |-> req[r].counts]]

\* Session s has a request for e or a historical interest in it.
InterestOf(s, e) == e \in hist[s] \/ \E r \in Requests : req[r].ses = s /\ e \in DOMAIN req[r].counts

\* A session stays interested in what its client was told of; one that was
\* never opened has told nothing.
Remembered ==
  \A s \in Sessions, e \in Events :
    /\ Open(s) /\ told[s][e] > 0 => InterestOf(s, e)
    /\ ses[s].state = "none" => told[s][e] = 0

TableInv == TableType /\ Shape /\ EventsMatchInterests /\ Remembered /\ CountsKept

\* A watcher belongs to a living process and its call-back to a session; who is
\* probed does not live.
ProcInv ==
  /\ ProcType
  /\ \A p \in Procs : watcher[p].pc # "none" => Live(p)
  /\ \A p \in Procs : watcher[p].pc = "callback" => watcher[p].ses \in Sessions
  /\ \A p \in Procs : \A q \in probing[p] : prb[q].state \in {"dead", "deleted"}
  /\ NotFreedInCallback

IInv == TableInv /\ ProcInv

(***************************************************************************)
(* The first of a set of blocks                                            *)
(***************************************************************************)

Below == {p \in Nat \X Nat : p[1] < p[2]}

\* First picks the least number of a set that is not empty.
LEMMA FirstIs ==
  ASSUME NEW S \in SUBSET Nat, S # {}
  PROVE  First(S) \in S /\ \A y \in S : First(S) <= y
<1>1. IsWellFoundedOn(Below, Nat)
  BY NatLessThanWellFounded, Zenon DEF OpToRel, Below
<1>2. PICK x \in S : \A y \in S : ~ (<<y, x>> \in Below)
  BY <1>1, WFMin
<1>3. \A y \in S : x <= y
  <2> TAKE y \in S
  <2>1. x \in Nat /\ y \in Nat
    OBVIOUS
  <2>2. ~ (<<y, x>> \in Below)
    BY <1>2
  <2>3. <<y, x>> \in Nat \X Nat /\ <<y, x>>[1] = y /\ <<y, x>>[2] = x
    BY <2>1
  <2>4. ~(y < x)
    BY <2>2, <2>3, Zenon DEF Below
  <2> QED
    BY <2>1, <2>4
<1> QED
  BY <1>3 DEF First

\* A request that is not used has no events: what Interested says of the
\* requests of sessions.
LEMMA InterestedIs ==
  ASSUME NEW e, NEW S
  PROVE  Interested(e, S) <=> \E s \in Sessions \ S : InterestOf(s, e)
BY DEF Interested, InterestOf, RequestsOf

(***************************************************************************)
(* What deleting sessions and dropping requests do to the table            *)
(***************************************************************************)

\* Deleted keeps the types of the table.
LEMMA DeletedType ==
  ASSUME TableType, Shape, NEW S \in SUBSET Sessions, NEW lost \in SUBSET Requests, NEW busy,
         Deleted(S, lost, busy), UNCHANGED told
  PROVE  TableType' /\ Shape'
<1> USE DEF TableType, Shape, Deleted, NoSession, NoRequest, Done, NoEvent, Open, Used
<1>1. evnt' \in [Events -> {NoEvent} \union 0..MaxPosts]
  OBVIOUS
<1>2. ses' \in [Sessions -> [home : Procs \union {"none"}, state : {"none", "open", "deleted"},
                             delivering : BOOLEAN, purge : BOOLEAN]]
  <2>1. \A s \in Sessions :
          ses'[s] = IF s \in S THEN [NoSession EXCEPT !.state = "deleted"]
                    ELSE [ses[s] EXCEPT !.purge = ses[s].purge \/ s \in busy]
    OBVIOUS
  <2>2. \A s \in Sessions : (ses[s].purge \/ s \in busy) \in BOOLEAN
    OBVIOUS
  <2>3. ASSUME NEW s \in Sessions
        PROVE  ses'[s] \in [home : Procs \union {"none"}, state : {"none", "open", "deleted"},
                            delivering : BOOLEAN, purge : BOOLEAN]
    <3>1. CASE s \in S
      BY <2>1, <3>1
    <3>2. CASE s \notin S
      <4> DEFINE b == ses[s].purge \/ s \in busy
      <4>1. b \in BOOLEAN /\ ses'[s] = [ses[s] EXCEPT !.purge = b]
        BY <2>1, <2>2, <3>2
      <4>2. ses[s] \in [home : Procs \union {"none"}, state : {"none", "open", "deleted"},
                        delivering : BOOLEAN, purge : BOOLEAN]
        OBVIOUS
      <4>3. ses'[s].home = ses[s].home /\ ses'[s].state = ses[s].state
        BY <4>1, <4>2
      <4> HIDE DEF b, TableType, Shape, Deleted
      <4> QED
        BY <4>1, <4>2, <4>3
    <3> QED
      BY <3>1, <3>2
  <2> QED
    BY <2>3
<1>3. Shape'
  OBVIOUS
<1>4. \A r \in Requests : req'[r].ses \in Sessions \union {0, Done} /\ DOMAIN req'[r].counts \subseteq Events
  OBVIOUS
<1>5. ASSUME NEW r \in Requests, req'[r].ses \in Sessions
      PROVE  ses'[req'[r].ses].state = "open"
  <2>1. req'[r] = IF req[r].ses \in S THEN [NoRequest EXCEPT !.ses = Done] ELSE req[r]
    OBVIOUS
  <2>2. [NoRequest EXCEPT !.ses = Done].ses = -1
    OBVIOUS
  <2>3. req[r].ses \notin S
    <3>1. SUFFICES ASSUME req[r].ses \in S PROVE FALSE
      OBVIOUS
    <3>2. req'[r].ses = -1
      BY <2>1, <2>2, <3>1
    <3>3. -1 \notin Sessions
      BY DEF Sessions
    <3> QED
      BY <3>2, <3>3, <1>5
  <2>4. ses[req[r].ses].state = "open"
    BY <2>1, <2>3, <1>5
  <2> QED
    BY <2>1, <2>3, <2>4, <1>5
<1>6. hist' \in [Sessions -> SUBSET Events] /\ stranded' \subseteq Requests
  OBVIOUS
<1> QED
  BY <1>1, <1>2, <1>3, <1>4, <1>5, <1>6

\* Deleted takes away the interests of the sessions S and the blocks of events
\* nobody else is interested in; the others keep theirs.
LEMMA DeletedTable ==
  ASSUME TableInv, NEW S \in SUBSET Sessions, NEW lost \in SUBSET Requests, NEW busy,
         Deleted(S, lost, busy), UNCHANGED told
  PROVE  TableInv'
<1>1. TableType' /\ Shape'
  BY DeletedType DEF TableInv
<1>2. ASSUME NEW s \in Sessions, NEW e
      PROVE  InterestOf(s, e)' <=> s \notin S /\ InterestOf(s, e)
  <2>1. \A r \in Requests :
          req'[r] = IF req[r].ses \in S THEN [NoRequest EXCEPT !.ses = Done] ELSE req[r]
    BY DEF Deleted
  <2>2. [NoRequest EXCEPT !.ses = Done].ses = -1 /\ -1 \notin Sessions
    BY DEF NoRequest, Done, Sessions
  <2>3. hist'[s] = IF s \in S THEN {} ELSE hist[s]
    BY DEF Deleted
  <2> QED
    BY <2>1, <2>2, <2>3 DEF InterestOf
<1>3. ASSUME NEW e \in Events
      PROVE  evnt'[e] = IF Interested(e, {}) /\ ~Interested(e, S) THEN NoEvent ELSE evnt[e]
  BY DEF Deleted
<1>4. ASSUME NEW e \in Events
      PROVE  Interested(e, {})' <=> Interested(e, S)
  <2>1. Interested(e, {})' <=> \E s \in Sessions : InterestOf(s, e)'
    BY DEF Interested, InterestOf, RequestsOf
  <2> QED
    BY <2>1, <1>2, InterestedIs
<1>5. EventsMatchInterests'
  <2> SUFFICES ASSUME NEW e \in Events
               PROVE  evnt'[e] # NoEvent <=> Interested(e, {})'
    BY DEF EventsMatchInterests
  <2>1. evnt[e] # NoEvent <=> Interested(e, {})
    BY DEF TableInv, EventsMatchInterests
  <2>2. Interested(e, S) => Interested(e, {})
    BY InterestedIs
  <2> QED
    BY <1>3, <1>4, <2>1, <2>2
<1>6. \A s \in Sessions : (Open(s)' => s \notin S /\ Open(s)) /\ (ses'[s].state = "none" => ses[s].state = "none")
  <2> SUFFICES ASSUME NEW s \in Sessions
               PROVE  (Open(s)' => s \notin S /\ Open(s)) /\ (ses'[s].state = "none" => ses[s].state = "none")
    OBVIOUS
  <2>1. ses'[s] = IF s \in S THEN [NoSession EXCEPT !.state = "deleted"]
                  ELSE [ses[s] EXCEPT !.purge = @ \/ s \in busy]
    BY DEF Deleted
  <2>2. ses[s] \in [home : Procs \union {"none"}, state : {"none", "open", "deleted"},
                    delivering : BOOLEAN, purge : BOOLEAN]
    BY DEF TableInv, TableType
  <2>3. [NoSession EXCEPT !.state = "deleted"].state = "deleted"
    BY DEF NoSession
  <2>4. [ses[s] EXCEPT !.purge = ses[s].purge \/ s \in busy].state = ses[s].state
    BY <2>2
  <2> QED
    BY <2>1, <2>3, <2>4 DEF Open
<1>7. Remembered'
  BY <1>2, <1>6 DEF TableInv, Remembered
<1>8. CountsKept'
  <2> SUFFICES ASSUME NEW s \in Sessions, NEW e \in Events, Open(s)', told[s][e] > 0
               PROVE  evnt'[e] # NoEvent /\ told[s][e] <= evnt'[e] + 1
    BY DEF CountsKept
  <2>1. s \notin S /\ Open(s)
    BY <1>6
  <2>2. InterestOf(s, e)
    BY <2>1 DEF TableInv, Remembered
  <2>3. Interested(e, S)
    BY <2>1, <2>2, InterestedIs
  <2> QED
    BY <2>1, <2>3, <1>3 DEF TableInv, CountsKept
<1> QED
  BY <1>1, <1>5, <1>7, <1>8 DEF TableInv

\* Dropped turns the interests of a request into historical ones of its session.
LEMMA DroppedInterests ==
  ASSUME TableInv, NEW r \in Requests, Used(r), Dropped(r), NEW s \in Sessions, NEW e
  PROVE  InterestOf(s, e)' <=> InterestOf(s, e)
<1>1. \A q \in Requests : req'[q] = IF q = r THEN [NoRequest EXCEPT !.ses = Done] ELSE req[q]
  BY DEF Dropped, TableInv, Shape
<1>2. [NoRequest EXCEPT !.ses = Done].ses = -1 /\ -1 \notin Sessions
  BY DEF NoRequest, Done, Sessions
<1>3. hist'[s] = IF s = req[r].ses THEN hist[s] \union DOMAIN req[r].counts ELSE hist[s]
  BY DEF Dropped, TableInv, TableType
<1> QED
  BY <1>1, <1>2, <1>3 DEF InterestOf

\* Dropped keeps the table in order, whatever of what clients were told is
\* raised to the counts of the events of the request.
LEMMA DroppedTable ==
  ASSUME TableInv, NEW r \in Requests, Used(r), Dropped(r), UNCHANGED evnt,
         ses' \in [Sessions -> [home : Procs \union {"none"}, state : {"none", "open", "deleted"},
                                delivering : BOOLEAN, purge : BOOLEAN]],
         \A s \in Sessions : ses'[s].state = ses[s].state,
         told' \in [Sessions -> [Events -> 0..MaxPosts + 1]],
         \A s \in Sessions, e \in Events :
           \/ told'[s][e] = told[s][e]
           \/ s = req[r].ses /\ e \in DOMAIN req[r].counts /\ told'[s][e] = evnt[e] + 1
  PROVE  TableInv'
<1>1. \A q \in Requests : req'[q] = IF q = r THEN [NoRequest EXCEPT !.ses = Done] ELSE req[q]
  BY DEF Dropped, TableInv, Shape
<1>2. [NoRequest EXCEPT !.ses = Done] = [ses |-> -1, counts |-> <<>>] /\ -1 \notin Sessions
  BY DEF NoRequest, Done, Sessions
<1>3. Shape'
  BY DEF Dropped, TableInv, Shape, NoRequest
<1>4. \A q \in Requests : req'[q].ses \in Sessions \union {0, Done} /\ DOMAIN req'[q].counts \subseteq Events
  <2> SUFFICES ASSUME NEW q \in Requests
               PROVE  req'[q].ses \in Sessions \union {0, Done} /\ DOMAIN req'[q].counts \subseteq Events
    OBVIOUS
  <2>1. CASE q = r
    <3>1. req'[q].ses = Done /\ req'[q].counts = <<>>
      BY <2>1, <1>1, <1>2 DEF Done
    <3>2. DOMAIN <<>> = {}
      OBVIOUS
    <3> QED
      BY <3>1, <3>2
  <2>2. CASE q # r
    BY <2>2, <1>1 DEF TableInv, TableType
  <2> QED
    BY <2>1, <2>2
<1>5. ASSUME NEW q \in Requests, req'[q].ses \in Sessions
      PROVE  ses'[req'[q].ses].state = "open"
  <2>1. q # r
    BY <1>1, <1>2, <1>5
  <2>2. req'[q] = req[q]
    BY <2>1, <1>1
  <2>3. ses[req[q].ses].state = "open"
    BY <2>2, <1>5 DEF TableInv, TableType, Used, Open
  <2> QED
    BY <2>2, <2>3, <1>5
<1>6. hist' \in [Sessions -> SUBSET Events] /\ stranded' \subseteq Requests
  BY DEF Dropped, TableInv, TableType
<1>7. TableType'
  BY <1>4, <1>5, <1>6 DEF TableInv, TableType, Used, Open
<1>8. EventsMatchInterests'
  <2> SUFFICES ASSUME NEW e \in Events
               PROVE  evnt[e] # NoEvent <=> Interested(e, {})'
    BY DEF EventsMatchInterests
  <2>1. Interested(e, {})' <=> \E s \in Sessions : InterestOf(s, e)'
    BY DEF Interested, InterestOf, RequestsOf
  <2>2. Interested(e, {})' <=> Interested(e, {})
    BY <2>1, InterestedIs, DroppedInterests
  <2> QED
    BY <2>2 DEF TableInv, EventsMatchInterests
<1>9. Remembered'
  <2> SUFFICES ASSUME NEW s \in Sessions, NEW e \in Events
               PROVE  /\ Open(s)' /\ told'[s][e] > 0 => InterestOf(s, e)'
                      /\ ses'[s].state = "none" => told'[s][e] = 0
    BY DEF Remembered
  <2>1. CASE told'[s][e] = told[s][e]
    BY <2>1, DroppedInterests DEF TableInv, Remembered, Open
  <2>2. CASE s = req[r].ses /\ e \in DOMAIN req[r].counts
    <3>1. InterestOf(s, e)
      BY <2>2 DEF InterestOf
    <3>2. ses[s].state = "open"
      BY <2>2 DEF TableInv, TableType, Used, Open
    <3> QED
      BY <3>1, <3>2, DroppedInterests
  <2> QED
    BY <2>1, <2>2
<1>10. CountsKept'
  <2> SUFFICES ASSUME NEW s \in Sessions, NEW e \in Events, Open(s)', told'[s][e] > 0
               PROVE  evnt[e] # NoEvent /\ told'[s][e] <= evnt[e] + 1
    BY DEF CountsKept
  <2>1. CASE told'[s][e] = told[s][e]
    BY <2>1 DEF TableInv, CountsKept, Open
  <2>2. CASE s = req[r].ses /\ e \in DOMAIN req[r].counts /\ told'[s][e] = evnt[e] + 1
    <3>1. InterestOf(s, e)
      BY <2>2 DEF InterestOf
    <3>2. evnt[e] # NoEvent
      BY <3>1, InterestedIs DEF TableInv, EventsMatchInterests
    <3>3. evnt[e] \in Int
      BY DEF TableInv, TableType, NoEvent
    <3> QED
      BY <2>2, <3>2, <3>3
  <2> QED
    BY <2>1, <2>2
<1> QED
  BY <1>3, <1>7, <1>8, <1>9, <1>10 DEF TableInv

(***************************************************************************)
(* The steps of the table                                                  *)
(***************************************************************************)

\* What deliver does to the sessions: only SES_delivering of its own changes,
\* and it is set for the one whose call-back begins.
LEMMA ScanSessions ==
  ASSUME TableInv, ProcInv, NEW p \in Procs, NEW S \in SUBSET SessionsOf(p), Scan(p, S)
  PROVE  /\ ses' \in [Sessions -> [home : Procs \union {"none"}, state : {"none", "open", "deleted"},
                                   delivering : BOOLEAN, purge : BOOLEAN]]
         /\ \A s \in Sessions : ses'[s].state = ses[s].state /\ ses'[s].home = ses[s].home
         /\ \A s \in Sessions : ses[s].home # p => ses'[s] = ses[s]
         /\ \/ watcher' = [watcher EXCEPT ![p] = [pc |-> "wait", ses |-> 0]]
            \/ \E s \in S : /\ watcher' = [watcher EXCEPT ![p] = [pc |-> "callback", ses |-> s]]
                            /\ ses'[s].delivering
<1> DEFINE ready == {s \in S : \E r \in RequestsOf(s) : Completed(r)}
           first == First(ready)
           mark(s) == ready # {} /\ s = first
<1>1. ses \in [Sessions -> [home : Procs \union {"none"}, state : {"none", "open", "deleted"},
                            delivering : BOOLEAN, purge : BOOLEAN]]
  BY DEF TableInv, TableType
<1>2. ses' = [s \in Sessions |-> IF ses[s].home = p THEN [ses[s] EXCEPT !.delivering = mark(s)] ELSE ses[s]]
  BY DEF Scan
<1>3. ready # {} => first \in ready
  <2>1. ready \in SUBSET Nat
    <3>1. S \subseteq Sessions
      BY DEF SessionsOf
    <3>2. Sessions \subseteq Nat
      BY EventTableAssumption DEF Sessions, EventTableAssumption
    <3> QED
      BY <3>1, <3>2
  <2> QED
    BY <2>1, FirstIs
<1>4. /\ ready = {} => watcher' = [watcher EXCEPT ![p] = [pc |-> "wait", ses |-> 0]]
      /\ ready # {} => watcher' = [watcher EXCEPT ![p] = [pc |-> "callback", ses |-> first]]
  BY DEF Scan
<1>5. \A s \in Sessions : mark(s) \in BOOLEAN
  OBVIOUS
<1>6. ready # {} => first \in S /\ first \in Sessions /\ ses[first].home = p /\ mark(first)
  BY <1>3 DEF SessionsOf
<1> HIDE DEF mark, ready, first
<1>7. ASSUME NEW s \in Sessions
      PROVE  /\ ses'[s] \in [home : Procs \union {"none"}, state : {"none", "open", "deleted"},
                             delivering : BOOLEAN, purge : BOOLEAN]
             /\ ses'[s].state = ses[s].state /\ ses'[s].home = ses[s].home
             /\ ses[s].home # p => ses'[s] = ses[s]
             /\ ses[s].home = p => ses'[s].delivering = mark(s)
  <2>1. ses[s] \in [home : Procs \union {"none"}, state : {"none", "open", "deleted"},
                    delivering : BOOLEAN, purge : BOOLEAN]
    BY <1>1
  <2>2. CASE ses[s].home = p
    <3>1. ses'[s] = [ses[s] EXCEPT !.delivering = mark(s)]
      BY <1>2, <2>2
    <3> QED
      BY <2>1, <2>2, <3>1, <1>5
  <2>3. CASE ses[s].home # p
    BY <1>2, <2>1, <2>3
  <2> QED
    BY <2>2, <2>3
<1>8. ses' \in [Sessions -> [home : Procs \union {"none"}, state : {"none", "open", "deleted"},
                             delivering : BOOLEAN, purge : BOOLEAN]]
  BY <1>2, <1>7
<1>9. ready # {} => ses'[first].delivering
  BY <1>6, <1>7
<1> QED
  BY <1>4, <1>6, <1>7, <1>8, <1>9

\* deliver keeps the table in order: the client is told the counts of events
\* its session stays interested in.
LEMMA ScanTable ==
  ASSUME TableInv, ProcInv, NEW p \in Procs, NEW S \in SUBSET SessionsOf(p), Scan(p, S), UNCHANGED evnt
  PROVE  TableInv'
<1> DEFINE ready == {s \in S : \E r \in RequestsOf(s) : Completed(r)}
           first == First(ready)
           reqs == {q \in RequestsOf(first) : Completed(q)}
           r == First(reqs)
<1>1. /\ ses' \in [Sessions -> [home : Procs \union {"none"}, state : {"none", "open", "deleted"},
                                delivering : BOOLEAN, purge : BOOLEAN]]
      /\ \A s \in Sessions : ses'[s].state = ses[s].state
  BY ScanSessions
<1>2. CASE ready = {}
  <2>1. UNCHANGED <<req, hist, told, stranded>>
    BY <1>2 DEF Scan
  <2>2. TableType'
    BY <1>1, <2>1 DEF TableInv, TableType, Used, Open
  <2>3. Shape' /\ EventsMatchInterests'
    BY <2>1 DEF TableInv, Shape, EventsMatchInterests, Interested, RequestsOf
  <2>4. Remembered' /\ CountsKept'
    BY <1>1, <2>1 DEF TableInv, Remembered, CountsKept, InterestOf, Open
  <2> QED
    BY <2>2, <2>3, <2>4 DEF TableInv
<1>3. CASE ready # {}
  <2>1. first \in ready
    <3>1. ready \in SUBSET Nat
      <4>1. S \subseteq Sessions
        BY DEF SessionsOf
      <4>2. Sessions \subseteq Nat
        BY EventTableAssumption DEF Sessions, EventTableAssumption
      <4> QED
        BY <4>1, <4>2
    <3> QED
      BY <3>1, <1>3, FirstIs
  <2>2. r \in reqs
    <3>1. reqs \in SUBSET Nat /\ reqs # {}
      BY <2>1 DEF RequestsOf, Requests
    <3> QED
      BY <3>1, FirstIs
  <2>3. r \in Requests /\ req[r].ses = first /\ first \in Sessions /\ Used(r)
    BY <2>1, <2>2 DEF RequestsOf, SessionsOf, Used
  <2>4. /\ Dropped(r)
        /\ told' = [told EXCEPT ![first] = [e \in Events |-> IF e \in DOMAIN req[r].counts
                                                             THEN evnt[e] + 1 ELSE told[first][e]]]
    BY <1>3 DEF Scan
  <2> HIDE DEF r, reqs, first, ready
  <2>5. \A e \in Events : told[first][e] \in 0..MaxPosts + 1 /\ evnt[e] \in {NoEvent} \union 0..MaxPosts
    BY <2>3 DEF TableInv, TableType
  <2>6. \A e \in Events : evnt[e] + 1 \in 0..MaxPosts + 1
    BY <2>5, EventTableAssumption DEF NoEvent, EventTableAssumption
  <2>7. told' \in [Sessions -> [Events -> 0..MaxPosts + 1]]
    BY <2>3, <2>4, <2>5, <2>6 DEF TableInv, TableType
  <2>8. \A s \in Sessions, e \in Events :
          \/ told'[s][e] = told[s][e]
          \/ s = req[r].ses /\ e \in DOMAIN req[r].counts /\ told'[s][e] = evnt[e] + 1
    BY <2>3, <2>4 DEF TableInv, TableType
  <2> QED
    BY <1>1, <2>3, <2>4, <2>7, <2>8, DroppedTable
<1> QED
  BY <1>2, <1>3

\* A new session has told its client nothing.
LEMMA CreateSessionTable ==
  ASSUME TableInv, NEW p \in Procs, NEW s \in Sessions, CreateSession(p, s)
  PROVE  TableInv'
<1>1. /\ ses[s].state = "none"
      /\ ses' = [ses EXCEPT ![s] = [home |-> p, state |-> "open", delivering |-> FALSE, purge |-> FALSE]]
      /\ UNCHANGED <<evnt, req, hist, told, stranded>>
  BY DEF CreateSession
<1>2. \A t \in Sessions : ses'[t].state = IF t = s THEN "open" ELSE ses[t].state
  BY <1>1 DEF TableInv, TableType
<1>3. TableType'
  BY <1>1, <1>2 DEF TableInv, TableType, Used, Open
<1>4. Shape' /\ EventsMatchInterests'
  BY <1>1 DEF TableInv, Shape, EventsMatchInterests, Interested, RequestsOf
<1>5. \A e \in Events : told[s][e] = 0
  BY <1>1 DEF TableInv, Remembered
<1>6. Remembered' /\ CountsKept'
  BY <1>1, <1>2, <1>5 DEF TableInv, Remembered, CountsKept, InterestOf, Open
<1> QED
  BY <1>3, <1>4, <1>6 DEF TableInv

\* queEvents turns historical interests of the session into those of the new
\* request; an event nobody was interested in gets a block with count 0.
LEMMA QueEventsTable ==
  ASSUME TableInv, NEW s \in Sessions, NEW r \in Requests, NEW E \in SUBSET Events, QueEvents(s, r, E)
  PROVE  TableInv'
<1>1. /\ Open(s) /\ req[r].ses = 0
      /\ req' = [req EXCEPT ![r] = [ses |-> s, counts |-> [e \in E |-> told[s][e]]]]
      /\ hist' = [hist EXCEPT ![s] = @ \ E]
      /\ evnt' = [e \in Events |-> IF e \in E /\ evnt[e] = NoEvent THEN 0 ELSE evnt[e]]
      /\ UNCHANGED <<ses, told, stranded>>
  BY DEF QueEvents
<1>2. /\ req'[r].ses = s /\ DOMAIN req'[r].counts = E
      /\ \A q \in Requests : q # r => req'[q] = req[q]
  <2> DEFINE counts == [e \in E |-> told[s][e]]
             block == [ses |-> s, counts |-> counts]
  <2>1. req' = [req EXCEPT ![r] = block]
    BY <1>1
  <2>2. block.ses = s /\ block.counts = counts /\ DOMAIN counts = E
    OBVIOUS
  <2> HIDE DEF block, counts
  <2>3. req'[r] = block /\ \A q \in Requests : q # r => req'[q] = req[q]
    BY <2>1 DEF TableInv, Shape
  <2> QED
    BY <2>2, <2>3
<1>3. Shape'
  BY <1>1 DEF TableInv, Shape
<1>4. evnt' \in [Events -> {NoEvent} \union 0..MaxPosts]
  <2>1. 0 \in 0..MaxPosts
    BY EventTableAssumption DEF EventTableAssumption
  <2> QED
    BY <1>1, <2>1 DEF TableInv, TableType
<1>5. hist' \in [Sessions -> SUBSET Events]
  BY <1>1 DEF TableInv, TableType
<1>6. \A q \in Requests : req'[q].ses \in Sessions \union {0, Done} /\ DOMAIN req'[q].counts \subseteq Events
  <2> SUFFICES ASSUME NEW q \in Requests
               PROVE  req'[q].ses \in Sessions \union {0, Done} /\ DOMAIN req'[q].counts \subseteq Events
    OBVIOUS
  <2>1. CASE q = r
    BY <2>1, <1>2
  <2>2. CASE q # r
    BY <2>2, <1>2 DEF TableInv, TableType
  <2> QED
    BY <2>1, <2>2
<1>7. \A q \in Requests : Used(q)' => Open(req[q].ses)'
  BY <1>1, <1>2 DEF TableInv, TableType, Used, Open
<1>8. TableType'
  BY <1>1, <1>4, <1>5, <1>6, <1>7 DEF TableInv, TableType
<1>9. 0 \notin Sessions
  BY DEF Sessions
<1>10. ASSUME NEW t \in Sessions, NEW e \in Events
       PROVE  InterestOf(t, e)' <=> InterestOf(t, e) \/ (t = s /\ e \in E)
  <2>1. hist'[t] = IF t = s THEN hist[t] \ E ELSE hist[t]
    BY <1>1 DEF TableInv, TableType
  <2>2. \A q \in Requests : req'[q].ses = t /\ e \in DOMAIN req'[q].counts <=>
          \/ q = r /\ t = s /\ e \in E
          \/ q # r /\ req[q].ses = t /\ e \in DOMAIN req[q].counts
    <3> SUFFICES ASSUME NEW q \in Requests
                 PROVE  req'[q].ses = t /\ e \in DOMAIN req'[q].counts <=>
                          \/ q = r /\ t = s /\ e \in E
                          \/ q # r /\ req[q].ses = t /\ e \in DOMAIN req[q].counts
      OBVIOUS
    <3>1. CASE q = r
      BY <3>1, <1>2
    <3>2. CASE q # r
      BY <3>2, <1>2
    <3> QED
      BY <3>1, <3>2
  <2>3. req[r].ses # t
    BY <1>1, <1>9
  <2> QED
    BY <2>1, <2>2, <2>3 DEF InterestOf
<1>11. EventsMatchInterests'
  <2> SUFFICES ASSUME NEW e \in Events
               PROVE  evnt'[e] # NoEvent <=> Interested(e, {})'
    BY DEF EventsMatchInterests
  <2>1. Interested(e, {})' <=> \E t \in Sessions : InterestOf(t, e)'
    BY DEF Interested, InterestOf, RequestsOf
  <2>2. Interested(e, {})' <=> Interested(e, {}) \/ e \in E
    BY <2>1, <1>10, InterestedIs
  <2>3. evnt[e] # NoEvent <=> Interested(e, {})
    BY DEF TableInv, EventsMatchInterests
  <2>4. evnt'[e] = IF e \in E /\ evnt[e] = NoEvent THEN 0 ELSE evnt[e]
    BY <1>1
  <2> QED
    BY <2>2, <2>3, <2>4 DEF NoEvent
<1>12. Remembered'
  BY <1>1, <1>10 DEF TableInv, Remembered, Open
<1>13. CountsKept'
  BY <1>1 DEF TableInv, CountsKept, Open
<1> QED
  BY <1>3, <1>8, <1>11, <1>12, <1>13 DEF TableInv

\* cancelEvents, as what it does to its session is nothing but Dropped.
LEMMA CancelEventsTable ==
  ASSUME TableInv, NEW r \in Requests, CancelEvents(r)
  PROVE  TableInv'
<1>1. Used(r) /\ Dropped(r) /\ UNCHANGED <<evnt, ses, told>>
  BY DEF CancelEvents
<1>2. /\ ses \in [Sessions -> [home : Procs \union {"none"}, state : {"none", "open", "deleted"},
                               delivering : BOOLEAN, purge : BOOLEAN]]
      /\ told \in [Sessions -> [Events -> 0..MaxPosts + 1]]
  BY DEF TableInv, TableType
<1> QED
  BY <1>1, <1>2, DroppedTable

\* A post only raises the count of an event, if there is one.
LEMMA CountTable ==
  ASSUME TableInv, NEW e \in Events, Count(e), UNCHANGED <<ses, req, hist, told, stranded>>
  PROVE  TableInv'
<1>1. /\ evnt[e] # NoEvent /\ evnt[e] < MaxPosts
      /\ evnt' = [evnt EXCEPT ![e] = @ + 1]
      /\ UNCHANGED <<ses, req, hist, told, stranded>>
  BY DEF Count
<1>2. \A d \in Events : evnt[d] \in {NoEvent} \union 0..MaxPosts /\ evnt'[d] = IF d = e THEN evnt[d] + 1 ELSE evnt[d]
  BY <1>1 DEF TableInv, TableType
<1>3. evnt[e] + 1 \in 0..MaxPosts
  BY <1>1, <1>2, EventTableAssumption DEF NoEvent, EventTableAssumption
<1>4. TableType'
  BY <1>1, <1>3 DEF TableInv, TableType, Used, Open
<1>5. EventsMatchInterests'
  <2> SUFFICES ASSUME NEW d \in Events
               PROVE  evnt'[d] # NoEvent <=> Interested(d, {})'
    BY DEF EventsMatchInterests
  <2>1. Interested(d, {})' <=> Interested(d, {})
    BY <1>1 DEF Interested, RequestsOf
  <2>2. evnt[d] # NoEvent <=> Interested(d, {})
    BY DEF TableInv, EventsMatchInterests
  <2>3. evnt'[d] # NoEvent <=> evnt[d] # NoEvent
    BY <1>1, <1>2, <1>3 DEF NoEvent
  <2> QED
    BY <2>1, <2>2, <2>3
<1>6. Shape' /\ Remembered'
  BY <1>1 DEF TableInv, Shape, Remembered, InterestOf, Open
<1>7. CountsKept'
  <2> SUFFICES ASSUME NEW s \in Sessions, NEW d \in Events, Open(s), told[s][d] > 0
               PROVE  evnt'[d] # NoEvent /\ told[s][d] <= evnt'[d] + 1
    BY <1>1 DEF CountsKept, Open
  <2>1. evnt[d] # NoEvent /\ told[s][d] <= evnt[d] + 1
    BY DEF TableInv, CountsKept
  <2>2. told[s][d] \in Int
    BY DEF TableInv, TableType
  <2> QED
    BY <1>2, <2>1, <2>2, EventTableAssumption DEF NoEvent, EventTableAssumption
<1> QED
  BY <1>4, <1>5, <1>6, <1>7 DEF TableInv

(***************************************************************************)
(* The steps of processes                                                  *)
(***************************************************************************)

\* Deleted frees no session that is being delivered when the sessions it
\* deletes are in no call-back that goes on.
LEMMA DeletedProcs ==
  ASSUME TableInv, ProcInv, NEW S \in SUBSET Sessions, NEW lost, NEW busy, Deleted(S, lost, busy),
         \A p \in Procs : watcher'[p].pc = "callback" =>
           watcher'[p] = watcher[p] /\ watcher[p].ses \notin S
  PROVE  /\ \A p \in Procs : watcher'[p].pc = "callback" => watcher'[p].ses \in Sessions
         /\ NotFreedInCallback'
<1>1. \A s \in Sessions \ S : ses'[s].home = ses[s].home /\ ses'[s].state = ses[s].state
                               /\ ses'[s].delivering = ses[s].delivering
  <2> SUFFICES ASSUME NEW s \in Sessions \ S
               PROVE  ses'[s].home = ses[s].home /\ ses'[s].state = ses[s].state
                        /\ ses'[s].delivering = ses[s].delivering
    OBVIOUS
  <2> DEFINE b == ses[s].purge \/ s \in busy
  <2>1. ses'[s] = [ses[s] EXCEPT !.purge = b]
    BY DEF Deleted
  <2>2. ses[s] \in [home : Procs \union {"none"}, state : {"none", "open", "deleted"},
                    delivering : BOOLEAN, purge : BOOLEAN]
    BY DEF TableInv, TableType
  <2> HIDE DEF b
  <2> QED
    BY <2>1, <2>2
<1>2. ASSUME NEW p \in Procs, watcher'[p].pc = "callback"
      PROVE  /\ watcher'[p].ses \in Sessions \ S
             /\ LET s == watcher'[p].ses IN Open(s) /\ ses[s].home = p /\ ses[s].delivering
  BY <1>2 DEF ProcInv, NotFreedInCallback
<1>3. \A p \in Procs : watcher'[p].pc = "callback" => watcher'[p].ses \in Sessions
  BY <1>2
<1>4. NotFreedInCallback'
  BY <1>1, <1>2 DEF NotFreedInCallback, Open
<1> QED
  BY <1>3, <1>4

\* create_process
LEMMA CreateProcessStep ==
  ASSUME IInv, NEW p \in Procs, CreateProcess(p)
  PROVE  IInv'
<1> DEFINE dead == {q \in Procs : prb[q].state = "dead"}
           stuck == {q \in dead : \E s \in SessionsOf(q) : ses[s].delivering}
           gone == UNION {SessionsOf(q) : q \in dead \ stuck}
<1>1. /\ prb[p].state = "none"
      /\ prb' = [q \in Procs |-> IF q = p THEN [NoProcess EXCEPT !.state = "live"]
                                ELSE IF q \in dead \ stuck THEN [NoProcess EXCEPT !.state = "deleted"]
                                ELSE prb[q]]
      /\ Deleted(gone, {}, {})
      /\ probing' = [probing EXCEPT ![p] = stuck]
      /\ watcher' = IF stuck = {} THEN [watcher EXCEPT ![p].pc = "start"] ELSE watcher
      /\ UNCHANGED <<due, told, crashes>>
  BY DEF CreateProcess
<1>2. gone \in SUBSET Sessions /\ stuck \subseteq Procs
  BY DEF SessionsOf
<1>3. \A s \in gone : ses[s].home \in Procs /\ prb[ses[s].home].state = "dead"
  BY DEF SessionsOf
<1> HIDE DEF gone
<1>4. TableInv'
  BY <1>1, <1>2, DeletedTable DEF IInv
<1>5. \A q \in Procs : prb'[q].state = IF q = p THEN "live"
                                       ELSE IF q \in dead \ stuck THEN "deleted" ELSE prb[q].state
  BY <1>1 DEF NoProcess
<1>6. prb' \in [Procs -> [state : {"none", "live", "dead", "deleted"},
                          wakeup : BOOLEAN, pending : BOOLEAN, posted : BOOLEAN]]
  BY <1>1 DEF IInv, ProcInv, ProcType, NoProcess
<1>7. /\ watcher' \in [Procs -> [pc : {"none", "start", "wait", "callback"}, ses : Sessions \union {0}]]
      /\ \A q \in Procs : watcher'[q] = watcher[q] \/ (q = p /\ watcher'[q].pc = "start")
  <2> HIDE DEF stuck
  <2>1. watcher \in [Procs -> [pc : {"none", "start", "wait", "callback"}, ses : Sessions \union {0}]]
    BY DEF IInv, ProcInv, ProcType
  <2>2. CASE stuck = {}
    BY <1>1, <2>1, <2>2
  <2>3. CASE stuck # {}
    BY <1>1, <2>1, <2>3
  <2> QED
    BY <2>2, <2>3
<1>8. ProcType'
  BY <1>1, <1>2, <1>6, <1>7 DEF IInv, ProcInv, ProcType
<1>9. \A q \in Procs : watcher'[q].pc # "none" => prb'[q].state = "live"
  BY <1>1, <1>5, <1>7 DEF IInv, ProcInv, Live
<1>10. \A q \in Procs : \A x \in probing'[q] : prb'[x].state \in {"dead", "deleted"}
  <2> SUFFICES ASSUME NEW q \in Procs, NEW x \in probing'[q]
               PROVE  prb'[x].state \in {"dead", "deleted"}
    OBVIOUS
  <2>1. x \in Procs /\ (x \in probing[q] \/ x \in stuck)
    BY <1>1, <1>2 DEF IInv, ProcInv, ProcType
  <2>2. prb[x].state \in {"dead", "deleted"}
    BY <2>1 DEF IInv, ProcInv
  <2> QED
    BY <1>1, <1>5, <2>1, <2>2
<1>11. \A q \in Procs : watcher'[q].pc = "callback" => watcher'[q] = watcher[q] /\ watcher[q].ses \notin gone
  BY <1>3, <1>7 DEF IInv, ProcInv, NotFreedInCallback, Live
<1>12. /\ \A q \in Procs : watcher'[q].pc = "callback" => watcher'[q].ses \in Sessions
       /\ NotFreedInCallback'
  BY <1>1, <1>2, <1>11, DeletedProcs DEF IInv
<1> QED
  BY <1>4, <1>8, <1>9, <1>10, <1>12 DEF IInv, ProcInv, Live

\* delete_process of one that was found dead.
LEMMA ProbeStep ==
  ASSUME IInv, NEW p \in Procs, NEW q \in Procs, Probe(p, q)
  PROVE  IInv'
<1> DEFINE busy == {s \in SessionsOf(q) : ses[s].delivering}
<1>1. Live(p) /\ q \in probing[p] /\ UNCHANGED <<due, told, crashes>>
  BY DEF Probe
<1>2. ~Live(q)
  BY <1>1 DEF IInv, ProcInv, Live
<1>3. \A x \in Procs : watcher[x].pc = "callback" => watcher[x].ses \notin SessionsOf(q)
  BY <1>2 DEF IInv, ProcInv, NotFreedInCallback, SessionsOf
<1>4. CASE busy # {}
  <2> DEFINE S == {s \in SessionsOf(q) : s < First(busy)}
  <2>1. Deleted(S, {}, {First(busy)}) /\ UNCHANGED <<prb, probing, watcher>>
    BY <1>4 DEF Probe
  <2>2. S \in SUBSET Sessions /\ S \subseteq SessionsOf(q)
    BY DEF SessionsOf
  <2> HIDE DEF S, busy
  <2>3. TableInv'
    BY <1>1, <2>1, <2>2, DeletedTable DEF IInv
  <2>4. /\ \A x \in Procs : watcher'[x].pc = "callback" => watcher'[x].ses \in Sessions
        /\ NotFreedInCallback'
    BY <1>3, <2>1, <2>2, DeletedProcs DEF IInv
  <2>5. ProcType'
    BY <1>1, <2>1 DEF IInv, ProcInv, ProcType
  <2> QED
    BY <2>1, <2>3, <2>4, <2>5 DEF IInv, ProcInv, Live
<1>5. CASE busy = {}
  <2>1. /\ Deleted(SessionsOf(q), {}, {})
        /\ prb' = [prb EXCEPT ![q] = [NoProcess EXCEPT !.state = "deleted"]]
        /\ probing' = [probing EXCEPT ![p] = @ \ {q}]
        /\ watcher' = IF probing'[p] = {} THEN [watcher EXCEPT ![p].pc = "start"] ELSE watcher
    BY <1>5 DEF Probe
  <2>2. SessionsOf(q) \in SUBSET Sessions
    BY DEF SessionsOf
  <2>3. TableInv'
    BY <1>1, <2>1, <2>2, DeletedTable DEF IInv
  <2>4. /\ watcher' \in [Procs -> [pc : {"none", "start", "wait", "callback"}, ses : Sessions \union {0}]]
        /\ \A x \in Procs : watcher'[x] = watcher[x] \/ (x = p /\ watcher'[x].pc = "start")
    BY <2>1 DEF IInv, ProcInv, ProcType
  <2>5. \A x \in Procs : watcher'[x].pc = "callback" => watcher'[x] = watcher[x] /\ watcher[x].ses \notin SessionsOf(q)
    BY <1>3, <2>4
  <2>6. /\ \A x \in Procs : watcher'[x].pc = "callback" => watcher'[x].ses \in Sessions
        /\ NotFreedInCallback'
    BY <2>1, <2>2, <2>5, DeletedProcs DEF IInv
  <2>7. /\ prb' \in [Procs -> [state : {"none", "live", "dead", "deleted"},
                               wakeup : BOOLEAN, pending : BOOLEAN, posted : BOOLEAN]]
        /\ \A x \in Procs : prb'[x].state = IF x = q THEN "deleted" ELSE prb[x].state
    BY <2>1 DEF IInv, ProcInv, ProcType, NoProcess
  <2>8. probing' \in [Procs -> SUBSET Procs] /\ \A x \in Procs : probing'[x] \subseteq probing[x]
    BY <2>1 DEF IInv, ProcInv, ProcType
  <2>9. ProcType'
    BY <1>1, <2>4, <2>7, <2>8 DEF IInv, ProcInv, ProcType
  <2>10. \A x \in Procs : watcher'[x].pc # "none" => prb'[x].state = "live"
    BY <1>1, <1>2, <2>4, <2>7 DEF IInv, ProcInv, Live
  <2>11. \A x \in Procs : \A y \in probing'[x] : prb'[y].state \in {"dead", "deleted"}
    BY <2>7, <2>8 DEF IInv, ProcInv, ProcType
  <2> QED
    BY <2>3, <2>6, <2>9, <2>10, <2>11 DEF IInv, ProcInv, Live
<1> QED
  BY <1>4, <1>5

\* A step that leaves the table alone keeps it in order.
LEMMA TableKept ==
  ASSUME TableInv, UNCHANGED <<evnt, ses, req, hist, told>>, stranded' \subseteq Requests
  PROVE  TableInv'
<1>1. TableType'
  BY DEF TableInv, TableType, Used, Open
<1>2. Shape' /\ EventsMatchInterests'
  BY DEF TableInv, Shape, EventsMatchInterests, Interested, RequestsOf
<1>3. Remembered' /\ CountsKept'
  BY DEF TableInv, Remembered, CountsKept, InterestOf, Open
<1> QED
  BY <1>1, <1>2, <1>3 DEF TableInv

\* postEvent
LEMMA PostEventTable ==
  ASSUME TableInv, NEW p \in Procs, NEW e \in Events, PostEvent(p, e)
  PROVE  TableInv'
<1>1. UNCHANGED <<ses, req, hist, told, stranded>>
  BY DEF PostEvent
<1>2. CASE Count(e)
  BY <1>1, <1>2, CountTable
<1>3. CASE UNCHANGED evnt
  BY <1>1, <1>3, TableKept DEF TableInv, TableType
<1> QED
  BY <1>2, <1>3 DEF PostEvent

\* A turn of deliver.
LEMMA ScanProcs ==
  ASSUME IInv, NEW p \in Procs, NEW S \in SUBSET SessionsOf(p), Scan(p, S)
  PROVE  /\ watcher' \in [Procs -> [pc : {"none", "start", "wait", "callback"}, ses : Sessions \union {0}]]
         /\ \A q \in Procs : q # p => watcher'[q] = watcher[q]
         /\ \A q \in Procs : watcher'[q].pc = "callback" => watcher'[q].ses \in Sessions
         /\ NotFreedInCallback'
<1>1. watcher \in [Procs -> [pc : {"none", "start", "wait", "callback"}, ses : Sessions \union {0}]]
  BY DEF IInv, ProcInv, ProcType
<1>2. /\ \A s \in Sessions : ses'[s].state = ses[s].state /\ ses'[s].home = ses[s].home
      /\ \A s \in Sessions : ses[s].home # p => ses'[s] = ses[s]
  BY ScanSessions DEF IInv
<1>3. ASSUME NEW q \in Procs, q # p, watcher[q].pc = "callback"
      PROVE  /\ watcher[q].ses \in Sessions
             /\ ses'[watcher[q].ses] = ses[watcher[q].ses]
             /\ Open(watcher[q].ses) /\ ses[watcher[q].ses].home = q /\ ses[watcher[q].ses].delivering
  BY <1>2, <1>3 DEF IInv, ProcInv, NotFreedInCallback
<1>4. CASE watcher' = [watcher EXCEPT ![p] = [pc |-> "wait", ses |-> 0]]
  <2>1. watcher' \in [Procs -> [pc : {"none", "start", "wait", "callback"}, ses : Sessions \union {0}]]
    BY <1>1, <1>4
  <2>2. watcher'[p].pc = "wait" /\ \A q \in Procs : q # p => watcher'[q] = watcher[q]
    BY <1>1, <1>4
  <2> QED
    BY <1>3, <2>1, <2>2 DEF NotFreedInCallback, Open
<1>5. ASSUME NEW s \in S, watcher' = [watcher EXCEPT ![p] = [pc |-> "callback", ses |-> s]],
             ses'[s].delivering
      PROVE  /\ watcher' \in [Procs -> [pc : {"none", "start", "wait", "callback"}, ses : Sessions \union {0}]]
             /\ \A q \in Procs : q # p => watcher'[q] = watcher[q]
             /\ \A q \in Procs : watcher'[q].pc = "callback" => watcher'[q].ses \in Sessions
             /\ NotFreedInCallback'
  <2>1. s \in Sessions /\ Open(s) /\ ses[s].home = p
    BY DEF SessionsOf
  <2>2. watcher' \in [Procs -> [pc : {"none", "start", "wait", "callback"}, ses : Sessions \union {0}]]
    BY <1>1, <1>5, <2>1
  <2>3. watcher'[p].ses = s /\ \A q \in Procs : q # p => watcher'[q] = watcher[q]
    BY <1>1, <1>5
  <2>4. ses'[s].state = "open" /\ ses'[s].home = p
    BY <1>2, <2>1 DEF Open
  <2>5. \A q \in Procs : watcher'[q].pc = "callback" => watcher'[q].ses \in Sessions
    BY <1>3, <2>1, <2>3
  <2>6. NotFreedInCallback'
    BY <1>3, <1>5, <2>3, <2>4 DEF NotFreedInCallback, Open
  <2> QED
    BY <2>2, <2>3, <2>5, <2>6
<1> QED
  BY <1>4, <1>5, ScanSessions DEF IInv

\* watcher_thread
LEMMA TurnStep ==
  ASSUME IInv, NEW p \in Procs, Turn(p)
  PROVE  IInv'
<1>1. /\ Live(p)
      /\ watcher[p].pc = "start" \/ watcher[p].pc = "wait"
      /\ prb' = [prb EXCEPT ![p] = [NoProcess EXCEPT !.state = prb[p].state]]
      /\ UNCHANGED <<evnt, due, probing, crashes>>
  BY DEF Turn
<1>2. prb' \in [Procs -> [state : {"none", "live", "dead", "deleted"},
                          wakeup : BOOLEAN, pending : BOOLEAN, posted : BOOLEAN]]
      /\ \A q \in Procs : prb'[q].state = prb[q].state
  BY <1>1 DEF IInv, ProcInv, ProcType, NoProcess
<1>3. \A q \in Procs : \A x \in probing'[q] : prb'[x].state \in {"dead", "deleted"}
  BY <1>1, <1>2 DEF IInv, ProcInv, ProcType
<1>4. CASE prb[p].pending
  <2>1. Scan(p, SessionsOf(p))
    BY <1>4 DEF Turn
  <2>2. TableInv'
    BY <1>1, <2>1, ScanTable DEF IInv
  <2>3. /\ watcher' \in [Procs -> [pc : {"none", "start", "wait", "callback"}, ses : Sessions \union {0}]]
        /\ \A q \in Procs : q # p => watcher'[q] = watcher[q]
        /\ \A q \in Procs : watcher'[q].pc = "callback" => watcher'[q].ses \in Sessions
        /\ NotFreedInCallback'
    BY <2>1, ScanProcs
  <2>4. \A q \in Procs : watcher'[q].pc # "none" => prb'[q].state = "live"
    BY <1>1, <1>2, <2>3 DEF IInv, ProcInv, Live
  <2> QED
    BY <1>1, <1>2, <1>3, <2>2, <2>3, <2>4 DEF IInv, ProcInv, ProcType, Live
<1>5. CASE ~prb[p].pending
  <2>1. /\ watcher' = [watcher EXCEPT ![p].pc = "wait"]
        /\ stranded' = stranded \union IF prb[p].wakeup THEN CompletedOf(p) ELSE {}
        /\ UNCHANGED <<ses, req, hist, told>>
    BY <1>5 DEF Turn
  <2>2. stranded' \subseteq Requests
    BY <2>1 DEF IInv, TableInv, TableType, CompletedOf
  <2>3. TableInv'
    BY <1>1, <2>1, <2>2, TableKept DEF IInv
  <2>4. /\ watcher' \in [Procs -> [pc : {"none", "start", "wait", "callback"}, ses : Sessions \union {0}]]
        /\ watcher'[p].pc = "wait" /\ \A q \in Procs : q # p => watcher'[q] = watcher[q]
    BY <2>1 DEF IInv, ProcInv, ProcType
  <2>5. /\ \A q \in Procs : watcher'[q].pc # "none" => prb'[q].state = "live"
        /\ \A q \in Procs : watcher'[q].pc = "callback" => watcher'[q].ses \in Sessions
        /\ NotFreedInCallback'
    BY <1>1, <1>2, <2>1, <2>4 DEF IInv, ProcInv, NotFreedInCallback, Live, Open
  <2> QED
    BY <1>1, <1>2, <1>3, <2>3, <2>4, <2>5 DEF IInv, ProcInv, ProcType, Live
<1> QED
  BY <1>4, <1>5

\* deliver after a call-back.
LEMMA ReturnStep ==
  ASSUME IInv, NEW p \in Procs, Return(p)
  PROVE  IInv'
<1> DEFINE s == watcher[p].ses
<1>1. Live(p) /\ watcher[p].pc = "callback" /\ UNCHANGED <<prb, due, probing, crashes>>
  BY DEF Return
<1>2. s \in Sessions /\ ses[s].home = p
  BY <1>1 DEF IInv, ProcInv, NotFreedInCallback
<1>3. CASE ses[s].purge
  <2> DEFINE passed == IF prb[p].pending THEN {} ELSE {r \in CompletedOf(p) : req[r].ses > s}
  <2>1. /\ watcher' = [watcher EXCEPT ![p] = [pc |-> "wait", ses |-> 0]]
        /\ Deleted({s}, passed, {})
        /\ UNCHANGED told
    BY <1>3 DEF Return, Purged
  <2>2. {s} \in SUBSET Sessions /\ passed \in SUBSET Requests
    BY <1>2 DEF CompletedOf
  <2> HIDE DEF passed
  <2>3. TableInv'
    BY <2>1, <2>2, DeletedTable DEF IInv
  <2>4. /\ watcher' \in [Procs -> [pc : {"none", "start", "wait", "callback"}, ses : Sessions \union {0}]]
        /\ watcher'[p].pc = "wait" /\ \A q \in Procs : q # p => watcher'[q] = watcher[q]
    BY <2>1 DEF IInv, ProcInv, ProcType
  <2>5. \A q \in Procs : watcher'[q].pc = "callback" => watcher'[q] = watcher[q] /\ watcher[q].ses \notin {s}
    BY <1>2, <2>4 DEF IInv, ProcInv, NotFreedInCallback
  <2>6. /\ \A q \in Procs : watcher'[q].pc = "callback" => watcher'[q].ses \in Sessions
        /\ NotFreedInCallback'
    BY <2>1, <2>2, <2>5, DeletedProcs DEF IInv
  <2>7. \A q \in Procs : watcher'[q].pc # "none" => Live(q)
    BY <1>1, <2>4 DEF IInv, ProcInv
  <2> QED
    BY <1>1, <2>3, <2>4, <2>6, <2>7 DEF IInv, ProcInv, ProcType, Live
<1>4. CASE ~ses[s].purge
  <2> DEFINE S == {q \in SessionsOf(p) : q >= s}
  <2>1. Scan(p, S) /\ UNCHANGED evnt /\ S \in SUBSET SessionsOf(p)
    BY <1>4 DEF Return
  <2> HIDE DEF S
  <2>2. TableInv'
    BY <2>1, ScanTable DEF IInv
  <2>3. /\ watcher' \in [Procs -> [pc : {"none", "start", "wait", "callback"}, ses : Sessions \union {0}]]
        /\ \A q \in Procs : q # p => watcher'[q] = watcher[q]
        /\ \A q \in Procs : watcher'[q].pc = "callback" => watcher'[q].ses \in Sessions
        /\ NotFreedInCallback'
    BY <2>1, ScanProcs
  <2>4. \A q \in Procs : watcher'[q].pc # "none" => Live(q)
    BY <1>1, <2>3 DEF IInv, ProcInv
  <2> QED
    BY <1>1, <2>2, <2>3, <2>4 DEF IInv, ProcInv, ProcType, Live
<1> QED
  BY <1>3, <1>4

\* The steps of clients and the death of a process, as far as it concerns them.
LEMMA ClientStep ==
  ASSUME IInv, TableInv', UNCHANGED <<watcher, probing, crashes>>,
         UNCHANGED ses \/ \E s \in Sessions : ses[s].state = "none" /\ \A t \in Sessions \ {s} : ses'[t] = ses[t],
         due' \subseteq Procs,
         prb' \in [Procs -> [state : {"none", "live", "dead", "deleted"},
                             wakeup : BOOLEAN, pending : BOOLEAN, posted : BOOLEAN]],
         \A q \in Procs : prb'[q].state = prb[q].state
  PROVE  IInv'
<1>1. ProcType'
  BY DEF IInv, ProcInv, ProcType
<1>2. \A q \in Procs : watcher'[q].pc # "none" => prb'[q].state = "live"
  BY DEF IInv, ProcInv, Live
<1>3. \A q \in Procs : \A x \in probing'[q] : prb'[x].state \in {"dead", "deleted"}
  BY DEF IInv, ProcInv, ProcType
<1>4. \A q \in Procs : watcher[q].pc = "callback" => ses'[watcher[q].ses] = ses[watcher[q].ses]
  BY DEF IInv, ProcInv, NotFreedInCallback, Open
<1>5. NotFreedInCallback'
  BY <1>4 DEF IInv, ProcInv, NotFreedInCallback, Open
<1> QED
  BY <1>1, <1>2, <1>3, <1>5 DEF IInv, ProcInv, Live

\* deleteSession: a session that is being delivered is only marked.
LEMMA DeleteSessionStep ==
  ASSUME IInv, NEW s \in Sessions, DeleteSession(s)
  PROVE  IInv'
<1>1. UNCHANGED <<prb, watcher, due, probing, told, crashes>>
  BY DEF DeleteSession
<1>2. PICK S \in SUBSET Sessions, busy \in SUBSET Sessions :
        Deleted(S, {}, busy) /\ \A t \in S : ~ses[t].delivering
  BY DEF DeleteSession
<1>3. TableInv'
  BY <1>1, <1>2, DeletedTable DEF IInv
<1>4. \A q \in Procs : watcher'[q].pc = "callback" => watcher'[q] = watcher[q] /\ watcher[q].ses \notin S
  BY <1>1, <1>2 DEF IInv, ProcInv, NotFreedInCallback
<1>5. /\ \A q \in Procs : watcher'[q].pc = "callback" => watcher'[q].ses \in Sessions
      /\ NotFreedInCallback'
  BY <1>2, <1>4, DeletedProcs DEF IInv
<1> QED
  BY <1>1, <1>3, <1>5 DEF IInv, ProcInv, ProcType, Live

\* A process dies.
LEMMA CrashStep ==
  ASSUME IInv, NEW p \in Procs, Crash(p)
  PROVE  IInv'
<1>1. /\ prb' = [prb EXCEPT ![p].state = "dead"]
      /\ watcher' = [watcher EXCEPT ![p] = [pc |-> "none", ses |-> 0]]
      /\ due' = due \ {p} /\ probing' = [probing EXCEPT ![p] = {}]
      /\ crashes < MaxCrash /\ crashes' = crashes + 1
      /\ UNCHANGED <<evnt, ses, req, hist, told>>
  BY DEF Crash
<1>2. stranded' \subseteq Requests
  BY DEF Crash, CompletedOf, IInv, TableInv, TableType
<1>3. TableInv'
  BY <1>1, <1>2, TableKept DEF IInv
<1>4. /\ prb' \in [Procs -> [state : {"none", "live", "dead", "deleted"},
                             wakeup : BOOLEAN, pending : BOOLEAN, posted : BOOLEAN]]
      /\ \A q \in Procs : prb'[q].state = IF q = p THEN "dead" ELSE prb[q].state
  BY <1>1 DEF IInv, ProcInv, ProcType
<1>5. /\ watcher' \in [Procs -> [pc : {"none", "start", "wait", "callback"}, ses : Sessions \union {0}]]
      /\ watcher'[p].pc = "none" /\ \A q \in Procs : q # p => watcher'[q] = watcher[q]
  BY <1>1 DEF IInv, ProcInv, ProcType
<1>6. crashes' \in 0..MaxCrash
  BY <1>1, EventTableAssumption DEF IInv, ProcInv, ProcType, EventTableAssumption
<1>7. probing' \in [Procs -> SUBSET Procs] /\ \A q \in Procs : probing'[q] \subseteq probing[q]
  BY <1>1 DEF IInv, ProcInv, ProcType
<1>8. ProcType'
  BY <1>1, <1>4, <1>5, <1>6, <1>7 DEF IInv, ProcInv, ProcType
<1>9. \A q \in Procs : watcher'[q].pc # "none" => prb'[q].state = "live"
  BY <1>4, <1>5 DEF IInv, ProcInv, Live
<1>10. \A q \in Procs : \A x \in probing'[q] : prb'[x].state \in {"dead", "deleted"}
  BY <1>4, <1>7 DEF IInv, ProcInv, ProcType
<1>11. /\ \A q \in Procs : watcher'[q].pc = "callback" => watcher'[q].ses \in Sessions
       /\ NotFreedInCallback'
  BY <1>1, <1>5 DEF IInv, ProcInv, NotFreedInCallback, Open
<1> QED
  BY <1>3, <1>8, <1>9, <1>10, <1>11 DEF IInv, ProcInv, Live

\* The event manager of a process is shut down.
LEMMA ShutdownStep ==
  ASSUME IInv, NEW p \in Procs, Shutdown(p)
  PROVE  IInv'
<1>1. /\ watcher[p].pc = "wait"
      /\ Deleted(SessionsOf(p), {}, {})
      /\ prb' = [prb EXCEPT ![p] = [NoProcess EXCEPT !.state = "deleted"]]
      /\ watcher' = [watcher EXCEPT ![p].pc = "none"]
      /\ UNCHANGED <<due, probing, told, crashes>>
  BY DEF Shutdown
<1>2. SessionsOf(p) \in SUBSET Sessions
  BY DEF SessionsOf
<1>3. TableInv'
  BY <1>1, <1>2, DeletedTable DEF IInv
<1>4. /\ prb' \in [Procs -> [state : {"none", "live", "dead", "deleted"},
                             wakeup : BOOLEAN, pending : BOOLEAN, posted : BOOLEAN]]
      /\ \A q \in Procs : prb'[q].state = IF q = p THEN "deleted" ELSE prb[q].state
  BY <1>1 DEF IInv, ProcInv, ProcType, NoProcess
<1>5. /\ watcher' \in [Procs -> [pc : {"none", "start", "wait", "callback"}, ses : Sessions \union {0}]]
      /\ watcher'[p].pc = "none" /\ \A q \in Procs : q # p => watcher'[q] = watcher[q]
  BY <1>1 DEF IInv, ProcInv, ProcType
<1>6. ProcType'
  BY <1>1, <1>4, <1>5 DEF IInv, ProcInv, ProcType
<1>7. \A q \in Procs : watcher'[q].pc # "none" => prb'[q].state = "live"
  BY <1>4, <1>5 DEF IInv, ProcInv, Live
<1>8. \A q \in Procs : \A x \in probing'[q] : prb'[x].state \in {"dead", "deleted"}
  BY <1>1, <1>4 DEF IInv, ProcInv, ProcType
<1>9. \A q \in Procs : watcher'[q].pc = "callback" => watcher'[q] = watcher[q] /\ watcher[q].ses \notin SessionsOf(p)
  BY <1>5 DEF IInv, ProcInv, NotFreedInCallback, SessionsOf
<1>10. /\ \A q \in Procs : watcher'[q].pc = "callback" => watcher'[q].ses \in Sessions
       /\ NotFreedInCallback'
  BY <1>1, <1>2, <1>9, DeletedProcs DEF IInv
<1> QED
  BY <1>3, <1>6, <1>7, <1>8, <1>10 DEF IInv, ProcInv, Live

(***************************************************************************)
(* The theorems                                                            *)
(***************************************************************************)

\* The invariant holds of an empty table.
LEMMA InitInv == Init => IInv
<1> SUFFICES ASSUME Init
             PROVE  IInv
  OBVIOUS
<1>1. /\ 0 \in 0..MaxPosts + 1 /\ 0 \in 0..MaxCrash
      /\ 0 \notin Sessions
  BY EventTableAssumption DEF EventTableAssumption, Sessions
<1>2. \A r \in Requests : req[r].ses = 0 /\ DOMAIN req[r].counts = {}
  <2>1. DOMAIN <<>> = {}
    OBVIOUS
  <2> QED
    BY <2>1 DEF Init, NoRequest
<1>3. TableType
  BY <1>1, <1>2 DEF Init, TableType, NoSession, Used, Open
<1>4. Shape
  BY DEF Init, Shape, NoRequest
<1>5. EventsMatchInterests
  <2>1. \A s \in Sessions : hist[s] = {} /\ RequestsOf(s) = {}
    BY <1>1, <1>2 DEF Init, RequestsOf
  <2>2. \A e \in Events : ~Interested(e, {})
    BY <2>1 DEF Interested
  <2> QED
    BY <2>2 DEF Init, EventsMatchInterests
<1>6. Remembered /\ CountsKept
  BY DEF Init, Remembered, CountsKept, Open, NoSession
<1>7. ProcInv
  BY <1>1 DEF Init, ProcInv, ProcType, NotFreedInCallback, NoProcess, Live
<1> QED
  BY <1>3, <1>4, <1>5, <1>6, <1>7 DEF IInv, TableInv

\* Every step keeps it.
LEMMA NextInv == IInv /\ [Next]_vars => IInv'
<1> SUFFICES ASSUME IInv, [Next]_vars
             PROVE  IInv'
  OBVIOUS
<1>1. ASSUME NEW p \in Procs, NEW s \in Sessions, CreateSession(p, s)
      PROVE  IInv'
  <2>1. TableInv'
    BY <1>1, CreateSessionTable DEF IInv
  <2>2. /\ UNCHANGED <<prb, watcher, due, probing, crashes>>
        /\ ses[s].state = "none" /\ \A t \in Sessions \ {s} : ses'[t] = ses[t]
    BY <1>1 DEF CreateSession, IInv, TableInv, TableType
  <2> QED
    BY <2>1, <2>2, ClientStep DEF IInv, ProcInv, ProcType
<1>2. ASSUME NEW s \in Sessions, NEW r \in Requests, NEW E \in SUBSET Events, QueEvents(s, r, E)
      PROVE  IInv'
  <2>1. TableInv'
    BY <1>2, QueEventsTable DEF IInv
  <2>2. /\ UNCHANGED <<watcher, probing, crashes, ses, due>> /\ Live(ses[s].home)
        /\ prb' = prb \/ prb' = [prb EXCEPT ![ses[s].home] = Posted(@)]
    BY <1>2 DEF QueEvents
  <2>3. ses[s].home \in Procs \union {"none"}
    BY DEF IInv, TableInv, TableType
  <2>4. /\ prb' \in [Procs -> [state : {"none", "live", "dead", "deleted"},
                               wakeup : BOOLEAN, pending : BOOLEAN, posted : BOOLEAN]]
        /\ \A q \in Procs : prb'[q].state = prb[q].state
    <3>1. prb \in [Procs -> [state : {"none", "live", "dead", "deleted"},
                            wakeup : BOOLEAN, pending : BOOLEAN, posted : BOOLEAN]]
      BY DEF IInv, ProcInv, ProcType
    <3> DEFINE p == ses[s].home
    <3>2. CASE prb' = prb
      BY <3>1, <3>2
    <3>3. CASE prb' = [prb EXCEPT ![p] = Posted(@)]
      <4>1. \A q \in Procs : prb'[q] = prb[q] \/ prb'[q] = Posted(prb[q])
        BY <3>1, <3>3
      <4>2. \A q \in Procs : /\ prb'[q] \in [state : {"none", "live", "dead", "deleted"},
                                            wakeup : BOOLEAN, pending : BOOLEAN, posted : BOOLEAN]
                             /\ prb'[q].state = prb[q].state
        <5> SUFFICES ASSUME NEW q \in Procs
                     PROVE  /\ prb'[q] \in [state : {"none", "live", "dead", "deleted"},
                                           wakeup : BOOLEAN, pending : BOOLEAN, posted : BOOLEAN]
                            /\ prb'[q].state = prb[q].state
          OBVIOUS
        <5>1. prb[q] \in [state : {"none", "live", "dead", "deleted"},
                          wakeup : BOOLEAN, pending : BOOLEAN, posted : BOOLEAN]
          BY <3>1
        <5>2. CASE prb'[q] = prb[q]
          BY <5>1, <5>2
        <5>3. CASE prb'[q] = Posted(prb[q])
          <6>1. prb'[q] = [state |-> prb[q].state, wakeup |-> FALSE, pending |-> TRUE, posted |-> TRUE]
            BY <5>3 DEF Posted
          <6>2. prb[q].state \in {"none", "live", "dead", "deleted"}
            BY <5>1
          <6> QED
            BY <6>1, <6>2
        <5> QED
          BY <4>1, <5>2, <5>3
      <4> QED
        BY <3>1, <3>3, <4>2
    <3> QED
      BY <2>2, <3>2, <3>3
  <2> QED
    BY <2>1, <2>2, <2>4, ClientStep DEF IInv, ProcInv, ProcType
<1>3. ASSUME NEW r \in Requests, CancelEvents(r)
      PROVE  IInv'
  <2>1. TableInv'
    BY <1>3, CancelEventsTable DEF IInv
  <2>2. UNCHANGED <<prb, ses, watcher, due, probing, crashes>>
    BY <1>3 DEF CancelEvents
  <2> QED
    BY <2>1, <2>2, ClientStep DEF IInv, ProcInv, ProcType
<1>4. ASSUME NEW p \in Procs, NEW e \in Events, PostEvent(p, e)
      PROVE  IInv'
  <2>1. TableInv'
    BY <1>4, PostEventTable DEF IInv
  <2>2. /\ UNCHANGED <<watcher, probing, crashes, ses>> /\ due' = due \union {p}
        /\ prb' \in [Procs -> [state : {"none", "live", "dead", "deleted"},
                               wakeup : BOOLEAN, pending : BOOLEAN, posted : BOOLEAN]]
        /\ \A q \in Procs : prb'[q].state = prb[q].state
    <3> DEFINE woken(q) == \E x \in {x \in Requests : e \in DOMAIN req[x].counts /\ req[x].counts[e] <= evnt'[e]} :
                               ses[req[x].ses].home = q
    <3>1. prb \in [Procs -> [state : {"none", "live", "dead", "deleted"},
                            wakeup : BOOLEAN, pending : BOOLEAN, posted : BOOLEAN]]
      BY DEF IInv, ProcInv, ProcType
    <3>2. /\ UNCHANGED <<watcher, probing, crashes, ses>> /\ due' = due \union {p}
          /\ \/ prb' = [q \in Procs |-> IF woken(q) THEN [prb[q] EXCEPT !.wakeup = TRUE] ELSE prb[q]]
             \/ prb' = prb
      BY <1>4 DEF PostEvent, Count
    <3> HIDE DEF woken
    <3> QED
      BY <3>1, <3>2
  <2> QED
    BY <2>1, <2>2, ClientStep DEF IInv, ProcInv, ProcType
<1>5. ASSUME NEW p \in Procs, DeliverEvents(p)
      PROVE  IInv'
  <2>1. /\ UNCHANGED <<evnt, ses, req, hist, told, stranded, watcher, probing, crashes>>
        /\ due' = due \ {p}
        /\ prb' = [q \in Procs |-> IF prb[q].wakeup THEN Posted(prb[q]) ELSE prb[q]]
    BY <1>5 DEF DeliverEvents
  <2>2. TableInv'
    BY <2>1, TableKept DEF IInv, TableInv, TableType
  <2>3. /\ prb' \in [Procs -> [state : {"none", "live", "dead", "deleted"},
                               wakeup : BOOLEAN, pending : BOOLEAN, posted : BOOLEAN]]
        /\ \A q \in Procs : prb'[q].state = prb[q].state
    BY <2>1 DEF IInv, ProcInv, ProcType, Posted
  <2> QED
    BY <2>1, <2>2, <2>3, ClientStep DEF IInv, ProcInv, ProcType
<1>6. ASSUME UNCHANGED vars
      PROVE  IInv'
  <2>1. UNCHANGED <<evnt, ses, req, hist, told, stranded, prb, watcher, due, probing, crashes>>
    BY <1>6 DEF vars, table
  <2>2. TableInv'
    BY <2>1, TableKept DEF IInv, TableInv, TableType
  <2> QED
    BY <2>1, <2>2, ClientStep DEF IInv, ProcInv, ProcType
<1> QED
  BY <1>1, <1>2, <1>3, <1>4, <1>5, <1>6, CreateProcessStep, ProbeStep, TurnStep, ReturnStep,
     CrashStep, ShutdownStep, DeleteSessionStep DEF Next

\* The invariant holds throughout.
THEOREM Invariant == Spec => []IInv
<1> QED
  BY InitInv, NextInv, PTL DEF Spec

\* Every variable keeps its type: a request that is used belongs to an open
\* session (delete_session takes its requests with it), and counts stay within
\* what was posted.
THEOREM TypeCorrect == Spec => []TypeOK
<1>1. IInv => TypeOK
  BY DEF IInv, TableInv, TableType, ProcInv, ProcType, TypeOK
<1> QED
  BY <1>1, Invariant, PTL

\* The session whose request the watcher delivers is not freed under its
\* call-back, by whatever other threads and processes delete meanwhile
\* (SES_delivering, SES_purge).
THEOREM NoSessionFreedInCallback == Spec => []NotFreedInCallback
<1>1. IInv => NotFreedInCallback
  BY DEF IInv, ProcInv
<1> QED
  BY <1>1, Invariant, PTL

\* There is a block for an event exactly as long as a session is interested in
\* it (make_event, delete_event).
THEOREM EventsAreThoseOfInterest == Spec => []EventsMatchInterests
<1>1. IInv => EventsMatchInterests
  BY DEF IInv, TableInv
<1> QED
  BY <1>1, Invariant, PTL

\* An event the client was told of keeps its count while the session is open:
\* no post between a delivery and the next request is missed (delete_request,
\* historical_interest).
THEOREM NoPostForgotten == Spec => []CountsKept
<1>1. IInv => CountsKept
  BY DEF IInv, TableInv
<1> QED
  BY <1>1, Invariant, PTL

(***************************************************************************)
(* Completed requests are due                                              *)
(***************************************************************************)

\* A request that is not used has no events.
Emptied == \A r \in Requests : ~Used(r) => DOMAIN req[r].counts = {}

\* An open session belongs to a process that lives or was not probed yet.
Homes == \A s \in Sessions : Open(s) => ses[s].home \in Procs /\ prb[ses[s].home].state \in {"live", "dead"}

\* A process is marked and its event posted together; its watcher starts when
\* nobody is left to be probed.
Marked ==
  /\ \A p \in Procs : prb[p].pending => prb[p].posted
  /\ \A p \in Procs : probing[p] # {} => watcher[p].pc = "none"

DueInv == Emptied /\ Homes /\ Marked /\ CompletedIsDue

\* The home of a request is the process of its session.
Home(r) == ses[req[r].ses].home

\* Somebody is on the way to a completed request.
OnItsWay(r) ==
  LET p == Home(r) IN
  \/ prb[p].pending /\ prb[p].posted
  \/ prb[p].wakeup /\ due # {}
  \/ watcher[p].pc = "callback" /\ req[r].ses >= watcher[p].ses

\* A completed request is used, and its process is one.
LEMMA CompletedUsed ==
  ASSUME IInv, Emptied, Homes, NEW r \in Requests, Completed(r)
  PROVE  Used(r) /\ req[r].ses \in Sessions /\ Open(req[r].ses) /\ Home(r) \in Procs
BY DEF IInv, TableInv, TableType, Emptied, Homes, Completed, Used, Home

\* What follows from a request that is still the same and still completed.
Same(r) == Completed(r) /\ req'[r].ses = req[r].ses /\ Home(r)' = Home(r) /\ r \notin stranded

LEMMA SameDue ==
  ASSUME IInv, DueInv, NEW r \in Requests, Same(r), Live(Home(r))
  PROVE  OnItsWay(r) /\ Home(r) \in Procs
BY CompletedUsed DEF DueInv, CompletedIsDue, Same, Home, OnItsWay

\* The property, request by request.
LEMMA DueByRequest ==
  ASSUME \A r \in Requests : Completed(r)' /\ r \notin stranded' /\ Live(Home(r))' => OnItsWay(r)'
  PROVE  CompletedIsDue'
BY DEF CompletedIsDue, Home, OnItsWay

\* Deleted leaves of the requests those of other sessions, and completes none.
LEMMA DeletedDue ==
  ASSUME IInv, DueInv, NEW S \in SUBSET Sessions, NEW lost, NEW busy, Deleted(S, lost, busy)
  PROVE  /\ Emptied'
         /\ \A s \in Sessions : Open(s)' => s \notin S /\ Open(s) /\ ses'[s].home = ses[s].home
         /\ \A r \in Requests : Completed(r)' /\ r \notin stranded' =>
              Same(r) /\ req[r].ses \notin S /\ r \notin lost
<1>1. \A s \in Sessions : /\ s \in S => ses'[s].state = "deleted"
                          /\ s \notin S => ses'[s].state = ses[s].state /\ ses'[s].home = ses[s].home
  <2> SUFFICES ASSUME NEW s \in Sessions
               PROVE  /\ s \in S => ses'[s].state = "deleted"
                      /\ s \notin S => ses'[s].state = ses[s].state /\ ses'[s].home = ses[s].home
    OBVIOUS
  <2> DEFINE b == ses[s].purge \/ s \in busy
  <2>1. ses'[s] = IF s \in S THEN [NoSession EXCEPT !.state = "deleted"] ELSE [ses[s] EXCEPT !.purge = b]
    BY DEF Deleted
  <2>2. ses[s] \in [home : Procs \union {"none"}, state : {"none", "open", "deleted"},
                    delivering : BOOLEAN, purge : BOOLEAN]
    BY DEF IInv, TableInv, TableType
  <2> HIDE DEF b
  <2> QED
    BY <2>1, <2>2 DEF NoSession
<1>2. \A r \in Requests : /\ req[r].ses \in S => req'[r].ses = Done /\ DOMAIN req'[r].counts = {}
                          /\ req[r].ses \notin S => req'[r] = req[r]
  <2>1. DOMAIN <<>> = {}
    OBVIOUS
  <2>2. \A r \in Requests : req'[r] = IF req[r].ses \in S THEN [NoRequest EXCEPT !.ses = Done] ELSE req[r]
    BY DEF Deleted
  <2>3. [NoRequest EXCEPT !.ses = Done].ses = Done /\ [NoRequest EXCEPT !.ses = Done].counts = <<>>
    BY DEF NoRequest
  <2> QED
    BY <2>1, <2>2, <2>3
<1>3. Done \notin Sessions
  BY DEF Done, Sessions
<1>4. Emptied'
  BY <1>2, <1>3 DEF Emptied, DueInv, Used
<1>5. \A s \in Sessions : Open(s)' => s \notin S /\ Open(s) /\ ses'[s].home = ses[s].home
  BY <1>1 DEF Open
<1>6. ASSUME NEW r \in Requests, Completed(r)', r \notin stranded'
      PROVE  Same(r) /\ req[r].ses \notin S /\ r \notin lost
  <2>1. req[r].ses \notin S /\ req'[r] = req[r] /\ req[r].ses \in Sessions
    BY <1>2, <1>4, <1>6 DEF Completed, Emptied, Used
  <2>2. PICK e \in DOMAIN req[r].counts : req[r].counts[e] <= evnt'[e]
    BY <1>6, <2>1 DEF Completed
  <2>3. e \in Events
    BY DEF IInv, TableInv, TableType
  <2>4. InterestOf(req[r].ses, e)
    BY <2>1 DEF InterestOf
  <2>5. Interested(e, S)
    BY <2>1, <2>4, InterestedIs
  <2>6. evnt'[e] = evnt[e]
    BY <2>3, <2>5 DEF Deleted
  <2>7. Completed(r)
    BY <2>2, <2>6 DEF Completed
  <2>8. r \notin stranded /\ r \notin lost
    BY <1>6, <2>1 DEF Deleted
  <2> QED
    BY <1>1, <2>1, <2>7, <2>8 DEF Same, Home
<1> QED
  BY <1>4, <1>5, <1>6

\* Dropped takes a request away and leaves the others as they are.
LEMMA DroppedDue ==
  ASSUME IInv, DueInv, NEW r \in Requests, Dropped(r), UNCHANGED evnt,
         \A s \in Sessions : ses'[s].home = ses[s].home
  PROVE  /\ Emptied'
         /\ \A q \in Requests : Completed(q)' /\ q \notin stranded' => Same(q) /\ q # r
<1>1. /\ req'[r].ses = Done /\ DOMAIN req'[r].counts = {}
      /\ \A q \in Requests : q # r => req'[q] = req[q]
  <2>1. DOMAIN <<>> = {}
    OBVIOUS
  <2>2. \A q \in Requests : req'[q] = IF q = r THEN [NoRequest EXCEPT !.ses = Done] ELSE req[q]
    BY DEF Dropped, IInv, TableInv, Shape
  <2>3. [NoRequest EXCEPT !.ses = Done].ses = Done /\ [NoRequest EXCEPT !.ses = Done].counts = <<>>
    BY DEF NoRequest
  <2> QED
    BY <2>1, <2>2, <2>3
<1>2. Emptied'
  BY <1>1 DEF Emptied, DueInv, Used, Done
<1>3. ASSUME NEW q \in Requests, Completed(q)', q \notin stranded'
      PROVE  Same(q) /\ q # r
  <2>1. q # r /\ req'[q] = req[q]
    BY <1>1, <1>3 DEF Completed
  <2>2. Completed(q) /\ q \notin stranded
    BY <1>3, <2>1 DEF Completed, Dropped
  <2>3. req[q].ses \in Sessions
    BY <2>2, CompletedUsed DEF DueInv
  <2> QED
    BY <2>1, <2>2, <2>3 DEF Same, Home
<1> QED
  BY <1>2, <1>3

\* deliver finds a completed request of the sessions S, or none is left.
LEMMA ScanDue ==
  ASSUME IInv, DueInv, NEW p \in Procs, NEW S \in SUBSET SessionsOf(p), Scan(p, S), UNCHANGED evnt
  PROVE  /\ Emptied'
         /\ \A s \in Sessions : ses'[s].state = ses[s].state /\ ses'[s].home = ses[s].home
         /\ \A q \in Procs : q # p => watcher'[q] = watcher[q]
         /\ \A r \in Requests : Completed(r)' /\ r \notin stranded' =>
              /\ Same(r)
              /\ req[r].ses \in S => watcher'[p].pc = "callback" /\ req[r].ses >= watcher'[p].ses
<1> DEFINE ready == {s \in S : \E r \in RequestsOf(s) : Completed(r)}
           first == First(ready)
           reqs == {q \in RequestsOf(first) : Completed(q)}
           r == First(reqs)
<1>1. \A s \in Sessions : ses'[s].state = ses[s].state /\ ses'[s].home = ses[s].home
  BY ScanSessions DEF IInv
<1>2. watcher \in [Procs -> [pc : {"none", "start", "wait", "callback"}, ses : Sessions \union {0}]]
  BY DEF IInv, ProcInv, ProcType
<1>3. \A x \in Requests : Completed(x) /\ req[x].ses \in S => req[x].ses \in ready
  BY DEF RequestsOf
<1>4. CASE ready = {}
  <2>1. UNCHANGED <<req, stranded>> /\ watcher' = [watcher EXCEPT ![p] = [pc |-> "wait", ses |-> 0]]
    BY <1>4 DEF Scan
  <2>2. Emptied'
    BY <2>1 DEF Emptied, DueInv, Used
  <2>3. \A q \in Procs : q # p => watcher'[q] = watcher[q]
    BY <1>2, <2>1
  <2>4. ASSUME NEW x \in Requests, Completed(x)', x \notin stranded'
        PROVE  Same(x) /\ req[x].ses \notin S
    <3>1. Completed(x) /\ x \notin stranded
      BY <2>1, <2>4 DEF Completed
    <3>2. req[x].ses \in Sessions
      BY <3>1, CompletedUsed DEF DueInv
    <3> QED
      BY <1>1, <1>3, <1>4, <2>1, <3>1, <3>2 DEF Same, Home
  <2> QED
    BY <1>1, <2>2, <2>3, <2>4
<1>5. CASE ready # {}
  <2>1. ready \in SUBSET Nat
    <3>1. S \subseteq Sessions /\ Sessions \subseteq Nat
      BY DEF SessionsOf, Sessions
    <3> QED
      BY <3>1
  <2>2. first \in ready /\ \A y \in ready : first <= y
    BY <1>5, <2>1, FirstIs
  <2>3. reqs \in SUBSET Nat /\ reqs # {}
    BY <2>2 DEF RequestsOf, Requests
  <2>4. r \in reqs
    BY <2>3, FirstIs
  <2>5. r \in Requests
    BY <2>4 DEF RequestsOf
  <2>6. watcher' = [watcher EXCEPT ![p] = [pc |-> "callback", ses |-> first]] /\ Dropped(r)
    BY <1>5 DEF Scan
  <2> HIDE DEF r, reqs, first, ready
  <2>7. Emptied' /\ \A x \in Requests : Completed(x)' /\ x \notin stranded' => Same(x)
    BY <1>1, <2>5, <2>6, DroppedDue
  <2>8. /\ watcher'[p].pc = "callback" /\ watcher'[p].ses = first
        /\ \A q \in Procs : q # p => watcher'[q] = watcher[q]
    BY <1>2, <2>6
  <2>9. ASSUME NEW x \in Requests, Same(x), req[x].ses \in S
        PROVE  req[x].ses >= first
    <3>1. req[x].ses \in ready
      BY <1>3, <2>9 DEF Same
    <3> QED
      BY <2>1, <2>2, <3>1
  <2> QED
    BY <1>1, <2>7, <2>8, <2>9
<1> QED
  BY <1>4, <1>5

\* create_process: a process that comes has no session yet, and those that go
\* take theirs with them.
LEMMA CreateProcessDue ==
  ASSUME IInv, DueInv, NEW p \in Procs, CreateProcess(p)
  PROVE  DueInv'
<1> DEFINE dead == {q \in Procs : prb[q].state = "dead"}
           stuck == {q \in dead : \E s \in SessionsOf(q) : ses[s].delivering}
           gone == UNION {SessionsOf(q) : q \in dead \ stuck}
<1>1. /\ prb[p].state = "none"
      /\ prb' = [q \in Procs |-> IF q = p THEN [NoProcess EXCEPT !.state = "live"]
                                ELSE IF q \in dead \ stuck THEN [NoProcess EXCEPT !.state = "deleted"]
                                ELSE prb[q]]
      /\ Deleted(gone, {}, {})
      /\ probing' = [probing EXCEPT ![p] = stuck]
      /\ watcher' = IF stuck = {} THEN [watcher EXCEPT ![p].pc = "start"] ELSE watcher
      /\ UNCHANGED <<due, told, crashes>>
  BY DEF CreateProcess
<1>2. gone \in SUBSET Sessions
  BY DEF SessionsOf
<1>3. \A s \in Sessions \ gone : Open(s) => ses[s].home \in Procs \ {p} /\ ses[s].home \notin dead \ stuck
  BY <1>1 DEF SessionsOf, DueInv, Homes
<1>4. watcher[p].pc = "none"
  BY <1>1 DEF IInv, ProcInv, Live
<1>5. /\ \A q \in Procs : q # p => watcher'[q] = watcher[q] /\ probing'[q] = probing[q]
      /\ probing'[p] # {} => watcher'[p].pc = "none"
  <2> HIDE DEF stuck
  <2>1. /\ watcher \in [Procs -> [pc : {"none", "start", "wait", "callback"}, ses : Sessions \union {0}]]
        /\ probing \in [Procs -> SUBSET Procs]
    BY DEF IInv, ProcInv, ProcType
  <2>2. CASE stuck = {}
    BY <1>1, <2>1, <2>2
  <2>3. CASE stuck # {}
    BY <1>1, <1>4, <2>1, <2>3
  <2> QED
    BY <2>2, <2>3
<1>6. \A q \in Procs : q # p /\ q \notin dead \ stuck => prb'[q] = prb[q]
  BY <1>1
<1>7. \A q \in Procs : prb'[q] = prb[q] \/ ~prb'[q].pending
  BY <1>1 DEF NoProcess
<1> HIDE DEF gone, stuck
<1>8. /\ Emptied'
      /\ \A s \in Sessions : Open(s)' => s \notin gone /\ Open(s) /\ ses'[s].home = ses[s].home
      /\ \A r \in Requests : Completed(r)' /\ r \notin stranded' => Same(r) /\ req[r].ses \notin gone
  BY <1>1, <1>2, DeletedDue
<1>9. Homes'
  BY <1>3, <1>6, <1>8 DEF Homes, DueInv, Open
<1>10. Marked'
  BY <1>5, <1>7 DEF Marked, DueInv
<1>11. ASSUME NEW r \in Requests, Completed(r)', r \notin stranded', Live(Home(r))'
       PROVE  OnItsWay(r)'
  <2>1. Same(r) /\ req[r].ses \in Sessions \ gone /\ Open(req[r].ses)
    BY <1>8, <1>11, CompletedUsed DEF DueInv, Same
  <2>2. Home(r) \in Procs /\ Home(r) # p /\ prb'[Home(r)] = prb[Home(r)] /\ watcher'[Home(r)] = watcher[Home(r)]
    BY <1>3, <1>5, <1>6, <2>1 DEF Home
  <2>3. OnItsWay(r)
    BY <1>11, <2>1, <2>2, SameDue DEF Same, Live
  <2> QED
    BY <1>1, <2>1, <2>2, <2>3 DEF OnItsWay, Same
<1> QED
  BY <1>8, <1>9, <1>10, <1>11, DueByRequest DEF DueInv

\* Sessions that go with their process, or alone.
LEMMA GoneDue ==
  ASSUME IInv, DueInv, NEW S \in SUBSET Sessions, NEW lost, NEW busy, Deleted(S, lost, busy), UNCHANGED due,
         \A q \in Procs : \/ prb'[q] = prb[q]
                          \/ prb'[q].state = "deleted" /\ ~prb'[q].pending /\ SessionsOf(q) \subseteq S,
         \A q \in Procs : watcher'[q] = watcher[q] \/ watcher[q].pc # "callback" \/ prb'[q].state = "deleted",
         \A q \in Procs : probing'[q] # {} => probing[q] # {} /\ watcher'[q] = watcher[q]
  PROVE  DueInv'
<1>1. /\ Emptied'
      /\ \A s \in Sessions : Open(s)' => s \notin S /\ Open(s) /\ ses'[s].home = ses[s].home
      /\ \A r \in Requests : Completed(r)' /\ r \notin stranded' => Same(r) /\ req[r].ses \notin S
  BY DeletedDue
<1>2. ASSUME NEW s \in Sessions, Open(s)'
      PROVE  ses'[s].home \in Procs /\ prb'[ses'[s].home].state \in {"live", "dead"}
  <2>1. s \notin S /\ Open(s) /\ ses'[s].home = ses[s].home
    BY <1>1, <1>2
  <2>2. ses[s].home \in Procs /\ prb[ses[s].home].state \in {"live", "dead"} /\ s \in SessionsOf(ses[s].home)
    BY <2>1 DEF DueInv, Homes, SessionsOf
  <2> QED
    BY <2>1, <2>2
<1>3. Marked'
  BY DEF Marked, DueInv
<1>4. ASSUME NEW r \in Requests, Completed(r)', r \notin stranded', Live(Home(r))'
      PROVE  OnItsWay(r)'
  <2>1. Same(r) /\ req[r].ses \in Sessions \ S /\ Open(req[r].ses) /\ Home(r) \in Procs
    BY <1>1, <1>4, CompletedUsed DEF DueInv, Same
  <2>2. prb'[Home(r)].state = "live"
    BY <1>4, <2>1 DEF Live, Same
  <2>3. prb'[Home(r)] = prb[Home(r)] /\ Live(Home(r))
    BY <2>1, <2>2 DEF Live
  <2>4. OnItsWay(r)
    BY <2>1, <2>3, SameDue
  <2>5. watcher'[Home(r)] = watcher[Home(r)] \/ watcher[Home(r)].pc # "callback"
    BY <2>1, <2>2
  <2> QED
    BY <2>1, <2>3, <2>4, <2>5 DEF OnItsWay, Same
<1> QED
  BY <1>1, <1>2, <1>3, <1>4, DueByRequest DEF DueInv, Homes

\* delete_process of one that was found dead.
LEMMA ProbeDue ==
  ASSUME IInv, DueInv, NEW p \in Procs, NEW q \in Procs, Probe(p, q)
  PROVE  DueInv'
<1> DEFINE busy == {s \in SessionsOf(q) : ses[s].delivering}
<1>1. q \in probing[p] /\ UNCHANGED due
  BY DEF Probe
<1>2. CASE busy # {}
  <2> DEFINE S == {s \in SessionsOf(q) : s < First(busy)}
  <2>1. Deleted(S, {}, {First(busy)}) /\ UNCHANGED <<prb, probing, watcher>>
    BY <1>2 DEF Probe
  <2>2. S \in SUBSET Sessions
    BY DEF SessionsOf
  <2> HIDE DEF S, busy
  <2> QED
    BY <1>1, <2>1, <2>2, GoneDue
<1>3. CASE busy = {}
  <2>1. /\ Deleted(SessionsOf(q), {}, {})
        /\ prb' = [prb EXCEPT ![q] = [NoProcess EXCEPT !.state = "deleted"]]
        /\ probing' = [probing EXCEPT ![p] = @ \ {q}]
        /\ watcher' = IF probing'[p] = {} THEN [watcher EXCEPT ![p].pc = "start"] ELSE watcher
    BY <1>3 DEF Probe
  <2>2. SessionsOf(q) \in SUBSET Sessions
    BY DEF SessionsOf
  <2>3. \A x \in Procs : prb'[x] = prb[x] \/ (prb'[x].state = "deleted" /\ ~prb'[x].pending /\ x = q)
    BY <2>1 DEF NoProcess, IInv, ProcInv, ProcType
  <2>4. watcher[p].pc = "none"
    BY <1>1 DEF DueInv, Marked
  <2>5. /\ \A x \in Procs : x # p => watcher'[x] = watcher[x]
        /\ probing'[p] # {} => watcher' = watcher
        /\ \A x \in Procs : probing'[x] \subseteq probing[x]
    BY <2>1 DEF IInv, ProcInv, ProcType
  <2> QED
    BY <1>1, <2>1, <2>2, <2>3, <2>4, <2>5, GoneDue
<1> QED
  BY <1>2, <1>3

\* deleteSession
LEMMA DeleteSessionDue ==
  ASSUME IInv, DueInv, NEW s \in Sessions, DeleteSession(s)
  PROVE  DueInv'
<1>1. UNCHANGED <<prb, watcher, due, probing, told, crashes>>
  BY DEF DeleteSession
<1>2. PICK S \in SUBSET Sessions, busy \in SUBSET Sessions : Deleted(S, {}, busy)
  BY DEF DeleteSession
<1> QED
  BY <1>1, <1>2, GoneDue

\* The event manager of a process is shut down.
LEMMA ShutdownDue ==
  ASSUME IInv, DueInv, NEW p \in Procs, Shutdown(p)
  PROVE  DueInv'
<1>1. /\ watcher[p].pc = "wait"
      /\ Deleted(SessionsOf(p), {}, {})
      /\ prb' = [prb EXCEPT ![p] = [NoProcess EXCEPT !.state = "deleted"]]
      /\ watcher' = [watcher EXCEPT ![p].pc = "none"]
      /\ UNCHANGED <<due, probing, told, crashes>>
  BY DEF Shutdown
<1>2. SessionsOf(p) \in SUBSET Sessions
  BY DEF SessionsOf
<1>3. \A x \in Procs : prb'[x] = prb[x] \/ (prb'[x].state = "deleted" /\ ~prb'[x].pending /\ x = p)
  BY <1>1 DEF NoProcess, IInv, ProcInv, ProcType
<1>4. \A x \in Procs : x # p => watcher'[x] = watcher[x]
  BY <1>1 DEF IInv, ProcInv, ProcType
<1>5. probing[p] = {}
  BY <1>1 DEF DueInv, Marked
<1> QED
  BY <1>1, <1>2, <1>3, <1>4, <1>5, GoneDue

\* A turn of the watcher: with its process marked it looks at all sessions;
\* with nothing but PRB_wakeup set the completed requests are stranded.
LEMMA TurnDue ==
  ASSUME IInv, DueInv, NEW p \in Procs, Turn(p)
  PROVE  DueInv'
<1>1. /\ Live(p)
      /\ watcher[p].pc = "start" \/ watcher[p].pc = "wait"
      /\ prb' = [prb EXCEPT ![p] = [NoProcess EXCEPT !.state = prb[p].state]]
      /\ UNCHANGED <<evnt, due, probing, crashes>>
  BY DEF Turn
<1>2. /\ \A q \in Procs : prb'[q].state = prb[q].state
      /\ \A q \in Procs : q # p => prb'[q] = prb[q]
      /\ ~prb'[p].pending
  BY <1>1 DEF IInv, ProcInv, ProcType, NoProcess
<1>3. watcher \in [Procs -> [pc : {"none", "start", "wait", "callback"}, ses : Sessions \union {0}]]
  BY DEF IInv, ProcInv, ProcType
<1>4. ASSUME \A q \in Procs : q # p => watcher'[q] = watcher[q]
      PROVE  Marked'
  <2>1. probing[p] = {}
    BY <1>1 DEF DueInv, Marked
  <2> QED
    BY <1>1, <1>2, <1>4, <2>1 DEF Marked, DueInv
<1>5. ASSUME NEW r \in Requests, Same(r), Live(Home(r))', Home(r) # p,
             \A q \in Procs : q # p => watcher'[q] = watcher[q]
      PROVE  OnItsWay(r)'
  <2>1. Home(r) \in Procs
    BY <1>5, CompletedUsed DEF DueInv, Same
  <2>2. OnItsWay(r)
    BY <1>2, <1>5, <2>1, SameDue DEF Live, Same
  <2> QED
    BY <1>1, <1>2, <1>5, <2>1, <2>2 DEF OnItsWay, Same
<1>6. CASE prb[p].pending
  <2>1. Scan(p, SessionsOf(p))
    BY <1>6 DEF Turn
  <2>2. /\ Emptied'
        /\ \A s \in Sessions : ses'[s].state = ses[s].state /\ ses'[s].home = ses[s].home
        /\ \A q \in Procs : q # p => watcher'[q] = watcher[q]
        /\ \A r \in Requests : Completed(r)' /\ r \notin stranded' =>
             /\ Same(r)
             /\ req[r].ses \in SessionsOf(p) => watcher'[p].pc = "callback" /\ req[r].ses >= watcher'[p].ses
    BY <1>1, <2>1, ScanDue
  <2>3. Homes'
    BY <1>2, <2>2 DEF Homes, DueInv, Open
  <2>4. ASSUME NEW r \in Requests, Completed(r)', r \notin stranded', Live(Home(r))', Home(r) = p
        PROVE  OnItsWay(r)'
    <3>1. Same(r) /\ req[r].ses \in SessionsOf(p)
      BY <2>2, <2>4, CompletedUsed DEF DueInv, SessionsOf, Home, Same
    <3> QED
      BY <2>2, <2>4, <3>1 DEF OnItsWay, Same
  <2>5. \A r \in Requests : Completed(r)' /\ r \notin stranded' /\ Live(Home(r))' => OnItsWay(r)'
    <3> SUFFICES ASSUME NEW r \in Requests, Completed(r)', r \notin stranded', Live(Home(r))'
                 PROVE  OnItsWay(r)'
      OBVIOUS
    <3>1. Same(r)
      BY <2>2
    <3> QED
      BY <1>5, <2>2, <2>4, <3>1
  <2> QED
    BY <1>4, <2>2, <2>3, <2>5, DueByRequest DEF DueInv
<1>7. CASE ~prb[p].pending
  <2>1. /\ watcher' = [watcher EXCEPT ![p].pc = "wait"]
        /\ stranded' = stranded \union IF prb[p].wakeup THEN CompletedOf(p) ELSE {}
        /\ UNCHANGED <<ses, req, hist, told>>
    BY <1>7 DEF Turn
  <2>2. \A q \in Procs : q # p => watcher'[q] = watcher[q]
    BY <1>3, <2>1
  <2>3. Emptied' /\ Homes'
    BY <1>2, <2>1 DEF Emptied, Homes, DueInv, Open, Used
  <2>4. ASSUME NEW r \in Requests, Completed(r)', r \notin stranded', Live(Home(r))'
        PROVE  OnItsWay(r)'
    <3>1. Same(r)
      BY <1>1, <2>1, <2>4 DEF Same, Completed, Home
    <3>2. CASE Home(r) = p
      <4>1. OnItsWay(r)
        BY <1>1, <3>1, <3>2, SameDue
      <4>2. prb[p].wakeup
        BY <1>1, <1>7, <3>2, <4>1 DEF OnItsWay
      <4>3. r \in CompletedOf(p)
        BY <3>1, <3>2 DEF Same, CompletedOf, Home
      <4> QED
        BY <2>1, <2>4, <4>2, <4>3
    <3> QED
      BY <1>5, <2>2, <2>4, <3>1, <3>2
  <2> QED
    BY <1>4, <2>2, <2>3, <2>4, DueByRequest DEF DueInv
<1> QED
  BY <1>6, <1>7

\* deliver after a call-back: of a session that was purged the requests go, and
\* those behind it are stranded unless the process is marked again.
LEMMA ReturnDue ==
  ASSUME IInv, DueInv, NEW p \in Procs, Return(p)
  PROVE  DueInv'
<1> DEFINE s == watcher[p].ses
<1>1. Live(p) /\ watcher[p].pc = "callback" /\ UNCHANGED <<prb, due, probing, crashes>>
  BY DEF Return
<1>2. s \in Sessions
  BY <1>1 DEF IInv, ProcInv
<1>3. probing[p] = {}
  BY <1>1 DEF DueInv, Marked
<1>4. watcher \in [Procs -> [pc : {"none", "start", "wait", "callback"}, ses : Sessions \union {0}]]
  BY DEF IInv, ProcInv, ProcType
<1>5. ASSUME Emptied', \A q \in Procs : q # p => watcher'[q] = watcher[q],
             \A t \in Sessions : Open(t)' => Open(t) /\ ses'[t].home = ses[t].home,
             \A r \in Requests : Completed(r)' /\ r \notin stranded' =>
               /\ Same(r)
               /\ Home(r) = p /\ req[r].ses >= s =>
                    \/ prb[p].pending
                    \/ watcher'[p].pc = "callback" /\ req[r].ses >= watcher'[p].ses
      PROVE  DueInv'
  <2>1. Homes'
    BY <1>1, <1>5 DEF Homes, DueInv, Open
  <2>2. Marked'
    BY <1>1, <1>3, <1>5 DEF Marked, DueInv
  <2>3. ASSUME NEW r \in Requests, Completed(r)', r \notin stranded', Live(Home(r))'
        PROVE  OnItsWay(r)'
    <3>1. Same(r) /\ Home(r) \in Procs
      BY <1>5, <2>3, CompletedUsed DEF DueInv, Same
    <3>2. OnItsWay(r)
      BY <1>1, <2>3, <3>1, SameDue DEF Live, Same
    <3>3. CASE prb[Home(r)].pending \/ (prb[Home(r)].wakeup /\ due # {})
      BY <1>1, <3>1, <3>3 DEF OnItsWay, Same, DueInv, Marked
    <3>4. CASE Home(r) # p
      BY <1>1, <1>5, <3>1, <3>2, <3>4 DEF OnItsWay, Same
    <3>5. CASE Home(r) = p /\ req[r].ses >= s
      BY <1>1, <1>5, <2>3, <3>1, <3>3, <3>5 DEF OnItsWay, Same
    <3> QED
      BY <3>2, <3>3, <3>4, <3>5 DEF OnItsWay
  <2> QED
    BY <1>5, <2>1, <2>2, <2>3, DueByRequest DEF DueInv
<1>6. CASE ses[s].purge
  <2> DEFINE passed == IF prb[p].pending THEN {} ELSE {r \in CompletedOf(p) : req[r].ses > s}
  <2>1. /\ watcher' = [watcher EXCEPT ![p] = [pc |-> "wait", ses |-> 0]]
        /\ Deleted({s}, passed, {})
    BY <1>6 DEF Return, Purged
  <2>2. {s} \in SUBSET Sessions
    BY <1>2
  <2>3. \A q \in Procs : q # p => watcher'[q] = watcher[q]
    BY <1>4, <2>1
  <2>4. \A r \in Requests : Completed(r) /\ Home(r) = p /\ req[r].ses > s => r \in passed \/ prb[p].pending
    BY DEF CompletedOf, Home
  <2> HIDE DEF passed
  <2>5. /\ Emptied'
        /\ \A t \in Sessions : Open(t)' => Open(t) /\ ses'[t].home = ses[t].home
        /\ \A r \in Requests : Completed(r)' /\ r \notin stranded' =>
             Same(r) /\ req[r].ses \notin {s} /\ r \notin passed
    BY <2>1, <2>2, DeletedDue
  <2>6. ASSUME NEW r \in Requests, Completed(r)', r \notin stranded', Home(r) = p, req[r].ses >= s
        PROVE  prb[p].pending
    <3>1. Same(r) /\ req[r].ses # s /\ r \notin passed /\ Completed(r)
      BY <2>5, <2>6 DEF Same
    <3>2. req[r].ses \in Nat /\ s \in Nat
      BY <1>2, <3>1, CompletedUsed DEF DueInv, Sessions
    <3> QED
      BY <2>4, <2>6, <3>1, <3>2
  <2> QED
    BY <1>5, <2>3, <2>5, <2>6
<1>7. CASE ~ses[s].purge
  <2> DEFINE S == {q \in SessionsOf(p) : q >= s}
  <2>1. Scan(p, S) /\ UNCHANGED evnt /\ S \in SUBSET SessionsOf(p)
    BY <1>7 DEF Return
  <2>2. \A r \in Requests : Same(r) /\ Home(r) = p /\ req[r].ses >= s => req[r].ses \in S
    BY CompletedUsed DEF DueInv, SessionsOf, Home, Same
  <2> HIDE DEF S
  <2>3. /\ Emptied'
        /\ \A t \in Sessions : ses'[t].state = ses[t].state /\ ses'[t].home = ses[t].home
        /\ \A q \in Procs : q # p => watcher'[q] = watcher[q]
        /\ \A r \in Requests : Completed(r)' /\ r \notin stranded' =>
             /\ Same(r)
             /\ req[r].ses \in S => watcher'[p].pc = "callback" /\ req[r].ses >= watcher'[p].ses
    BY <2>1, ScanDue
  <2>4. \A t \in Sessions : Open(t)' => Open(t) /\ ses'[t].home = ses[t].home
    BY <2>3 DEF Open
  <2> QED
    BY <1>5, <2>2, <2>3, <2>4
<1> QED
  BY <1>6, <1>7

\* A process dies; if nobody else is about to call deliverEvents the completed
\* requests of the processes it has marked are stranded.
LEMMA CrashDue ==
  ASSUME IInv, DueInv, NEW p \in Procs, Crash(p)
  PROVE  DueInv'
<1>1. /\ prb' = [prb EXCEPT ![p].state = "dead"]
      /\ watcher' = [watcher EXCEPT ![p] = [pc |-> "none", ses |-> 0]]
      /\ due' = due \ {p} /\ probing' = [probing EXCEPT ![p] = {}]
      /\ stranded' = stranded \union IF due = {p} THEN UNION {CompletedOf(q) : q \in {q \in Procs : prb[q].wakeup}}
                                     ELSE {}
      /\ UNCHANGED <<evnt, ses, req, hist, told>>
  BY DEF Crash
<1>2. /\ \A q \in Procs : q # p => prb'[q] = prb[q] /\ watcher'[q] = watcher[q] /\ probing'[q] = probing[q]
      /\ prb'[p].state = "dead" /\ prb'[p].pending = prb[p].pending /\ prb'[p].posted = prb[p].posted
      /\ probing'[p] = {}
  BY <1>1 DEF IInv, ProcInv, ProcType
<1>3. Emptied' /\ Homes'
  BY <1>1, <1>2 DEF Emptied, Homes, DueInv, Open, Used
<1>4. Marked'
  BY <1>2 DEF Marked, DueInv
<1>5. ASSUME NEW r \in Requests, Completed(r)', r \notin stranded', Live(Home(r))'
      PROVE  OnItsWay(r)'
  <2>1. Same(r)
    BY <1>1, <1>5 DEF Same, Completed, Home
  <2>2. Home(r) \in Procs
    BY <2>1, CompletedUsed DEF DueInv, Same
  <2>3. Home(r) # p
    BY <1>2, <1>5, <2>1 DEF Same, Live
  <2>4. OnItsWay(r)
    BY <1>2, <1>5, <2>1, <2>2, <2>3, SameDue DEF Same, Live
  <2>5. due = {p} => ~prb[Home(r)].wakeup
    <3> SUFFICES ASSUME due = {p}, prb[Home(r)].wakeup PROVE FALSE
      OBVIOUS
    <3>1. r \in CompletedOf(Home(r))
      BY <2>1 DEF CompletedOf, Same, Home
    <3> QED
      BY <1>1, <1>5, <2>2, <3>1
  <2>6. due # {p} /\ due # {} => due' # {}
    BY <1>1
  <2> QED
    BY <1>2, <2>1, <2>2, <2>3, <2>4, <2>5, <2>6 DEF OnItsWay, Same
<1> QED
  BY <1>3, <1>4, <1>5, DueByRequest DEF DueInv

\* Steps of clients: no process comes or goes, those that were marked stay so.
LEMMA ClientDue ==
  ASSUME IInv, DueInv, Emptied', UNCHANGED <<watcher, probing>>,
         \A s \in Sessions : Open(s)' => \/ Open(s) /\ ses'[s].home = ses[s].home
                                         \/ ses'[s].home \in Procs /\ Live(ses'[s].home),
         \A q \in Procs : /\ prb'[q].state = prb[q].state
                          /\ prb[q].pending => prb'[q].pending
                          /\ prb'[q].posted = prb[q].posted \/ prb'[q].posted
                          /\ prb'[q].pending => prb'[q].posted
                          /\ prb[q].wakeup /\ due # {} => (prb'[q].wakeup /\ due' # {}) \/ prb'[q].pending,
         \A r \in Requests : Completed(r)' /\ r \notin stranded' /\ Live(Home(r))' => Same(r) \/ OnItsWay(r)'
  PROVE  DueInv'
<1>1. Homes'
  BY DEF Homes, DueInv, Open, Live
<1>2. Marked'
  BY DEF Marked, DueInv
<1>3. ASSUME NEW r \in Requests, Completed(r)', r \notin stranded', Live(Home(r))', Same(r)
      PROVE  OnItsWay(r)'
  <2>1. Home(r) \in Procs
    BY <1>3, CompletedUsed DEF DueInv, Same
  <2>2. OnItsWay(r)
    BY <1>3, <2>1, SameDue DEF Live, Same
  <2> QED
    BY <1>3, <2>1, <2>2 DEF OnItsWay, Same
<1> QED
  BY <1>1, <1>2, <1>3, DueByRequest DEF DueInv

\* createSession: a new session has no requests.
LEMMA CreateSessionDue ==
  ASSUME IInv, DueInv, NEW p \in Procs, NEW s \in Sessions, CreateSession(p, s)
  PROVE  DueInv'
<1>1. /\ Live(p) /\ ses[s].state = "none"
      /\ ses' = [ses EXCEPT ![s] = [home |-> p, state |-> "open", delivering |-> FALSE, purge |-> FALSE]]
      /\ UNCHANGED <<evnt, prb, req, hist, watcher, due, probing, told, stranded, crashes>>
  BY DEF CreateSession
<1>2. ses'[s].home = p /\ \A t \in Sessions \ {s} : ses'[t] = ses[t]
  BY <1>1 DEF IInv, TableInv, TableType
<1>3. Emptied'
  BY <1>1 DEF Emptied, DueInv, Used
<1>4. \A t \in Sessions : Open(t)' => \/ Open(t) /\ ses'[t].home = ses[t].home
                                      \/ ses'[t].home \in Procs /\ Live(ses'[t].home)
  BY <1>1, <1>2 DEF Open
<1>5. ASSUME NEW r \in Requests, Completed(r)', r \notin stranded'
      PROVE  Same(r)
  <2>1. Completed(r) /\ r \notin stranded
    BY <1>1, <1>5 DEF Completed
  <2>2. req[r].ses \in Sessions /\ req[r].ses # s
    BY <1>1, <2>1, CompletedUsed DEF DueInv, Open
  <2> QED
    BY <1>1, <1>2, <2>1, <2>2 DEF Same, Home
<1> QED
  BY <1>1, <1>3, <1>4, <1>5, ClientDue DEF DueInv, Marked

\* queEvents: a new request that is completed at once has its process marked.
LEMMA QueEventsDue ==
  ASSUME IInv, DueInv, NEW s \in Sessions, NEW r \in Requests, NEW E \in SUBSET Events, QueEvents(s, r, E)
  PROVE  DueInv'
<1> DEFINE p == ses[s].home
<1>1. /\ Open(s) /\ Live(p)
      /\ req' = [req EXCEPT ![r] = [ses |-> s, counts |-> [e \in E |-> told[s][e]]]]
      /\ evnt' = [e \in Events |-> IF e \in E /\ evnt[e] = NoEvent THEN 0 ELSE evnt[e]]
      /\ prb' = IF \E e \in E : told[s][e] <= evnt'[e] THEN [prb EXCEPT ![p] = Posted(@)] ELSE prb
      /\ UNCHANGED <<ses, watcher, due, probing, told, stranded, crashes>>
  BY DEF QueEvents
<1>2. p \in Procs
  BY <1>1 DEF DueInv, Homes
<1>3. /\ req'[r].ses = s /\ DOMAIN req'[r].counts = E /\ \A e \in E : req'[r].counts[e] = told[s][e]
      /\ \A q \in Requests : q # r => req'[q] = req[q]
  <2> DEFINE counts == [e \in E |-> told[s][e]]
             block == [ses |-> s, counts |-> counts]
  <2>1. req' = [req EXCEPT ![r] = block]
    BY <1>1
  <2>2. block.ses = s /\ block.counts = counts /\ DOMAIN counts = E /\ \A e \in E : counts[e] = told[s][e]
    OBVIOUS
  <2> HIDE DEF block, counts
  <2>3. req'[r] = block /\ \A q \in Requests : q # r => req'[q] = req[q]
    BY <2>1 DEF IInv, TableInv, Shape
  <2> QED
    BY <2>2, <2>3
<1>4. Emptied'
  BY <1>3 DEF Emptied, DueInv, Used
<1>5. /\ \A q \in Procs : prb'[q] = prb[q] \/ prb'[q] = Posted(prb[q])
      /\ (\E e \in E : told[s][e] <= evnt'[e]) => prb'[p] = Posted(prb[p])
  <2> HIDE DEF p
  <2> DEFINE now == \E e \in E : told[s][e] <= evnt'[e]
  <2>1. prb' = IF now THEN [prb EXCEPT ![p] = Posted(@)] ELSE prb
    BY <1>1
  <2>2. prb \in [Procs -> [state : {"none", "live", "dead", "deleted"},
                          wakeup : BOOLEAN, pending : BOOLEAN, posted : BOOLEAN]]
    BY DEF IInv, ProcInv, ProcType
  <2> HIDE DEF now
  <2>3. now => prb' = [prb EXCEPT ![p] = Posted(@)]
    BY <2>1
  <2>4. ~now => prb' = prb
    BY <2>1
  <2>5. (\A q \in Procs : prb'[q] = prb[q] \/ prb'[q] = Posted(prb[q])) /\ (now => prb'[p] = Posted(prb[p]))
    BY <1>2, <2>2, <2>3, <2>4
  <2> QED
    BY <2>5 DEF now
<1>6. \A q \in Procs : /\ prb'[q].state = prb[q].state
                       /\ prb[q].pending => prb'[q].pending
                       /\ prb'[q].posted = prb[q].posted \/ prb'[q].posted
                       /\ prb'[q].pending => prb'[q].posted
                       /\ prb[q].wakeup => prb'[q].wakeup \/ prb'[q].pending
  <2> TAKE q \in Procs
  <2>1. CASE prb'[q] = prb[q]
    BY <2>1 DEF DueInv, Marked
  <2>2. CASE prb'[q] = Posted(prb[q])
    BY <2>2 DEF Posted
  <2> QED
    BY <1>5, <2>1, <2>2
<1>7. ASSUME NEW q \in Requests, q # r, Completed(q)', q \notin stranded'
      PROVE  Same(q)
  <2>1. req'[q] = req[q]
    BY <1>3, <1>7
  <2>2. PICK e \in DOMAIN req[q].counts : req[q].counts[e] <= evnt'[e]
    BY <1>7, <2>1 DEF Completed
  <2>3. e \in Events /\ Used(q)
    BY DEF IInv, TableInv, TableType, DueInv, Emptied
  <2>4. evnt[e] # NoEvent
    BY <2>3 DEF IInv, TableInv, EventsMatchInterests, Interested, RequestsOf, Used
  <2>5. Completed(q)
    BY <1>1, <2>2, <2>3, <2>4 DEF Completed
  <2> QED
    BY <1>1, <1>7, <2>1, <2>5 DEF Same, Home
<1>8. ASSUME Completed(r)'
      PROVE  OnItsWay(r)'
  <2>1. \E e \in E : told[s][e] <= evnt'[e]
    BY <1>3, <1>8 DEF Completed
  <2>2. Home(r)' = p
    BY <1>1, <1>3 DEF Home
  <2> QED
    BY <1>5, <2>1, <2>2 DEF OnItsWay, Posted
<1>9. \A t \in Sessions : Open(t)' => Open(t) /\ ses'[t].home = ses[t].home
  BY <1>1 DEF Open
<1> QED
  BY <1>1, <1>4, <1>6, <1>7, <1>8, <1>9, ClientDue

\* postEvent: whatever it completes belongs to a process that is marked.
LEMMA CountDue ==
  ASSUME IInv, DueInv, NEW p \in Procs, NEW e \in Events, PostEvent(p, e), Count(e)
  PROVE  DueInv'
<1> DEFINE completed == {x \in Requests : e \in DOMAIN req[x].counts /\ req[x].counts[e] <= evnt'[e]}
           woken(q) == \E x \in completed : ses[req[x].ses].home = q
<1>1. /\ evnt' = [evnt EXCEPT ![e] = @ + 1]
      /\ prb' = [q \in Procs |-> IF woken(q) THEN [prb[q] EXCEPT !.wakeup = TRUE] ELSE prb[q]]
      /\ due' = due \union {p}
      /\ UNCHANGED <<ses, req, hist, watcher, probing, told, stranded, crashes>>
  BY DEF PostEvent, Count
<1>2. Emptied'
  BY <1>1 DEF Emptied, DueInv, Used
<1>3. ASSUME NEW r \in Requests, Completed(r)', r \notin stranded', ~(r \in completed)
      PROVE  Same(r)
  <2>1. PICK x \in DOMAIN req[r].counts : req[r].counts[x] <= evnt'[x]
    BY <1>1, <1>3 DEF Completed
  <2>2. x \in Events /\ x # e
    BY <1>3, <2>1 DEF IInv, TableInv, TableType
  <2>3. evnt'[x] = evnt[x]
    BY <1>1, <2>2 DEF IInv, TableInv, TableType
  <2> QED
    BY <1>1, <1>3, <2>1, <2>3 DEF Same, Home, Completed
<1>4. ASSUME NEW r \in Requests, Completed(r)', r \in completed
      PROVE  OnItsWay(r)'
  <2>1. Home(r) \in Procs /\ Home(r)' = Home(r)
    BY <1>1, <1>4 DEF Home, IInv, TableInv, TableType, DueInv, Homes, Emptied, Used
  <2>2. woken(Home(r))
    BY <1>4 DEF Home
  <2> HIDE DEF woken, completed
  <2>3. prb'[Home(r)].wakeup
    BY <1>1, <2>1, <2>2 DEF IInv, ProcInv, ProcType
  <2> QED
    BY <1>1, <2>1, <2>3 DEF OnItsWay
<1> HIDE DEF woken, completed
<1>5. \A q \in Procs : /\ prb'[q].state = prb[q].state
                       /\ prb'[q].pending = prb[q].pending /\ prb'[q].posted = prb[q].posted
                       /\ prb[q].wakeup => prb'[q].wakeup
  BY <1>1 DEF IInv, ProcInv, ProcType
<1>6. /\ \A q \in Procs : prb'[q].pending => prb'[q].posted
      /\ \A t \in Sessions : Open(t)' => Open(t) /\ ses'[t].home = ses[t].home
  BY <1>1, <1>5 DEF Open, DueInv, Marked
<1> QED
  BY <1>1, <1>2, <1>3, <1>4, <1>5, <1>6, ClientDue

\* Where nobody has an interest it completes nothing.
LEMMA PostEventDue ==
  ASSUME IInv, DueInv, NEW p \in Procs, NEW e \in Events, PostEvent(p, e)
  PROVE  DueInv'
<1>1. CASE Count(e)
  BY <1>1, CountDue
<1>2. CASE UNCHANGED <<evnt, prb>>
  <2>1. /\ UNCHANGED <<evnt, prb, ses, req, hist, watcher, probing, told, stranded, crashes>>
        /\ due' = due \union {p}
    BY <1>2 DEF PostEvent
  <2>2. \A q \in Procs : prb'[q] = prb[q] /\ (prb[q].pending => prb[q].posted)
    BY <2>1 DEF DueInv, Marked
  <2>3. Emptied' /\ \A t \in Sessions : Open(t)' => Open(t) /\ ses'[t].home = ses[t].home
    BY <2>1 DEF Emptied, DueInv, Used, Open
  <2>4. \A r \in Requests : Completed(r)' /\ r \notin stranded' => Same(r)
    BY <2>1 DEF Same, Home, Completed
  <2> QED
    BY <2>1, <2>2, <2>3, <2>4, ClientDue
<1> QED
  BY <1>1, <1>2 DEF PostEvent

\* deliverEvents passes the mark on.
LEMMA DeliverEventsDue ==
  ASSUME IInv, DueInv, NEW p \in Procs, DeliverEvents(p)
  PROVE  DueInv'
<1>1. /\ prb' = [q \in Procs |-> IF prb[q].wakeup THEN Posted(prb[q]) ELSE prb[q]]
      /\ UNCHANGED <<evnt, ses, req, hist, watcher, probing, told, stranded, crashes>>
  BY DEF DeliverEvents
<1>2. \A q \in Procs : /\ prb'[q].state = prb[q].state
                       /\ prb[q].pending => prb'[q].pending
                       /\ prb'[q].posted = prb[q].posted \/ prb'[q].posted
                       /\ prb'[q].pending => prb'[q].posted
                       /\ prb[q].wakeup => prb'[q].pending
  BY <1>1 DEF Posted, DueInv, Marked
<1>3. Emptied' /\ \A t \in Sessions : Open(t)' => Open(t) /\ ses'[t].home = ses[t].home
  BY <1>1 DEF Emptied, DueInv, Used, Open
<1>4. \A r \in Requests : Completed(r)' /\ r \notin stranded' => Same(r)
  BY <1>1 DEF Same, Home, Completed
<1> QED
  BY <1>1, <1>2, <1>3, <1>4, ClientDue

\* cancelEvents
LEMMA CancelEventsDue ==
  ASSUME IInv, DueInv, NEW r \in Requests, CancelEvents(r)
  PROVE  DueInv'
<1>1. Dropped(r) /\ UNCHANGED <<evnt, prb, ses, watcher, due, probing, told, crashes>>
  BY DEF CancelEvents
<1>2. Emptied' /\ \A q \in Requests : Completed(q)' /\ q \notin stranded' => Same(q)
  BY <1>1, DroppedDue
<1>3. \A t \in Sessions : Open(t)' => Open(t) /\ ses'[t].home = ses[t].home
  BY <1>1 DEF Open
<1> QED
  BY <1>1, <1>2, <1>3, ClientDue DEF DueInv, Marked

\* An empty table has no requests.
LEMMA InitDue == Init => DueInv
<1> SUFFICES ASSUME Init PROVE DueInv
  OBVIOUS
<1>1. \A r \in Requests : DOMAIN req[r].counts = {}
  <2>1. DOMAIN <<>> = {}
    OBVIOUS
  <2> QED
    BY <2>1 DEF Init, NoRequest
<1>2. Emptied /\ CompletedIsDue
  BY <1>1 DEF Emptied, CompletedIsDue, Completed
<1>3. Homes /\ Marked
  BY DEF Init, Homes, Marked, Open, NoSession, NoProcess
<1> QED
  BY <1>2, <1>3 DEF DueInv

\* Every step keeps it.
LEMMA NextDue == IInv /\ DueInv /\ [Next]_vars => DueInv'
<1> SUFFICES ASSUME IInv, DueInv, [Next]_vars PROVE DueInv'
  OBVIOUS
<1>1. ASSUME UNCHANGED vars PROVE DueInv'
  <2>1. UNCHANGED <<evnt, ses, req, stranded, prb, watcher, due, probing>>
    BY <1>1 DEF vars, table
  <2>2. Emptied' /\ Homes' /\ Marked'
    BY <2>1 DEF DueInv, Emptied, Homes, Marked, Open, Used
  <2>3. CompletedIsDue'
    BY <2>1 DEF DueInv, CompletedIsDue, Completed, Live
  <2> QED
    BY <2>2, <2>3 DEF DueInv
<1> QED
  BY <1>1, CreateProcessDue, CreateSessionDue, ProbeDue, PostEventDue, DeliverEventsDue, TurnDue, ReturnDue,
     CrashDue, ShutdownDue, DeleteSessionDue, QueEventsDue, CancelEventsDue DEF Next

\* A completed request is on its way to its client, but for those of stranded:
\* nothing else that clients, watchers, dying processes and those that probe them
\* do loses sight of it (postEvent, deliverEvents, deliver).
THEOREM NoDeliveryForgotten == Spec => []CompletedIsDue
<1>1. DueInv => CompletedIsDue
  BY DEF DueInv
<1> QED
  BY <1>1, InitDue, NextDue, Invariant, PTL DEF Spec
=============================================================================
