-------------------------- MODULE LiveSessionsProofs --------------------------
(***************************************************************************)
(* TLAPS proofs about LiveSessions, for any sessions and page loads, any   *)
(* capacity of the channels, any number of broken streams and any faults.  *)
(***************************************************************************)
EXTENDS LiveSessions, SequenceTheorems, TLAPS

(***************************************************************************)
(* The inductive invariant.                                                *)
(***************************************************************************)

\* The functions TypeOK only says the values of.
ShapeInv ==
  /\ mu \in [Session -> Session \cup {Free}]
  /\ chan \in [Page -> Seq(Event)]

\* A session that was started is active until it is stopped, and only then has a goroutine.
SessionInv ==
  /\ started = sessions \cup cancelled
  /\ \A s \in Session : pc[s] = "none" <=> s \notin started

\* A list holds sm.mu from its first to its last session; a page lists once, after it loaded.
ListInv ==
  \A p \in Page :
    /\ list[p].at = "visit" <=> smmu = p
    /\ list[p].at # "visit" => list[p].todo = {}
    /\ \A snap \in list[p].seen : snap.id \in started
    /\ page[p] = "new" => list[p] = Idle

\* Only the stop that took a session out of the map broadcasts its removal.
StopInv ==
  /\ \A p \in Page : stop[p].at = "send" => stop[p].id \in cancelled
  /\ \A p, q \in Page : stop[p].at = "send" /\ stop[q] = stop[p] => p = q

\* What is in a channel is about sessions that were started, and a removal in it was broadcast.
ChanInv ==
  \A p \in Page : \A k \in 1 .. Len(chan[p]) :
    /\ chan[p][k][2] \in started
    /\ chan[p][k][1] = "remove" => chan[p][k][2] \in Removed

\* The tick of a session that is gone is not the last word about it: its removal follows in
\* the channel or has yet to be broadcast, or the page is excused for the card it will draw.
Answered(p, s, k) ==
  \/ BeingStopped(s) \/ s \in excused[p]
  \/ \E j \in k + 1 .. Len(chan[p]) : chan[p][j] = <<"remove", s>>

TickInv ==
  \A p \in Page : \A k \in 1 .. Len(chan[p]) :
    chan[p][k][1] = "tick" /\ chan[p][k][2] \notin sessions => Answered(p, chan[p][k][2], k)

IInv ==
  /\ ShapeInv /\ SnapshotsAreWhole /\ SessionInv /\ ListInv
  /\ StopInv /\ ChanInv /\ TickInv /\ GhostsExplained

(***************************************************************************)
(* Lemmas about the operators.                                             *)
(***************************************************************************)

\* What is in a sequence has a position in it.
LEMMA PositionIn ==
  ASSUME NEW S, NEW q \in Seq(S), NEW e
  PROVE  e \in Range(q) <=> \E k \in 1 .. Len(q) : q[k] = e
<1>1. Range(q) = {q[i] : i \in 1 .. Len(q)}
  BY RangeEquality
<1>2. QED
  BY <1>1

\* A broadcast puts its event behind what the channels with room hold.
LEMMA BroadcastPuts ==
  ASSUME ShapeInv, NEW kind \in {"tick", "remove"}, NEW s \in Session, Broadcast(kind, s),
         NEW p \in Page
  PROVE  /\ chan'[p] \in Seq(Event)
         /\ Gets(p) => /\ Len(chan'[p]) = Len(chan[p]) + 1
                       /\ chan'[p][Len(chan[p]) + 1] = <<kind, s>>
                       /\ \A k \in 1 .. Len(chan[p]) : chan'[p][k] = chan[p][k]
         /\ ~Gets(p) => chan'[p] = chan[p]
<1>1. <<kind, s>> \in Event /\ chan[p] \in Seq(Event)
  BY DEF Event, ShapeInv
<1>2. chan'[p] = IF Gets(p) THEN Append(chan[p], <<kind, s>>) ELSE chan[p]
  BY DEF Broadcast, PutLast
<1>3. QED
  BY <1>1, <1>2, AppendProperties

\* The stops under way, field by field.
StopType == [at : {"idle", "ask", "send", "answer"}, id : Session \cup {Free}]

LEMMA SendsFields ==
  ASSUME NEW r \in StopType, NEW s
  PROVE  r = [at |-> "send", id |-> s] <=> r.at = "send" /\ r.id = s
BY DEF StopType

\* What a step does to the stops: at most one of them goes on, is asked for or ends.
LEMMA StopChange ==
  ASSUME TypeOK, [Next]_vars
  PROVE  /\ stop' \in [Page -> StopType]
         /\ \/ UNCHANGED <<stop, cancelled>>
            \/ /\ UNCHANGED cancelled
               /\ \E p \in Page : /\ stop'[p].at \in {"ask", "answer", "idle"}
                                  /\ \A q \in Page \ {p} : stop'[q] = stop[q]
            \/ \E p \in Page, s \in sessions :
                 /\ stop'[p].at = "send" /\ stop'[p].id = s
                 /\ \A q \in Page \ {p} : stop'[q] = stop[q]
                 /\ cancelled' = cancelled \cup {s}
<1> DEFINE Goal ==
      /\ stop' \in [Page -> StopType]
      /\ \/ UNCHANGED <<stop, cancelled>>
         \/ /\ UNCHANGED cancelled
            /\ \E p \in Page : /\ stop'[p].at \in {"ask", "answer", "idle"}
                               /\ \A q \in Page \ {p} : stop'[q] = stop[q]
         \/ \E p \in Page, s \in sessions :
              /\ stop'[p].at = "send" /\ stop'[p].id = s
              /\ \A q \in Page \ {p} : stop'[q] = stop[q]
              /\ cancelled' = cancelled \cup {s}
<1>t. stop \in [Page -> StopType]
  BY DEF TypeOK, StopType
<1>1. CASE UNCHANGED <<stop, cancelled>>
  BY <1>1, <1>t
<1>2. ASSUME NEW p \in Page, StopTakes(p) PROVE Goal
  <2>1. CASE stop[p].id \in sessions
    <3>1. stop' = [stop EXCEPT ![p] = [at |-> "send", id |-> stop[p].id]]
      BY <1>2, <2>1, <1>t DEF StopTakes, StopType
    <3>2. /\ stop'[p].at = "send" /\ stop'[p].id = stop[p].id
          /\ \A q \in Page \ {p} : stop'[q] = stop[q]
      BY <3>1, <1>t
    <3>3. stop' \in [Page -> StopType]
      BY <3>1, <1>t DEF StopType
    <3>4. QED
      BY <1>2, <2>1, <3>2, <3>3 DEF StopTakes, Cancel
  <2>2. CASE stop[p].id \notin sessions
    <3>1. stop' = [stop EXCEPT ![p] = [at |-> "answer", id |-> stop[p].id]]
      BY <1>2, <2>2, <1>t DEF StopTakes, StopType
    <3>2. stop'[p].at = "answer" /\ \A q \in Page \ {p} : stop'[q] = stop[q]
      BY <3>1, <1>t
    <3>3. stop' \in [Page -> StopType]
      BY <3>1, <1>t DEF StopType
    <3>4. QED
      BY <1>2, <2>2, <3>2, <3>3 DEF StopTakes
  <2>3. QED
    BY <2>1, <2>2
<1>3. ASSUME NEW p \in Page, StopSends(p) PROVE Goal
  <2>1. stop' = [stop EXCEPT ![p] = [at |-> "answer", id |-> stop[p].id]]
    <3>1. stop' = [stop EXCEPT ![p].at = "answer"]
      BY <1>3 DEF StopSends
    <3>2. stop[p] \in StopType
      BY <1>t
    <3>3. [stop[p] EXCEPT !.at = "answer"] = [at |-> "answer", id |-> stop[p].id]
      BY <3>2 DEF StopType
    <3>4. QED
      BY <3>1, <3>3, Zenon
  <2>2. stop'[p].at = "answer" /\ \A q \in Page \ {p} : stop'[q] = stop[q]
    BY <2>1, <1>t
  <2>3. stop' \in [Page -> StopType]
    BY <2>1, <1>t DEF StopType
  <2>4. QED
    BY <1>3, <2>2, <2>3 DEF StopSends, manager
<1>4. ASSUME NEW p \in Page, NEW s \in Session, ClickStop(p, s) PROVE Goal
  <2>1. stop' = [stop EXCEPT ![p] = [at |-> "ask", id |-> s]] /\ UNCHANGED cancelled
    BY <1>4 DEF ClickStop, manager
  <2>2. stop'[p].at = "ask" /\ \A q \in Page \ {p} : stop'[q] = stop[q]
    BY <2>1, <1>t
  <2>3. stop' \in [Page -> StopType]
    BY <2>1, <1>t DEF StopType
  <2>4. QED
    BY <2>1, <2>2, <2>3
<1>5. ASSUME NEW p \in Page, StopAnswered(p) PROVE Goal
  <2>1. stop' = [stop EXCEPT ![p] = [at |-> "idle", id |-> Free]] /\ UNCHANGED cancelled
    BY <1>5 DEF StopAnswered, NoStop, manager
  <2>2. stop'[p].at = "idle" /\ \A q \in Page \ {p} : stop'[q] = stop[q]
    BY <2>1, <1>t
  <2>3. stop' \in [Page -> StopType]
    BY <2>1, <1>t DEF StopType
  <2>4. QED
    BY <2>1, <2>2, <2>3
<1>6. QED
  BY <1>1, <1>2, <1>3, <1>4, <1>5
  DEF Next, Goroutine, Handler, Browser, vars, manager, handler, browser, Start, FetchFails,
      Fetch, PythonEnds, Panic, ApplyPrice, ApplyTrade, Mark, SendTick, SelectTick, SelectDone,
      ListLocks, ListVisits, ListUnlocks, Load, Connect, Disconnect, Close, Receive, RenderList

\* A removal that was broadcast stays so, and a stop under way either goes on or broadcasts.
LEMMA RemovedGrows ==
  ASSUME TypeOK, [Next]_vars
  PROVE  Removed \subseteq Removed'
<1> SUFFICES ASSUME NEW s \in Removed PROVE s \in Removed'
  OBVIOUS
<1>t. stop \in [Page -> StopType] /\ stop' \in [Page -> StopType]
  BY StopChange DEF TypeOK, StopType
<1>1. /\ s \in cancelled /\ s \notin sessions
      /\ \A p \in Page : ~(stop[p].at = "send" /\ stop[p].id = s)
  BY <1>t, SendsFields DEF Removed, TypeOK
<1>2. s \in cancelled' /\ \A p \in Page : ~(stop'[p].at = "send" /\ stop'[p].id = s)
  BY <1>1, StopChange
<1>3. QED
  BY <1>2, <1>t, SendsFields DEF Removed

(***************************************************************************)
(* The inductive invariant is one.                                         *)
(***************************************************************************)
LEMMA InitIInv == Init => IInv
<1> SUFFICES ASSUME Init PROVE IInv
  OBVIOUS
<1> USE DEF Init
<1>1. \A p \in Page : Len(chan[p]) = 0 /\ chan[p] \in Seq(Event)
  OBVIOUS
<1>2. ShapeInv
  BY <1>1 DEF ShapeInv
<1>3. SnapshotsAreWhole
  <2>1. \A s \in Session : mu[s] = (IF pc[s] \in {"python", "apply", "book"} THEN s ELSE Free)
    OBVIOUS
  <2>2. list \in [Page -> [at : {"idle", "ask", "visit", "reply"}, todo : SUBSET sessions,
                           seen : SUBSET Snapshot]]
    BY DEF Idle
  <2>3. stop \in [Page -> [at : {"idle", "ask", "send", "answer"}, id : Session \cup {Free}]]
    BY DEF NoStop
  <2>4. \A p \in Page : chan[p] \in Seq(Event) /\ Len(chan[p]) <= ChanSize
    BY <1>1, LiveSessionsAssumption
  <2>5. drops \in 0 .. MaxDrop
    BY LiveSessionsAssumption
  <2>6. TypeOK
    BY <2>1, <2>2, <2>3, <2>4, <2>5 DEF TypeOK, Control
  <2>7. QED
    BY <2>6 DEF SnapshotsAreWhole, Idle
<1>4. SessionInv /\ ListInv
  BY LiveSessionsAssumption DEF SessionInv, ListInv, Idle
<1>5. StopInv
  BY DEF StopInv, NoStop
<1>6. ChanInv /\ TickInv
  BY <1>1 DEF ChanInv, TickInv
<1>7. GhostsExplained
  BY DEF GhostsExplained
<1>8. QED
  BY <1>2, <1>3, <1>4, <1>5, <1>6, <1>7 DEF IInv

\* What a step may do to the channels.
LEMMA ChanChange ==
  ASSUME TypeOK, ShapeInv, SessionInv, StopInv, [Next]_vars
  PROVE  \/ UNCHANGED chan
         \/ \E s \in Session : SendTick(s) /\ s \in started
         \/ \E p \in Page : StopSends(p) /\ stop[p].id \in cancelled /\ stop[p].at = "send"
         \/ \E p \in Page : (Disconnect(p) \/ Close(p)) /\ HangUp(p)
         \/ \E p \in Page : Receive(p)
<1>1. ASSUME NEW s \in Session, SendTick(s) PROVE s \in started
  BY <1>1 DEF SendTick, Go, SessionInv
<1>2. ASSUME NEW p \in Page, StopSends(p) PROVE stop[p].id \in cancelled /\ stop[p].at = "send"
  BY <1>2 DEF StopSends, StopInv
<1>3. ASSUME NEW p \in Page, Disconnect(p) \/ Close(p) PROVE HangUp(p)
  BY <1>3 DEF Disconnect, Close
<1>4. QED
  BY <1>1, <1>2, <1>3
  DEF Next, Goroutine, Handler, Browser, vars, manager, handler, browser, Start, FetchFails,
      Fetch, PythonEnds, Panic, ApplyPrice, ApplyTrade, Mark, SelectTick, SelectDone,
      ListLocks, ListVisits, ListUnlocks, StopTakes, Load, Connect, RenderList, ClickStop,
      StopAnswered

\* Both mutexes and channels keep their domains.
LEMMA ShapeStep ==
  ASSUME TypeOK, ShapeInv, SessionInv, StopInv, [Next]_vars
  PROVE  ShapeInv'
<1>1. mu' \in [Session -> Session \cup {Free}]
  <2>1. CASE UNCHANGED mu
    BY <2>1 DEF ShapeInv
  <2>2. ASSUME NEW s \in Session, Fetch(s) \/ ApplyTrade(s)
        PROVE  mu' \in [Session -> Session \cup {Free}]
    BY <2>2 DEF Fetch, ApplyTrade, ShapeInv
  <2>3. QED
    BY <2>1, <2>2
    DEF Next, Goroutine, Handler, Browser, vars, goroutine, Start, FetchFails, PythonEnds, Panic,
        ApplyPrice, Mark, SendTick, SelectTick, SelectDone, ListLocks, ListVisits, ListUnlocks,
        StopTakes, StopSends, Load, Connect, Disconnect, Close, Receive, RenderList, ClickStop,
        StopAnswered
<1>2. chan' \in [Page -> Seq(Event)]
  <2>1. CASE UNCHANGED chan
    BY <2>1 DEF ShapeInv
  <2>2. ASSUME NEW s \in Session, NEW kind \in {"tick", "remove"}, Broadcast(kind, s)
        PROVE  chan' \in [Page -> Seq(Event)]
    <3>1. \A p \in Page : chan'[p] \in Seq(Event)
      BY <2>2, BroadcastPuts
    <3>2. \E f : chan' = [p \in Page |-> f[p]]
      <4>1. chan' = [p \in Page |-> chan'[p]]
        BY <2>2 DEF Broadcast
      <4>2. QED
        BY <4>1
    <3>3. QED
      BY <3>1, <3>2
  <2>3. ASSUME NEW s \in Session, SendTick(s) PROVE chan' \in [Page -> Seq(Event)]
    BY <2>2, <2>3 DEF SendTick
  <2>4. ASSUME NEW p \in Page, StopSends(p), stop[p].id \in cancelled
        PROVE  chan' \in [Page -> Seq(Event)]
    <3>1. stop[p].id \in Session
      BY <2>4 DEF TypeOK
    <3>2. Broadcast("remove", stop[p].id)
      BY <2>4 DEF StopSends
    <3>3. QED
      BY <2>2, <3>1, <3>2
  <2>5. ASSUME NEW p \in Page, HangUp(p) PROVE chan' \in [Page -> Seq(Event)]
    <3>1. <<>> \in Seq(Event)
      OBVIOUS
    <3>2. QED
      BY <2>5, <3>1 DEF HangUp, ShapeInv
  <2>6. ASSUME NEW p \in Page, Receive(p) PROVE chan' \in [Page -> Seq(Event)]
    <3>1. Tail(chan[p]) \in Seq(Event)
      BY <2>6, HeadTailProperties DEF Receive, ShapeInv
    <3>2. QED
      BY <2>6, <3>1 DEF Receive, ShapeInv
  <2>7. QED
    BY <2>1, <2>3, <2>4, <2>5, <2>6, ChanChange
<1>3. QED
  BY <1>1, <1>2 DEF ShapeInv

\* A session that is taken out of the map is cancelled in the same step.
LEMMA SessionStep == TypeOK /\ SessionInv /\ [Next]_vars => SessionInv'
<1> SUFFICES ASSUME TypeOK, SessionInv, [Next]_vars PROVE SessionInv'
  OBVIOUS
<1>1. CASE UNCHANGED <<manager, pc>>
  BY <1>1 DEF manager, SessionInv
<1>2. ASSUME NEW s \in Session, Start(s) PROVE SessionInv'
  BY <1>2 DEF Start, TypeOK, SessionInv
<1>3. ASSUME NEW s \in Session, NEW from \in Control \ {"none"}, NEW to \in Control \ {"none"},
             Go(s, from, to), UNCHANGED manager
      PROVE  SessionInv'
  BY <1>3 DEF Go, manager, TypeOK, SessionInv
<1>4. ASSUME NEW s \in Session, Goroutine(s) PROVE SessionInv'
  <2>1. {"fetch", "python", "apply", "book", "mark", "send", "rest", "done"} \subseteq Control \ {"none"}
    BY DEF Control
  <2>2. CASE Fetch(s)
    BY <1>3, <2>1, <2>2 DEF Fetch
  <2>3. CASE Panic(s)
    BY <1>1, <2>3 DEF Panic, goroutine
  <2>4. QED
    BY <1>3, <1>4, <2>1, <2>2, <2>3
    DEF Goroutine, FetchFails, PythonEnds, ApplyPrice, ApplyTrade, Mark, SendTick, SelectTick,
        SelectDone
<1>5. ASSUME NEW p \in Page, StopTakes(p) PROVE SessionInv'
  <2>1. UNCHANGED <<started, pc>> /\ sessions' \cup cancelled' = sessions \cup cancelled
    BY <1>5 DEF StopTakes, Cancel, goroutine
  <2>2. QED
    BY <2>1 DEF SessionInv
<1>6. QED
  BY <1>1, <1>2, <1>4, <1>5
  DEF Next, Handler, Browser, vars, goroutine, ListLocks, ListVisits, ListUnlocks, StopSends,
      Load, Connect, Disconnect, Close, Receive, RenderList, ClickStop, StopAnswered

\* Only the stop that took the session out of the map goes on to broadcast.
LEMMA StopStep == TypeOK /\ StopInv /\ [Next]_vars => StopInv'
<1> SUFFICES ASSUME TypeOK, StopInv, [Next]_vars PROVE StopInv'
  OBVIOUS
<1>t. /\ stop \in [Page -> StopType] /\ stop' \in [Page -> StopType]
      /\ sessions \cap cancelled = {}
  BY StopChange DEF TypeOK, StopType
<1>1. CASE UNCHANGED <<stop, cancelled>>
  BY <1>1 DEF StopInv
<1>2. ASSUME NEW p \in Page, stop'[p].at \in {"ask", "answer", "idle"},
             \A q \in Page \ {p} : stop'[q] = stop[q], UNCHANGED cancelled
      PROVE  StopInv'
  <2>1. \A q \in Page : stop'[q].at = "send" => q # p /\ stop'[q] = stop[q]
    BY <1>2
  <2>2. \A q \in Page : stop'[q].at = "send" => stop'[q].id \in cancelled'
    BY <1>2, <2>1 DEF StopInv
  <2>3. ASSUME NEW q \in Page, NEW r \in Page, stop'[q].at = "send", stop'[r] = stop'[q]
        PROVE  q = r
    <3>1. q # p /\ r # p
      BY <2>1, <2>3
    <3>2. stop[q].at = "send" /\ stop[r] = stop[q]
      BY <1>2, <2>3, <3>1
    <3>3. QED
      BY <3>2 DEF StopInv
  <2>4. QED
    BY <2>2, <2>3 DEF StopInv
<1>3. ASSUME NEW p \in Page, NEW s \in sessions, stop'[p].at = "send", stop'[p].id = s,
             \A q \in Page \ {p} : stop'[q] = stop[q], cancelled' = cancelled \cup {s}
      PROVE  StopInv'
  <2>1. \A q \in Page \ {p} : stop'[q].at = "send" => stop'[q].id \in cancelled /\ stop'[q].id # s
    BY <1>3, <1>t DEF StopInv
  <2>2. \A q \in Page : stop'[q].at = "send" => stop'[q].id \in cancelled'
    BY <1>3, <2>1
  <2>3. ASSUME NEW q \in Page, NEW r \in Page, stop'[q].at = "send", stop'[r] = stop'[q]
        PROVE  q = r
    <3>1. stop'[r].at = "send" /\ stop'[r].id = stop'[q].id
      BY <2>3
    <3>2. q = p <=> r = p
      BY <1>3, <2>1, <2>3, <3>1
    <3>3. CASE q # p
      <4>1. stop[q].at = "send" /\ stop[r] = stop[q]
        BY <1>3, <2>3, <3>2, <3>3
      <4>2. QED
        BY <4>1 DEF StopInv
    <3>4. QED
      BY <3>2, <3>3
  <2>4. QED
    BY <2>2, <2>3 DEF StopInv
<1>4. QED
  BY <1>1, <1>2, <1>3, StopChange

\* The lists under way, field by field.
ListType(active) ==
  [at : {"idle", "ask", "visit", "reply"}, todo : SUBSET active, seen : SUBSET Snapshot]

\* What a page's list must be, on its own.
ListOf(p, r, active, begun, holder, shown) ==
  /\ r \in ListType(active)
  /\ r.at = "visit" <=> holder = p
  /\ r.at # "visit" => r.todo = {}
  /\ \A snap \in r.seen : snap.id \in begun /\ snap.whole
  /\ shown = "new" => r = Idle

\* Start and stop wait for a list that holds sm.mu, and a list for a session inside its tick.
LEMMA ListStep ==
  ASSUME SnapshotsAreWhole, ShapeInv, SessionInv, ListInv, [Next]_vars
  PROVE  /\ list' \in [Page -> ListType(sessions')] /\ smmu' \in Page \cup {Free}
         /\ ListInv' /\ \A p \in Page : \A snap \in list'[p].seen : snap.whole
<1> DEFINE Goal ==
      /\ list' \in [Page -> ListType(sessions')] /\ smmu' \in Page \cup {Free}
      /\ \A p \in Page : ListOf(p, list'[p], sessions', started', smmu', page'[p])
<1>s. SUFFICES Goal
  BY Zenon DEF ListOf, ListInv
<1>t. /\ TypeOK /\ list \in [Page -> ListType(sessions)] /\ smmu \in Page \cup {Free}
      /\ \A p \in Page : ListOf(p, list[p], sessions, started, smmu, page[p]) /\ list[p] \in ListType(sessions)
      /\ Free \notin Page /\ page \in [Page -> {"new", "open", "gone"}]
  BY LiveSessionsAssumption DEF SnapshotsAreWhole, TypeOK, ListType, ListInv, ListOf
<1>1. CASE UNCHANGED <<list, smmu, page, sessions, started>>
  BY <1>1, <1>t DEF ListOf
<1>2. ASSUME NEW s \in Session, Start(s) PROVE Goal
  <2>1. /\ sessions \subseteq sessions' /\ started \subseteq started'
        /\ UNCHANGED <<list, smmu, page>>
    BY <1>2 DEF Start, handler, browser
  <2>2. ListType(sessions) \subseteq ListType(sessions')
    BY <2>1 DEF ListType
  <2>3. \A p \in Page : ListOf(p, list'[p], sessions', started', smmu', page'[p])
    BY <2>1, <2>2, <1>t DEF ListOf
  <2>4. QED
    BY <2>1, <2>2, <2>3, <1>t
<1>3. ASSUME NEW p \in Page, NEW r \in ListType(sessions), list' = [list EXCEPT ![p] = r],
             ListOf(p, r, sessions', started', smmu', page'[p]), smmu' \in {smmu, p, Free}, smmu' # smmu => smmu = p \/ smmu = Free,
             UNCHANGED <<sessions, started>>,
             \A q \in Page \ {p} : page'[q] = page[q]
      PROVE  Goal
  <2>1. ASSUME NEW q \in Page PROVE ListOf(q, list'[q], sessions', started', smmu', page'[q])
    <3>1. CASE q = p
      BY <1>3, <1>t, <3>1
    <3>2. CASE q # p
      <4>1. list'[q] = list[q] /\ page'[q] = page[q] /\ (smmu' = q <=> smmu = q)
        BY <1>3, <1>t, <3>2
      <4>2. QED
        BY <1>3, <1>t, <4>1 DEF ListOf
    <3>3. QED
      BY <3>1, <3>2
  <2>2. list' \in [Page -> ListType(sessions')] /\ smmu' \in Page \cup {Free}
    BY <1>3, <1>t
  <2>3. QED
    BY <2>1, <2>2
<1>4. ASSUME NEW p \in Page, ListLocks(p) PROVE Goal
  <2> DEFINE r == [at |-> "visit", todo |-> sessions, seen |-> {}]
  <2>1. /\ list[p].at = "ask" /\ smmu = Free /\ smmu' = p /\ list' = [list EXCEPT ![p] = r]
        /\ UNCHANGED <<sessions, started, page>>
    BY <1>4 DEF ListLocks, manager, browser
  <2>2. r \in ListType(sessions)
    BY DEF ListType
  <2>3. page[p] # "new"
    BY <1>t, <2>1 DEF ListOf, Idle
  <2>4. ListOf(p, r, sessions', started', smmu', page'[p])
    BY <2>1, <2>2, <2>3 DEF ListOf
  <2>5. QED
    BY <1>3, <2>1, <2>2, <2>4
<1>5. ASSUME NEW p \in Page, NEW s \in Session, ListVisits(p, s) PROVE Goal
  <2> DEFINE snap == [id |-> s, whole |-> pc[s] # "book"]
             r == [at |-> "visit", todo |-> list[p].todo \ {s}, seen |-> list[p].seen \cup {snap}]
  <2>1. /\ list[p].at = "visit" /\ s \in list[p].todo /\ mu[s] = Free
        /\ list' = [list EXCEPT ![p] = [list[p] EXCEPT !.todo = list[p].todo \ {s},
                                                       !.seen = list[p].seen \cup {snap}]]
        /\ UNCHANGED <<sessions, started, smmu, page>>
    BY <1>5 DEF ListVisits, Sees, manager, browser
  <2>2. pc[s] # "book"
    <3>1. mu[s] = (IF pc[s] \in {"python", "apply", "book"} THEN s ELSE Free)
      BY <1>t DEF TypeOK
    <3>2. s # Free
      BY LiveSessionsAssumption
    <3>3. QED
      BY <2>1, <3>1, <3>2
  <2>3. snap \in Snapshot /\ snap.id = s /\ snap.whole = TRUE
    BY <2>2 DEF Snapshot
  <2> HIDE DEF snap
  <2>4. /\ list[p] \in ListType(sessions)
        /\ list[p].todo \ {s} \in SUBSET sessions /\ list[p].seen \cup {snap} \in SUBSET Snapshot
    BY <1>t, <2>3 DEF ListType
  <2>5. list' = [list EXCEPT ![p] = r]
    <3> DEFINE x == list[p]
               a == list[p].todo \ {s}
               b == list[p].seen \cup {snap}
    <3>1. x \in ListType(sessions) /\ a \in SUBSET sessions /\ b \in SUBSET Snapshot
      BY <2>4
    <3>2. list' = [list EXCEPT ![p] = [x EXCEPT !.todo = a, !.seen = b]] /\ x.at = "visit"
      BY <2>1
    <3>3. r = [at |-> "visit", todo |-> a, seen |-> b]
      OBVIOUS
    <3> HIDE DEF x, a, b, r
    <3> DEFINE y == [x EXCEPT !.todo = a]
    <3>4. y \in ListType(sessions) /\ y.at = x.at /\ y.todo = a
      BY <3>1 DEF ListType
    <3>5. [x EXCEPT !.todo = a, !.seen = b] = [y EXCEPT !.seen = b]
      BY <3>1 DEF ListType
    <3> HIDE DEF y
    <3>6. [y EXCEPT !.seen = b] = [at |-> y.at, todo |-> y.todo, seen |-> b]
      BY <3>1, <3>4 DEF ListType
    <3>7. QED
      BY <3>2, <3>3, <3>4, <3>5, <3>6
  <2>6. s \in started
    BY <1>t, <2>1 DEF ListType, TypeOK
  <2>7. r \in ListType(sessions)
    BY <2>4 DEF ListType
  <2>8. page[p] # "new" /\ smmu = p
    BY <1>t, <2>1 DEF ListOf, Idle
  <2>9. ListOf(p, r, sessions', started', smmu', page'[p])
    <3>1. \A x \in r.seen : x.id \in started /\ x.whole
      BY <1>t, <2>3, <2>6 DEF ListOf
    <3>2. QED
      BY <2>1, <2>7, <2>8, <3>1 DEF ListOf
  <2>10. QED
    BY <1>3, <2>1, <2>5, <2>7, <2>9
<1>6. ASSUME NEW p \in Page, ListUnlocks(p) PROVE Goal
  <2> DEFINE r == [at |-> "reply", todo |-> {}, seen |-> list[p].seen]
  <2>1. /\ list[p].at = "visit" /\ list[p].todo = {} /\ smmu' = Free
        /\ list' = [list EXCEPT ![p] = [list[p] EXCEPT !.at = "reply"]]
        /\ UNCHANGED <<sessions, started, page>>
    BY <1>6 DEF ListUnlocks, Unlocked, manager, browser
  <2>2. [list[p] EXCEPT !.at = "reply"] = r /\ r \in ListType(sessions)
    <3>1. list[p] \in ListType(sessions)
      BY <1>t
    <3>2. QED
      BY <3>1, <2>1 DEF ListType
  <2>3. page[p] # "new" /\ smmu = p
    BY <1>t, <2>1 DEF ListOf, Idle
  <2>4. ListOf(p, r, sessions', started', smmu', page'[p])
    <3>1. \A x \in r.seen : x.id \in started /\ x.whole
      BY <1>t DEF ListOf
    <3>2. smmu' # p
      BY <2>1, <1>t
    <3>3. QED
      BY <2>1, <2>2, <2>3, <3>1, <3>2 DEF ListOf
  <2>5. list' = [list EXCEPT ![p] = r]
    BY <2>1, <2>2
  <2>6. QED
    BY <1>3, <2>1, <2>2, <2>3, <2>4, <2>5
<1>7. ASSUME NEW p \in Page, StopTakes(p) PROVE Goal
  <2>1. /\ smmu = Free /\ UNCHANGED <<list, smmu, page, started>>
    BY <1>7 DEF StopTakes, browser
  <2>2. ASSUME NEW q \in Page PROVE list[q] \in ListType(sessions') /\ ListOf(q, list'[q], sessions', started', smmu', page'[q])
    <3>1. list[q].todo = {} /\ list[q] \in ListType(sessions)
      BY <2>1, <1>t DEF ListOf
    <3>2. list[q] \in ListType(sessions')
      BY <3>1 DEF ListType
    <3>3. QED
      BY <2>1, <3>2, <1>t DEF ListOf
  <2>3. QED
    BY <2>1, <2>2, <1>t
<1>8. ASSUME NEW p \in Page, Load(p) PROVE Goal
  <2> DEFINE r == [at |-> "ask", todo |-> {}, seen |-> {}]
  <2>1. /\ page[p] = "new" /\ page' = [page EXCEPT ![p] = "open"]
        /\ list' = [list EXCEPT ![p] = [list[p] EXCEPT !.at = "ask"]]
        /\ UNCHANGED <<sessions, started, smmu>>
    BY <1>8 DEF Load, manager
  <2>2. list[p] = Idle /\ smmu # p
    BY <2>1, <1>t DEF ListOf, Idle
  <2>3. list' = [list EXCEPT ![p] = r]
    <3>1. [Idle EXCEPT !.at = "ask"] = r
      BY DEF Idle
    <3>2. QED
      BY <2>1, <2>2, <3>1
  <2>4. r \in ListType(sessions) /\ page'[p] # "new" /\ \A q \in Page \ {p} : page'[q] = page[q]
    BY <2>1, <1>t DEF ListType
  <2>5. ListOf(p, r, sessions', started', smmu', page'[p])
    BY <2>1, <2>2, <2>4 DEF ListOf
  <2>6. QED
    BY <1>3, <2>1, <2>3, <2>4, <2>5
<1>9. ASSUME NEW p \in Page, Close(p) PROVE Goal
  <2>1. /\ page[p] = "open" /\ page' = [page EXCEPT ![p] = "gone"]
        /\ UNCHANGED <<sessions, started, smmu, list>>
    BY <1>9 DEF Close, manager, handler
  <2>2. \A q \in Page : page'[q] = "new" => page[q] = "new"
    BY <2>1, <1>t
  <2>3. QED
    BY <2>1, <2>2, <1>t DEF ListOf
<1>10. ASSUME NEW p \in Page, RenderList(p) PROVE Goal
  <2>1. /\ list[p].at = "reply" /\ list' = [list EXCEPT ![p] = Idle]
        /\ UNCHANGED <<sessions, started, smmu, page>>
    BY <1>10 DEF RenderList, manager
  <2>2. smmu # p /\ Idle \in ListType(sessions)
    BY <2>1, <1>t DEF ListOf, ListType, Idle
  <2>3. ListOf(p, Idle, sessions', started', smmu', page'[p])
    BY <2>1, <2>2 DEF ListOf, Idle
  <2>4. QED
    BY <1>3, <2>1, <2>2, <2>3
<1>11. QED
  BY <1>1, <1>2, <1>4, <1>5, <1>6, <1>7, <1>8, <1>9, <1>10
  DEF Next, Goroutine, Handler, Browser, vars, manager, handler, browser, FetchFails, Fetch,
      PythonEnds, Panic, ApplyPrice, ApplyTrade, Mark, SendTick, SelectTick, SelectDone,
      StopSends, Connect, Disconnect, Receive, ClickStop, StopAnswered, HangUp

\* Sessions are never forgotten, and neither are the reasons for a card that stays.
LEMMA HistoryGrows ==
  ASSUME TypeOK, [Next]_vars
  PROVE  started \subseteq started' /\ \A p \in Page : excused[p] \subseteq excused'[p]
<1> DEFINE Goal == started \subseteq started' /\ \A p \in Page : excused[p] \subseteq excused'[p]
<1>t. excused \in [Page -> SUBSET Removed]
  BY DEF TypeOK
<1>1. CASE started \subseteq started' /\ UNCHANGED excused
  BY <1>1
<1>2. ASSUME NEW s \in Session, SendTick(s) PROVE Goal
  BY <1>2 DEF SendTick, manager
<1>3. ASSUME NEW p \in Page, StopSends(p) PROVE Goal
  BY <1>3 DEF StopSends, manager
<1>4. ASSUME NEW p \in Page, HangUp(p), UNCHANGED manager PROVE Goal
  BY <1>4, <1>t DEF HangUp, manager
<1>5. ASSUME NEW p \in Page, RenderList(p) PROVE Goal
  BY <1>5, <1>t DEF RenderList, manager
<1>6. QED
  BY <1>1, <1>2, <1>3, <1>4, <1>5
  DEF Next, Goroutine, Handler, Browser, vars, manager, Start, FetchFails, Fetch, PythonEnds,
      Panic, ApplyPrice, ApplyTrade, Mark, SelectTick, SelectDone, ListLocks, ListVisits,
      ListUnlocks, StopTakes, Load, Connect, Disconnect, Close, Receive, ClickStop, StopAnswered

\* A session leaves the map only into the hands of a stop that will broadcast its removal.
LEMMA GoneIsStopped ==
  ASSUME TypeOK, [Next]_vars, NEW s \in sessions, s \notin sessions'
  PROVE  BeingStopped(s)'
<1>1. PICK p \in Page : StopTakes(p)
  BY DEF Next, Goroutine, Handler, Browser, vars, manager, Start, FetchFails, Fetch, PythonEnds,
         Panic, ApplyPrice, ApplyTrade, Mark, SendTick, SelectTick, SelectDone, ListLocks,
         ListVisits, ListUnlocks, StopSends, Load, Connect, Disconnect, Close, Receive,
         RenderList, ClickStop, StopAnswered
<1>2. stop[p].id = s /\ stop' = [stop EXCEPT ![p].at = "send"]
  BY <1>1 DEF StopTakes
<1>3. stop \in [Page -> StopType] /\ stop' \in [Page -> StopType]
  BY StopChange DEF TypeOK, StopType
<1>4. stop'[p].at = "send" /\ stop'[p].id = s
  BY <1>2, <1>3 DEF StopType
<1>5. stop'[p] = [at |-> "send", id |-> s]
  BY <1>3, <1>4, SendsFields
<1>6. QED
  BY <1>5 DEF BeingStopped

\* A stop under way lasts until it has broadcast the removal.
LEMMA StoppingGoesOn ==
  ASSUME TypeOK, [Next]_vars, NEW s, BeingStopped(s)
  PROVE  BeingStopped(s)' \/ \E p \in Page : StopSends(p) /\ stop[p].id = s
<1>t. stop \in [Page -> StopType]
  BY DEF TypeOK, StopType
<1>1. PICK q \in Page : stop[q] = [at |-> "send", id |-> s]
  BY DEF BeingStopped
<1>2. stop[q].at = "send" /\ stop[q].id = s
  BY <1>1
<1>3. CASE stop'[q] = stop[q]
  BY <1>1, <1>3 DEF BeingStopped
<1>4. ASSUME NEW p \in Page, StopTakes(p) PROVE stop'[q] = stop[q]
  BY <1>2, <1>4, <1>t DEF StopTakes
<1>5. ASSUME NEW p \in Page, StopSends(p), stop[p].id # s PROVE stop'[q] = stop[q]
  BY <1>2, <1>5, <1>t DEF StopSends
<1>6. ASSUME NEW p \in Page, StopAnswered(p) PROVE stop'[q] = stop[q]
  BY <1>2, <1>6, <1>t DEF StopAnswered
<1>7. ASSUME NEW p \in Page, NEW r \in Session, ClickStop(p, r) PROVE stop'[q] = stop[q]
  BY <1>2, <1>7, <1>t DEF ClickStop
<1>8. QED
  BY <1>3, <1>4, <1>5, <1>6, <1>7
  DEF Next, Goroutine, Handler, Browser, vars, handler, Start, FetchFails, Fetch, PythonEnds,
      Panic, ApplyPrice, ApplyTrade, Mark, SendTick, SelectTick, SelectDone, ListLocks,
      ListVisits, ListUnlocks, Load, Connect, Disconnect, Close, Receive, RenderList

\* The removal is broadcast once nobody is left to broadcast it, and it reaches a page or the
\* page is excused.
LEMMA RemovalReaches ==
  ASSUME TypeOK, ShapeInv, StopInv, [Next]_vars, NEW p \in Page, StopSends(p)
  PROVE  /\ stop[p].id \in Removed'
         /\ \A q \in Page : IF Gets(q)
                             THEN /\ Len(chan'[q]) = Len(chan[q]) + 1
                                  /\ chan'[q][Len(chan[q]) + 1] = <<"remove", stop[p].id>>
                             ELSE stop[p].id \in excused'[q]
<1> DEFINE s == stop[p].id
<1>t. stop \in [Page -> StopType] /\ stop' \in [Page -> StopType]
  BY StopChange DEF TypeOK, StopType
<1>1. /\ stop[p].at = "send" /\ Broadcast("remove", s) /\ UNCHANGED cancelled
      /\ stop' = [stop EXCEPT ![p].at = "answer"]
      /\ excused' = [q \in Page |-> IF Gets(q) THEN excused[q] ELSE excused[q] \cup {s}]
  BY DEF StopSends, manager
<1>2. s \in cancelled /\ s \in Session
  BY <1>1 DEF StopInv, TypeOK
<1>3. ASSUME NEW q \in Page, stop'[q].at = "send", stop'[q].id = s PROVE FALSE
  <2>1. q # p
    BY <1>1, <1>3, <1>t DEF StopType
  <2>2. stop'[q] = stop[q]
    BY <1>1, <1>t, <2>1
  <2>3. stop[q] = [at |-> "send", id |-> s] /\ stop[p] = [at |-> "send", id |-> s]
    BY <1>1, <1>3, <1>t, <2>2, SendsFields
  <2>4. QED
    BY <1>1, <2>1, <2>3 DEF StopInv
<1>4. s \in Removed'
  BY <1>1, <1>2, <1>3, <1>t, SendsFields DEF Removed
<1> HIDE DEF s
<1>5. \A q \in Page : Gets(q) => /\ Len(chan'[q]) = Len(chan[q]) + 1
                                 /\ chan'[q][Len(chan[q]) + 1] = <<"remove", s>>
  BY <1>1, <1>2, BroadcastPuts
<1>6. \A q \in Page : ~Gets(q) => s \in excused'[q]
  BY <1>1
<1>7. QED
  BY <1>4, <1>5, <1>6 DEF s

\* What a page's channel holds stays there, except for what it receives and when it hangs up.
Extends(p) ==
  /\ Len(chan[p]) \in Nat /\ Len(chan'[p]) \in Nat /\ Len(chan[p]) <= Len(chan'[p])
  /\ \A k \in 1 .. Len(chan[p]) : chan'[p][k] = chan[p][k]

LEMMA ChannelExtends ==
  ASSUME TypeOK, ShapeInv, SessionInv, StopInv, [Next]_vars, NEW p \in Page
  PROVE  Extends(p) \/ Receive(p) \/ (HangUp(p) /\ (Disconnect(p) \/ Close(p)))
<1>1. chan[p] \in Seq(Event) /\ Len(chan[p]) \in Nat
  BY LenProperties DEF ShapeInv
<1>2. ASSUME chan'[p] = chan[p] PROVE Extends(p)
  BY <1>1, <1>2 DEF Extends
<1>3. ASSUME NEW kind \in {"tick", "remove"}, NEW s \in Session, Broadcast(kind, s)
      PROVE  Extends(p)
  <2>1. CASE Gets(p)
    <3>1. /\ Len(chan'[p]) = Len(chan[p]) + 1
          /\ \A k \in 1 .. Len(chan[p]) : chan'[p][k] = chan[p][k]
      BY <1>3, <2>1, BroadcastPuts
    <3>2. QED
      BY <1>1, <3>1 DEF Extends
  <2>2. CASE ~Gets(p)
    <3>1. chan'[p] = chan[p]
      BY <1>3, <2>2, BroadcastPuts
    <3>2. QED
      BY <1>2, <3>1
  <2>3. QED
    BY <2>1, <2>2
<1>4. ASSUME NEW s \in Session, SendTick(s) PROVE Extends(p)
  BY <1>3, <1>4 DEF SendTick
<1>5. ASSUME NEW q \in Page, StopSends(q), stop[q].id \in cancelled PROVE Extends(p)
  <2>1. stop[q].id \in Session /\ Broadcast("remove", stop[q].id)
    BY <1>5 DEF StopSends, TypeOK
  <2>2. QED
    BY <1>3, <2>1
<1>6. ASSUME NEW q \in Page \ {p}, HangUp(q) \/ Receive(q) PROVE chan'[p] = chan[p]
  BY <1>6 DEF HangUp, Receive, ShapeInv
<1>7. QED
  BY <1>2, <1>4, <1>5, <1>6, ChanChange

\* Receiving an event moves the others up by one place; hanging up leaves none.
LEMMA ChannelShrinks ==
  ASSUME ShapeInv, NEW p \in Page
  PROVE  /\ Receive(p) => /\ Len(chan[p]) \in Nat \ {0} /\ Head(chan[p]) = chan[p][1]
                          /\ Len(chan'[p]) = Len(chan[p]) - 1 /\ chan[p][1] \in Event
                          /\ \A k \in 1 .. Len(chan'[p]) :
                               k + 1 \in 1 .. Len(chan[p]) /\ chan'[p][k] = chan[p][k + 1]
         /\ HangUp(p) => chan'[p] = <<>> /\ Len(chan'[p]) = 0
<1>1. chan[p] \in Seq(Event)
  BY DEF ShapeInv
<1>2. ASSUME Receive(p)
      PROVE  /\ Len(chan[p]) \in Nat \ {0} /\ Head(chan[p]) = chan[p][1]
             /\ Len(chan'[p]) = Len(chan[p]) - 1 /\ chan[p][1] \in Event
             /\ \A k \in 1 .. Len(chan'[p]) :
                  k + 1 \in 1 .. Len(chan[p]) /\ chan'[p][k] = chan[p][k + 1]
  <2>1. chan[p] # <<>> /\ chan'[p] = Tail(chan[p])
    BY <1>2 DEF Receive, ShapeInv
  <2>2. Len(chan[p]) \in Nat \ {0}
    BY <1>1, <2>1, EmptySeq, LenProperties
  <2>3. /\ Len(Tail(chan[p])) = Len(chan[p]) - 1 /\ Head(chan[p]) = chan[p][1]
        /\ Head(chan[p]) \in Event
        /\ \A k \in 1 .. Len(chan[p]) - 1 : Tail(chan[p])[k] = chan[p][k + 1]
    BY <1>1, <2>1, HeadTailProperties
  <2>4. QED
    BY <2>1, <2>2, <2>3
<1>3. ASSUME HangUp(p) PROVE chan'[p] = <<>> /\ Len(chan'[p]) = 0
  BY <1>3 DEF HangUp, ShapeInv
<1>4. QED
  BY <1>2, <1>3

\* What a channel gains at its end is a tick of a session that was started, or a removal.
LEMMA NewInChannel ==
  ASSUME TypeOK, ShapeInv, SessionInv, StopInv, [Next]_vars, NEW p \in Page, Extends(p),
         NEW k \in 1 .. Len(chan'[p]), k \notin 1 .. Len(chan[p])
  PROVE  \/ \E s \in Session : SendTick(s) /\ s \in started /\ chan'[p][k] = <<"tick", s>>
         \/ \E q \in Page : StopSends(q) /\ chan'[p][k] = <<"remove", stop[q].id>>
<1>1. Len(chan[p]) \in Nat /\ Len(chan'[p]) \in Nat /\ Len(chan'[p]) > Len(chan[p])
  BY DEF Extends
<1>2. ASSUME NEW kind \in {"tick", "remove"}, NEW s \in Session, Broadcast(kind, s)
      PROVE  chan'[p][k] = <<kind, s>>
  <2>1. Gets(p)
    BY <1>1, <1>2, BroadcastPuts
  <2>2. Len(chan'[p]) = Len(chan[p]) + 1 /\ chan'[p][Len(chan[p]) + 1] = <<kind, s>>
    BY <1>2, <2>1, BroadcastPuts
  <2>3. k = Len(chan[p]) + 1
    BY <1>1, <2>2
  <2>4. QED
    BY <2>2, <2>3
<1>3. ASSUME NEW s \in Session, SendTick(s) PROVE chan'[p][k] = <<"tick", s>>
  BY <1>2, <1>3 DEF SendTick
<1>4. ASSUME NEW q \in Page, StopSends(q), stop[q].id \in cancelled
      PROVE  chan'[p][k] = <<"remove", stop[q].id>>
  <2>1. stop[q].id \in Session /\ Broadcast("remove", stop[q].id)
    BY <1>4 DEF StopSends, TypeOK
  <2>2. QED
    BY <1>2, <2>1
<1>5. UNCHANGED chan => FALSE
  BY <1>1
<1>6. ASSUME NEW q \in Page, HangUp(q) \/ Receive(q) PROVE FALSE
  <2>1. CASE q = p
    <3>1. Len(chan'[p]) <= Len(chan[p])
      BY <1>1, <1>6, <2>1, ChannelShrinks
    <3>2. QED
      BY <1>1, <3>1
  <2>2. CASE q # p
    <3>1. chan'[p] = chan[p]
      BY <1>6, <2>2 DEF HangUp, Receive, ShapeInv
    <3>2. QED
      BY <1>1, <3>1
  <2>3. QED
    BY <2>1, <2>2
<1>7. QED
  BY <1>3, <1>4, <1>5, <1>6, ChanChange

\* Nothing is said of a session before it starts, nor of its removal before that is broadcast.
LEMMA ChanStep ==
  ASSUME TypeOK, ShapeInv, SessionInv, StopInv, ChanInv, [Next]_vars
  PROVE  ChanInv'
<1> SUFFICES ASSUME NEW p \in Page, NEW k \in 1 .. Len(chan'[p])
             PROVE  /\ chan'[p][k][2] \in started'
                    /\ chan'[p][k][1] = "remove" => chan'[p][k][2] \in Removed'
  BY DEF ChanInv
<1>1. started \subseteq started' /\ Removed \subseteq Removed'
  BY HistoryGrows, RemovedGrows
<1>2. ASSUME NEW j \in 1 .. Len(chan[p]), chan'[p][k] = chan[p][j]
      PROVE  /\ chan'[p][k][2] \in started'
             /\ chan'[p][k][1] = "remove" => chan'[p][k][2] \in Removed'
  BY <1>1, <1>2 DEF ChanInv
<1>3. CASE Extends(p)
  <2>1. CASE k \in 1 .. Len(chan[p])
    BY <1>2, <1>3, <2>1 DEF Extends
  <2>2. ASSUME NEW s \in Session, s \in started, chan'[p][k] = <<"tick", s>>
        PROVE  /\ chan'[p][k][2] \in started'
               /\ chan'[p][k][1] = "remove" => chan'[p][k][2] \in Removed'
    BY <1>1, <2>2
  <2>3. ASSUME NEW q \in Page, StopSends(q), chan'[p][k] = <<"remove", stop[q].id>>
        PROVE  /\ chan'[p][k][2] \in started'
               /\ chan'[p][k][1] = "remove" => chan'[p][k][2] \in Removed'
    <3>1. stop[q].id \in Removed' /\ stop[q].id \in started
      BY <2>3, RemovalReaches DEF StopSends, StopInv, TypeOK
    <3>2. QED
      BY <1>1, <2>3, <3>1
  <2>4. QED
    BY <1>3, <2>1, <2>2, <2>3, NewInChannel
<1>4. CASE Receive(p)
  BY <1>2, <1>4, ChannelShrinks
<1>5. CASE HangUp(p)
  BY <1>5, ChannelShrinks
<1>6. QED
  BY <1>3, <1>4, <1>5, ChannelExtends

\* A session that is gone stays answered for, whatever its tick or its card was waiting for.
LEMMA StaysAnswered ==
  ASSUME TypeOK, ShapeInv, SessionInv, StopInv, [Next]_vars, NEW p \in Page, Extends(p),
         NEW s, BeingStopped(s)
  PROVE  BeingStopped(s)' \/ s \in excused'[p] \/
           (Len(chan[p]) + 1 \in 1 .. Len(chan'[p]) /\ chan'[p][Len(chan[p]) + 1] = <<"remove", s>>)
<1>1. ASSUME NEW q \in Page, StopSends(q), stop[q].id = s
      PROVE  s \in excused'[p] \/
               (Len(chan[p]) + 1 \in 1 .. Len(chan'[p])
                  /\ chan'[p][Len(chan[p]) + 1] = <<"remove", s>>)
  <2>1. Len(chan[p]) \in Nat
    BY DEF Extends
  <2>2. IF Gets(p) THEN /\ Len(chan'[p]) = Len(chan[p]) + 1
                        /\ chan'[p][Len(chan[p]) + 1] = <<"remove", s>>
                   ELSE s \in excused'[p]
    BY <1>1, RemovalReaches
  <2>3. QED
    BY <2>1, <2>2
<1>2. QED
  BY <1>1, StoppingGoesOn

\* A tick that is broadcast after the removal excuses the page; one that is in the channel is
\* followed by the removal, unless that was dropped or is still to come.
LEMMA TickStep ==
  ASSUME TypeOK, ShapeInv, SessionInv, StopInv, ChanInv, TickInv, [Next]_vars
  PROVE  TickInv'
<1> SUFFICES ASSUME NEW p \in Page, NEW k \in 1 .. Len(chan'[p]), chan'[p][k][1] = "tick",
                    NEW s, chan'[p][k][2] = s, s \notin sessions'
             PROVE  \/ BeingStopped(s)' \/ s \in excused'[p]
                    \/ \E j \in k + 1 .. Len(chan'[p]) : chan'[p][j] = <<"remove", s>>
  BY DEF TickInv, Answered, BeingStopped
<1>1. excused[p] \subseteq excused'[p]
  BY HistoryGrows
<1>2. CASE Extends(p) /\ k \in 1 .. Len(chan[p])
  <2>1. /\ Len(chan[p]) \in Nat /\ Len(chan'[p]) \in Nat /\ Len(chan[p]) <= Len(chan'[p])
        /\ \A j \in 1 .. Len(chan[p]) : chan'[p][j] = chan[p][j]
    BY <1>2 DEF Extends
  <2>2. s = chan[p][k][2] /\ chan[p][k][1] = "tick"
    BY <1>2, <2>1
  <2>3. CASE s \in sessions
    BY <2>3, GoneIsStopped
  <2>4. CASE s \notin sessions
    <3>1. Answered(p, s, k)
      BY <1>2, <2>2, <2>4 DEF TickInv
    <3>2. CASE BeingStopped(s)
      <4>1. BeingStopped(s)' \/ s \in excused'[p] \/
              (Len(chan[p]) + 1 \in 1 .. Len(chan'[p])
                 /\ chan'[p][Len(chan[p]) + 1] = <<"remove", s>>)
        BY <1>2, <3>2, StaysAnswered
      <4>2. Len(chan[p]) + 1 \in 1 .. Len(chan'[p]) => Len(chan[p]) + 1 \in k + 1 .. Len(chan'[p])
        BY <1>2, <2>1
      <4>3. QED
        BY <4>1, <4>2
    <3>3. CASE s \in excused[p]
      BY <1>1, <3>3
    <3>4. ASSUME NEW j \in k + 1 .. Len(chan[p]), chan[p][j] = <<"remove", s>>
          PROVE  \E i \in k + 1 .. Len(chan'[p]) : chan'[p][i] = <<"remove", s>>
      <4>1. j \in 1 .. Len(chan[p]) /\ j \in k + 1 .. Len(chan'[p])
        BY <1>2, <2>1
      <4>2. QED
        BY <2>1, <3>4, <4>1
    <3>5. QED
      BY <3>1, <3>2, <3>3, <3>4 DEF Answered
  <2>5. QED
    BY <2>3, <2>4
<1>3. CASE Extends(p) /\ k \notin 1 .. Len(chan[p])
  <2>1. PICK r \in Session : SendTick(r) /\ r \in started /\ chan'[p][k] = <<"tick", r>>
    BY <1>3, NewInChannel
  <2>2. /\ s = r /\ UNCHANGED <<sessions, cancelled, stop>>
        /\ excused' = [q \in Page |-> excused[q] \cup ({r} \cap Removed)]
    BY <2>1 DEF SendTick, manager, handler
  <2>3. r \in cancelled
    BY <2>1, <2>2 DEF SessionInv
  <2>4. BeingStopped(r) \/ r \in Removed
    BY <2>3 DEF BeingStopped, Removed
  <2>5. BeingStopped(r) => BeingStopped(r)'
    BY <2>2 DEF BeingStopped
  <2>6. QED
    BY <2>2, <2>4, <2>5
<1>4. CASE Receive(p)
  <2>1. /\ Len(chan[p]) \in Nat \ {0} /\ Len(chan'[p]) = Len(chan[p]) - 1
        /\ \A j \in 1 .. Len(chan'[p]) :
             j + 1 \in 1 .. Len(chan[p]) /\ chan'[p][j] = chan[p][j + 1]
    BY <1>4, ChannelShrinks
  <2>2. UNCHANGED <<sessions, stop, excused>>
    BY <1>4 DEF Receive, manager, handler
  <2>3. s = chan[p][k + 1][2] /\ chan[p][k + 1][1] = "tick" /\ s \notin sessions
    BY <2>1, <2>2
  <2>4. Answered(p, s, k + 1)
    BY <2>1, <2>3 DEF TickInv
  <2>5. ASSUME NEW j \in (k + 1) + 1 .. Len(chan[p]), chan[p][j] = <<"remove", s>>
        PROVE  \E i \in k + 1 .. Len(chan'[p]) : chan'[p][i] = <<"remove", s>>
    <3>1. j - 1 \in k + 1 .. Len(chan'[p]) /\ j - 1 \in 1 .. Len(chan'[p]) /\ (j - 1) + 1 = j
      BY <2>1
    <3>2. QED
      BY <2>1, <2>5, <3>1
  <2>6. BeingStopped(s) => BeingStopped(s)'
    BY <2>2 DEF BeingStopped
  <2>7. QED
    BY <2>2, <2>4, <2>5, <2>6 DEF Answered
<1>5. CASE HangUp(p)
  BY <1>5, ChannelShrinks
<1>6. QED
  BY <1>2, <1>3, <1>4, <1>5, ChannelExtends

\* A page draws a card only for a tick it receives or a list it gets.
LEMMA CardChange ==
  ASSUME TypeOK, [Next]_vars, NEW p \in Page
  PROVE  card'[p] \subseteq card[p] \/ Receive(p) \/ (RenderList(p) /\ page[p] = "open")
<1>t. card \in [Page -> SUBSET started]
  BY DEF TypeOK
<1>1. CASE UNCHANGED card
  BY <1>1
<1>2. ASSUME NEW q \in Page, Close(q) \/ StopAnswered(q) PROVE card'[p] \subseteq card[p]
  BY <1>2, <1>t DEF Close, StopAnswered
<1>3. ASSUME NEW q \in Page, Receive(q), q # p PROVE card'[p] \subseteq card[p]
  BY <1>3, <1>t DEF Receive
<1>4. ASSUME NEW q \in Page, RenderList(q), ~(q = p /\ page[p] = "open")
      PROVE  card'[p] \subseteq card[p]
  BY <1>4, <1>t DEF RenderList
<1>5. QED
  BY <1>1, <1>2, <1>3, <1>4
  DEF Next, Goroutine, Handler, Browser, vars, browser, Start, FetchFails, Fetch, PythonEnds,
      Panic, ApplyPrice, ApplyTrade, Mark, SendTick, SelectTick, SelectDone, ListLocks,
      ListVisits, ListUnlocks, StopTakes, StopSends, Load, Connect, Disconnect, ClickStop

\* Something about a session is under way to a page when it has a position in the channel.
LEMMA UnderWayAt ==
  ASSUME ShapeInv, NEW p \in Page, NEW s
  PROVE  UnderWay(p, s) <=>
           \E k \in 1 .. Len(chan[p]) : chan[p][k] \in {<<"tick", s>>, <<"remove", s>>}
<1>1. chan[p] \in Seq(Event)
  BY DEF ShapeInv
<1>2. \A e : e \in Range(chan[p]) <=> \E k \in 1 .. Len(chan[p]) : chan[p][k] = e
  BY <1>1, PositionIn
<1>3. QED
  BY <1>2 DEF UnderWay

\* The card of a session that is gone has its removal or a tick under way, or a reason to stay.
LEMMA GhostStep ==
  ASSUME TypeOK, ShapeInv, SessionInv, ListInv, StopInv, ChanInv, TickInv, GhostsExplained,
         [Next]_vars
  PROVE  GhostsExplained'
<1> SUFFICES ASSUME NEW p \in Page, NEW s \in card'[p], s \notin sessions'
             PROVE  UnderWay(p, s)' \/ BeingStopped(s)' \/ s \in excused'[p]
  BY DEF GhostsExplained
<1> DEFINE Goal == UnderWay(p, s)' \/ BeingStopped(s)' \/ s \in excused'[p]
<1>e. excused[p] \subseteq excused'[p]
  BY HistoryGrows
<1>f. ShapeInv'
  BY ShapeStep
<1>u. ASSUME NEW k \in 1 .. Len(chan'[p]), chan'[p][k] \in {<<"tick", s>>, <<"remove", s>>}
      PROVE  UnderWay(p, s)'
  <2>1. chan'[p] \in Seq(Event)
    BY <1>f DEF ShapeInv
  <2>2. chan'[p][k] \in Range(chan'[p])
    BY <2>1, PositionIn
  <2>3. QED
    BY <1>u, <2>2 DEF UnderWay
<1>1. ASSUME s \in card[p], Extends(p) PROVE Goal
  <2>1. CASE s \in sessions
    BY <2>1, GoneIsStopped
  <2>2. CASE s \notin sessions
    <3>1. UnderWay(p, s) \/ BeingStopped(s) \/ s \in excused[p]
      BY <1>1, <2>2 DEF GhostsExplained
    <3>2. CASE UnderWay(p, s)
      <4>1. PICK k \in 1 .. Len(chan[p]) : chan[p][k] \in {<<"tick", s>>, <<"remove", s>>}
        BY <3>2, UnderWayAt
      <4>2. k \in 1 .. Len(chan'[p]) /\ chan'[p][k] = chan[p][k]
        BY <1>1, <4>1 DEF Extends
      <4>3. QED
        BY <1>u, <4>1, <4>2
    <3>3. CASE BeingStopped(s)
      BY <1>1, <1>u, <3>3, StaysAnswered
    <3>4. QED
      BY <1>e, <3>1, <3>2, <3>3
  <2>3. QED
    BY <2>1, <2>2
<1>2. CASE Receive(p)
  <2>1. /\ Len(chan[p]) \in Nat \ {0} /\ Head(chan[p]) = chan[p][1] /\ chan[p][1] \in Event
        /\ Len(chan'[p]) = Len(chan[p]) - 1
        /\ \A k \in 1 .. Len(chan'[p]) : chan'[p][k] = chan[p][k + 1]
    BY <1>2, ChannelShrinks
  <2>2. /\ UNCHANGED <<sessions, stop, excused>>
        /\ card'[p] = IF chan[p][1][1] = "tick" THEN card[p] \cup {chan[p][1][2]}
                                               ELSE card[p] \ {chan[p][1][2]}
    BY <1>2, <2>1 DEF Receive, Draws, manager, handler, TypeOK
  <2>3. BeingStopped(s) => BeingStopped(s)'
    BY <2>2 DEF BeingStopped
  <2>4. ASSUME NEW j \in 2 .. Len(chan[p]), chan[p][j] \in {<<"tick", s>>, <<"remove", s>>}
        PROVE  UnderWay(p, s)'
    <3>1. j - 1 \in 1 .. Len(chan'[p]) /\ (j - 1) + 1 = j
      BY <2>1
    <3>2. chan'[p][j - 1] = chan[p][j]
      BY <2>1, <3>1
    <3>3. QED
      BY <1>u, <2>4, <3>1, <3>2
  <2>5. CASE chan[p][1] = <<"tick", s>>
    <3>1. Answered(p, s, 1)
      BY <2>1, <2>2, <2>5 DEF TickInv
    <3>2. ASSUME NEW j \in 1 + 1 .. Len(chan[p]), chan[p][j] = <<"remove", s>>
          PROVE  UnderWay(p, s)'
      <4>1. j \in 2 .. Len(chan[p])
        OBVIOUS
      <4>2. QED
        BY <2>4, <3>2, <4>1
    <3>3. QED
      BY <2>2, <2>3, <3>1, <3>2 DEF Answered
  <2>6. CASE chan[p][1] # <<"tick", s>>
    <3>1. s \in card[p] /\ chan[p][1] # <<"remove", s>>
      BY <2>1, <2>2, <2>6 DEF Event
    <3>2. UnderWay(p, s) \/ BeingStopped(s) \/ s \in excused[p]
      BY <2>2, <3>1 DEF GhostsExplained
    <3>3. CASE UnderWay(p, s)
      <4>1. PICK k \in 1 .. Len(chan[p]) : chan[p][k] \in {<<"tick", s>>, <<"remove", s>>}
        BY <3>3, UnderWayAt
      <4>2. k \in 2 .. Len(chan[p])
        BY <2>1, <2>6, <3>1, <4>1
      <4>3. QED
        BY <2>4, <4>1, <4>2
    <3>4. QED
      BY <2>2, <2>3, <3>2, <3>3
  <2>7. QED
    BY <2>5, <2>6
<1>3. CASE HangUp(p) /\ Disconnect(p)
  <2>1. /\ UNCHANGED <<sessions, stop, card>>
        /\ excused'[p] = excused[p] \cup {r \in Session : <<"remove", r>> \in Range(chan[p])}
    BY <1>3 DEF Disconnect, HangUp, manager, handler, TypeOK
  <2>2. BeingStopped(s) => BeingStopped(s)'
    BY <2>1 DEF BeingStopped
  <2>3. s \in Session
    BY <2>1 DEF TypeOK
  <2>4. ASSUME NEW k \in 1 .. Len(chan[p]), chan[p][k] = <<"remove", s>>
        PROVE  s \in excused'[p]
    <3>1. chan[p] \in Seq(Event)
      BY DEF ShapeInv
    <3>2. <<"remove", s>> \in Range(chan[p])
      BY <2>4, <3>1, PositionIn
    <3>3. QED
      BY <2>1, <2>3, <3>2
  <2>5. UnderWay(p, s) \/ BeingStopped(s) \/ s \in excused[p]
    BY <2>1 DEF GhostsExplained
  <2>6. ASSUME UnderWay(p, s) PROVE Goal
    <3>1. PICK k \in 1 .. Len(chan[p]) : chan[p][k] \in {<<"tick", s>>, <<"remove", s>>}
      BY <2>6, UnderWayAt
    <3>2. CASE chan[p][k] = <<"tick", s>>
      <4>1. Answered(p, s, k)
        BY <2>1, <3>1, <3>2 DEF TickInv
      <4>2. Len(chan[p]) \in Nat
        BY LenProperties DEF ShapeInv
      <4>3. \A j \in k + 1 .. Len(chan[p]) : j \in 1 .. Len(chan[p])
        BY <4>2
      <4>4. QED
        BY <1>e, <2>2, <2>4, <4>1, <4>3 DEF Answered
    <3>3. QED
      BY <2>4, <3>1, <3>2
  <2>7. QED
    BY <1>e, <2>2, <2>5, <2>6
<1>4. CASE Close(p)
  BY <1>4 DEF Close, TypeOK
<1>5. ASSUME RenderList(p), page[p] = "open", s \notin card[p] PROVE Goal
  <2> DEFINE ids == {snap.id : snap \in list[p].seen}
  <2>1. /\ UNCHANGED <<sessions, started, cancelled, stop, chan>>
        /\ card'[p] = card[p] \cup ids
        /\ excused'[p] = excused[p] \cup {r \in ids \cap Removed : <<"remove", r>> \notin Range(chan[p])}
    BY <1>5 DEF RenderList, manager, TypeOK
  <2>2. s \in ids /\ s \in started /\ s \notin sessions
    BY <1>5, <2>1 DEF ListInv
  <2>3. s \in cancelled
    BY <2>2 DEF SessionInv
  <2>4. BeingStopped(s) \/ s \in Removed
    BY <2>3 DEF BeingStopped, Removed
  <2>5. BeingStopped(s) => BeingStopped(s)'
    BY <2>1 DEF BeingStopped
  <2>6. CASE <<"remove", s>> \in Range(chan[p])
    BY <2>1, <2>6 DEF UnderWay
  <2>7. QED
    BY <2>1, <2>2, <2>4, <2>5, <2>6
<1>6. RenderList(p) => Extends(p)
  <2>1. RenderList(p) => chan'[p] = chan[p]
    BY DEF RenderList
  <2>2. Len(chan[p]) \in Nat
    BY LenProperties DEF ShapeInv
  <2>3. QED
    BY <2>1, <2>2 DEF Extends
<1>7. QED
  BY <1>1, <1>2, <1>3, <1>4, <1>5, <1>6, CardChange, ChannelExtends

\* The parts of TypeOK about the sessions, the pages and the cards.
SessionTypes ==
  /\ up \in BOOLEAN
  /\ started \subseteq Session /\ sessions \subseteq started /\ cancelled \subseteq started
  /\ sessions \cap cancelled = {}
  /\ pc \in [Session -> Control]
  /\ \A s \in Session : mu[s] = (IF pc[s] \in {"python", "apply", "book"} THEN s ELSE Free)

PageTypes ==
  /\ page \in [Page -> {"new", "open", "gone"}] /\ link \subseteq Page
  /\ drops \in 0 .. MaxDrop

CardTypes == card \in [Page -> SUBSET started] /\ excused \in [Page -> SUBSET Removed]

\* A tick takes sess.mu and gives it back; an active session is not cancelled.
LEMMA SessionTypesStep == TypeOK /\ ShapeInv /\ SessionInv /\ [Next]_vars => SessionTypes'
<1> SUFFICES ASSUME TypeOK, ShapeInv, SessionInv, [Next]_vars PROVE SessionTypes'
  OBVIOUS
<1>t. SessionTypes /\ mu \in [Session -> Session \cup {Free}]
  BY DEF TypeOK, SessionTypes, ShapeInv
<1>1. CASE UNCHANGED <<up, manager, goroutine>>
  BY <1>1, <1>t DEF manager, goroutine, SessionTypes
<1>2. ASSUME NEW s \in Session, Start(s) PROVE SessionTypes'
  <2>1. /\ s \notin started /\ started' = started \cup {s} /\ sessions' = sessions \cup {s}
        /\ pc' = [pc EXCEPT ![s] = "fetch"] /\ UNCHANGED <<up, cancelled, mu>>
    BY <1>2 DEF Start
  <2>2. pc[s] = "none"
    BY <2>1 DEF SessionInv
  <2>3. \A r \in Session : mu'[r] = (IF pc'[r] \in {"python", "apply", "book"} THEN r ELSE Free)
    BY <2>1, <2>2, <1>t DEF SessionTypes
  <2>4. pc' \in [Session -> Control]
    BY <2>1, <1>t DEF SessionTypes, Control
  <2>5. sessions' \cap cancelled' = {}
    BY <2>1, <1>t DEF SessionTypes
  <2>6. QED
    BY <2>1, <2>3, <2>4, <2>5, <1>t DEF SessionTypes
<1>3. ASSUME NEW s \in Session, NEW from \in Control, NEW to \in Control, Go(s, from, to),
             \/ UNCHANGED mu /\ (from \in {"python", "apply", "book"} <=> to \in {"python", "apply", "book"})
             \/ mu' = [mu EXCEPT ![s] = s] /\ to \in {"python", "apply", "book"}
             \/ mu' = [mu EXCEPT ![s] = Free] /\ to \notin {"python", "apply", "book"},
             UNCHANGED <<up, manager>>
      PROVE  SessionTypes'
  <2>1. pc[s] = from /\ pc' = [pc EXCEPT ![s] = to]
    BY <1>3 DEF Go
  <2>2. pc' \in [Session -> Control]
    BY <2>1, <1>t DEF SessionTypes
  <2>3. ASSUME NEW r \in Session
        PROVE  mu'[r] = (IF pc'[r] \in {"python", "apply", "book"} THEN r ELSE Free)
    <3>1. CASE r = s
      BY <1>3, <2>1, <3>1, <1>t DEF SessionTypes
    <3>2. CASE r # s
      BY <1>3, <2>1, <3>2, <1>t DEF SessionTypes
    <3>3. QED
      BY <3>1, <3>2
  <2>4. QED
    BY <1>3, <2>2, <2>3, <1>t DEF SessionTypes, manager
<1>4. ASSUME NEW s \in Session, Goroutine(s) PROVE SessionTypes'
  <2>1. {"fetch", "python", "apply", "book", "mark", "send", "rest", "done"} \subseteq Control
    BY DEF Control
  <2>2. CASE Fetch(s)
    BY <1>3, <2>1, <2>2 DEF Fetch
  <2>3. CASE ApplyTrade(s)
    BY <1>3, <2>1, <2>3 DEF ApplyTrade
  <2>4. CASE Panic(s)
    BY <2>4, <1>t DEF Panic, manager, goroutine, SessionTypes
  <2>5. CASE FetchFails(s)
    BY <1>3, <2>1, <2>5 DEF FetchFails
  <2>6. CASE PythonEnds(s) \/ ApplyPrice(s)
    BY <1>3, <2>1, <2>6 DEF PythonEnds, ApplyPrice
  <2>7. CASE Mark(s) \/ SendTick(s)
    BY <1>3, <2>1, <2>7 DEF Mark, SendTick
  <2>8. CASE SelectTick(s) \/ SelectDone(s)
    BY <1>3, <2>1, <2>8 DEF SelectTick, SelectDone
  <2>9. QED
    BY <1>4, <2>2, <2>3, <2>4, <2>5, <2>6, <2>7, <2>8 DEF Goroutine
<1>5. ASSUME NEW p \in Page, StopTakes(p) PROVE SessionTypes'
  BY <1>5, <1>t DEF StopTakes, Cancel, goroutine, manager, SessionTypes
<1>6. QED
  BY <1>1, <1>2, <1>4, <1>5
  DEF Next, Handler, Browser, vars, ListLocks, ListVisits, ListUnlocks, StopSends, Load, Connect,
      Disconnect, Close, Receive, RenderList, ClickStop, StopAnswered

\* Pages are loaded once, and streams break as often as the bound allows.
LEMMA PageTypesStep == TypeOK /\ [Next]_vars => PageTypes'
<1> SUFFICES ASSUME TypeOK, [Next]_vars PROVE PageTypes'
  OBVIOUS
<1>t. PageTypes /\ MaxDrop \in Nat
  BY LiveSessionsAssumption DEF TypeOK, PageTypes
<1>1. CASE UNCHANGED <<page, link, drops>>
  BY <1>1, <1>t DEF PageTypes
<1>2. ASSUME NEW p \in Page, Load(p) \/ Connect(p) \/ Close(p) PROVE PageTypes'
  BY <1>2, <1>t DEF Load, Connect, Close, HangUp, PageTypes
<1>3. ASSUME NEW p \in Page, Disconnect(p) PROVE PageTypes'
  BY <1>3, <1>t DEF Disconnect, HangUp, PageTypes
<1>4. QED
  BY <1>1, <1>2, <1>3
  DEF Next, Goroutine, Handler, Browser, vars, browser, Start, FetchFails, Fetch, PythonEnds,
      Panic, ApplyPrice, ApplyTrade, Mark, SendTick, SelectTick, SelectDone, ListLocks,
      ListVisits, ListUnlocks, StopTakes, StopSends, Receive, RenderList, ClickStop, StopAnswered

\* No channel holds more than its capacity.
LEMMA CapacityStep ==
  ASSUME TypeOK, ShapeInv, SessionInv, StopInv, [Next]_vars, NEW p \in Page
  PROVE  Len(chan'[p]) <= ChanSize
<1>1. /\ Len(chan[p]) \in Nat /\ Len(chan[p]) <= ChanSize /\ ChanSize \in Nat
  BY LiveSessionsAssumption, LenProperties DEF ShapeInv, TypeOK
<1>2. ASSUME NEW kind \in {"tick", "remove"}, NEW s \in Session, Broadcast(kind, s)
      PROVE  Len(chan'[p]) <= ChanSize
  <2>1. CASE Gets(p)
    <3>1. Len(chan[p]) < ChanSize
      BY <2>1 DEF Gets
    <3>2. Len(chan'[p]) = Len(chan[p]) + 1
      BY <1>2, <2>1, BroadcastPuts
    <3>3. QED
      BY <1>1, <3>1, <3>2
  <2>2. CASE ~Gets(p)
    <3>1. chan'[p] = chan[p]
      BY <1>2, <2>2, BroadcastPuts
    <3>2. QED
      BY <1>1, <3>1
  <2>3. QED
    BY <2>1, <2>2
<1>3. ASSUME NEW s \in Session, SendTick(s) PROVE Len(chan'[p]) <= ChanSize
  BY <1>2, <1>3 DEF SendTick
<1>4. ASSUME NEW q \in Page, StopSends(q), stop[q].id \in cancelled PROVE Len(chan'[p]) <= ChanSize
  <2>1. stop[q].id \in Session /\ Broadcast("remove", stop[q].id)
    BY <1>4 DEF StopSends, TypeOK
  <2>2. QED
    BY <1>2, <2>1
<1>5. ASSUME NEW q \in Page, HangUp(q) \/ Receive(q) PROVE Len(chan'[p]) <= ChanSize
  <2>1. CASE q = p
    <3>1. Len(chan'[p]) = 0 \/ Len(chan'[p]) = Len(chan[p]) - 1
      BY <1>5, <2>1, ChannelShrinks
    <3>2. QED
      BY <1>1, <3>1
  <2>2. CASE q # p
    <3>1. chan'[p] = chan[p]
      BY <1>5, <2>2 DEF HangUp, Receive, ShapeInv
    <3>2. QED
      BY <1>1, <3>1
  <2>3. QED
    BY <2>1, <2>2
<1>6. CASE UNCHANGED chan
  BY <1>1, <1>6
<1>7. QED
  BY <1>3, <1>4, <1>5, <1>6, ChanChange

\* Cards are of sessions that were started, and a page is excused only for sessions whose removal
\* was broadcast.
LEMMA CardTypesStep ==
  ASSUME TypeOK, ShapeInv, SessionInv, ListInv, StopInv, ChanInv, [Next]_vars
  PROVE  CardTypes'
<1>t. /\ card \in [Page -> SUBSET started] /\ excused \in [Page -> SUBSET Removed]
      /\ started \subseteq started' /\ Removed \subseteq Removed'
  BY HistoryGrows, RemovedGrows DEF TypeOK
<1>1. card' \in [Page -> SUBSET started']
  <2>1. CASE UNCHANGED card
    BY <2>1, <1>t
  <2>2. ASSUME NEW p \in Page, Receive(p) PROVE card' \in [Page -> SUBSET started']
    <3>1. /\ Len(chan[p]) \in Nat \ {0} /\ Head(chan[p]) = chan[p][1]
      BY <2>2, ChannelShrinks
    <3>2. Head(chan[p])[2] \in started
      BY <3>1 DEF ChanInv
    <3>3. QED
      BY <2>2, <3>2, <1>t DEF Receive, Draws
  <2>3. ASSUME NEW p \in Page, RenderList(p) PROVE card' \in [Page -> SUBSET started']
    <3>1. {snap.id : snap \in list[p].seen} \subseteq started
      BY DEF ListInv
    <3>2. QED
      BY <2>3, <3>1, <1>t DEF RenderList
  <2>4. ASSUME NEW p \in Page, Close(p) \/ StopAnswered(p) PROVE card' \in [Page -> SUBSET started']
    BY <2>4, <1>t DEF Close, StopAnswered
  <2>5. QED
    BY <2>1, <2>2, <2>3, <2>4
    DEF Next, Goroutine, Handler, Browser, vars, browser, Start, FetchFails, Fetch, PythonEnds,
        Panic, ApplyPrice, ApplyTrade, Mark, SendTick, SelectTick, SelectDone, ListLocks,
        ListVisits, ListUnlocks, StopTakes, StopSends, Load, Connect, Disconnect, ClickStop
<1>2. excused' \in [Page -> SUBSET Removed']
  <2>1. CASE UNCHANGED excused
    BY <2>1, <1>t
  <2>2. ASSUME NEW s \in Session, SendTick(s) PROVE excused' \in [Page -> SUBSET Removed']
    BY <2>2, <1>t DEF SendTick
  <2>3. ASSUME NEW p \in Page, StopSends(p) PROVE excused' \in [Page -> SUBSET Removed']
    <3>1. stop[p].id \in Removed'
      BY <2>3, RemovalReaches
    <3>2. excused' = [q \in Page |-> IF Gets(q) THEN excused[q] ELSE excused[q] \cup {stop[p].id}]
      BY <2>3 DEF StopSends
    <3>3. QED
      BY <3>1, <3>2, <1>t
  <2>4. ASSUME NEW p \in Page, HangUp(p) PROVE excused' \in [Page -> SUBSET Removed']
    <3>1. {s \in Session : <<"remove", s>> \in Range(chan[p])} \subseteq Removed
      <4>1. ASSUME NEW s \in Session, <<"remove", s>> \in Range(chan[p]) PROVE s \in Removed
        <5>1. chan[p] \in Seq(Event)
          BY DEF ShapeInv
        <5>2. PICK k \in 1 .. Len(chan[p]) : chan[p][k] = <<"remove", s>>
          BY <4>1, <5>1, PositionIn
        <5>3. QED
          BY <5>2 DEF ChanInv
      <4>2. QED
        BY <4>1
    <3>2. QED
      BY <2>4, <3>1, <1>t DEF HangUp
  <2>5. ASSUME NEW p \in Page, RenderList(p) PROVE excused' \in [Page -> SUBSET Removed']
    BY <2>5, <1>t DEF RenderList
  <2>6. QED
    BY <2>1, <2>2, <2>3, <2>4, <2>5
    DEF Next, Goroutine, Handler, Browser, vars, Start, FetchFails, Fetch, PythonEnds, Panic,
        ApplyPrice, ApplyTrade, Mark, SelectTick, SelectDone, ListLocks, ListVisits, ListUnlocks,
        StopTakes, Load, Connect, Disconnect, Close, Receive, ClickStop, StopAnswered
<1>3. QED
  BY <1>1, <1>2 DEF CardTypes

(***************************************************************************)
(* The theorems.                                                           *)
(***************************************************************************)

\* Every state of the sessions and their pages satisfies the inductive invariant.
THEOREM Invariance == Spec => []IInv
<1>1. IInv /\ [Next]_vars => IInv'
  <2> SUFFICES ASSUME IInv, [Next]_vars PROVE IInv'
    OBVIOUS
  <2> USE DEF IInv
  <2>1. TypeOK
    BY DEF SnapshotsAreWhole
  <2>2. /\ list' \in [Page -> ListType(sessions')] /\ smmu' \in Page \cup {Free}
        /\ ListInv' /\ \A p \in Page : \A snap \in list'[p].seen : snap.whole
    BY ListStep
  <2>3. stop' \in [Page -> StopType]
    BY <2>1, StopChange
  <2>4. ShapeInv' /\ \A p \in Page : Len(chan'[p]) <= ChanSize
    BY <2>1, ShapeStep, CapacityStep
  <2>5. SessionTypes' /\ PageTypes' /\ CardTypes'
    BY <2>1, SessionTypesStep, PageTypesStep, CardTypesStep
  <2>6. TypeOK'
    BY <2>2, <2>3, <2>4, <2>5
    DEF TypeOK, SessionTypes, PageTypes, CardTypes, ShapeInv, ListType, StopType
  <2>7. SnapshotsAreWhole'
    BY <2>2, <2>6 DEF SnapshotsAreWhole
  <2>8. SessionInv' /\ StopInv' /\ ChanInv' /\ TickInv' /\ GhostsExplained'
    BY <2>1, SessionStep, StopStep, ChanStep, TickStep, GhostStep
  <2>9. QED
    BY <2>2, <2>4, <2>7, <2>8
<1>2. QED
  BY <1>1, InitIInv, PTL DEF Spec

\* A list never shows a session between the two halves of applySignal: a list takes the mutex
\* that a tick holds from its fetch to the end of the second half.
THEOREM SnapshotsAreWholeHolds == Spec => []SnapshotsAreWhole
<1>1. IInv => SnapshotsAreWhole
  BY DEF IInv
<1>2. QED
  BY <1>1, Invariance, PTL

\* A page keeps the card of a session that was stopped only while something about it is under
\* way, or for one of the three reasons the history excused records.
THEOREM GhostsExplainedHolds == Spec => []GhostsExplained
<1>1. IInv => GhostsExplained
  BY DEF IInv
<1>2. QED
  BY <1>1, Invariance, PTL
=============================================================================
