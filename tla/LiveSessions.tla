----------------------------- MODULE LiveSessions -----------------------------
(***************************************************************************)
(* The live strategy sessions of the dashboard (livestrategy.go): one      *)
(* goroutine per session that ticks until its context is cancelled, the    *)
(* handlers that start, stop and list sessions, the two mutexes they share *)
(* (sm.mu over the map of sessions, sess.mu over one session), and the     *)
(* pages that show a card per session (index.html).                        *)
(*                                                                         *)
(* A session is named by its id; of its account the model keeps whether    *)
(* applySignal is half way through it.  A page is one load                 *)
(* of index.html: a browser that reloads goes on as another page, and the  *)
(* handlers of the page it left run on.  The hub puts an event in every    *)
(* subscribed channel that has room, in one step: module Hub shows what    *)
(* its mutex makes of the steps in between.                                *)
(*                                                                         *)
(* An operator marked "bug" is no part of Next: it puts a plausible error  *)
(* in the definition below it, to show that a property would notice.       *)
(***************************************************************************)
EXTENDS Integers, Sequences, Functions

CONSTANTS
  Session,  \* ids of the sessions ever started (a bound)
  Custom,   \* the ones that run a Python strategy
  Page,     \* loads of the page (a bound)
  Free,     \* the holder of a mutex nobody holds
  ChanSize, \* capacity of a page's channel in the hub (64 in the code)
  MaxDrop,  \* bound on the event streams that break while their page is open
  Faults    \* the faults a run allows, see FaultKind

FaultKind == {"fetch", "empty"}

ASSUME LiveSessionsAssumption ==
  /\ Custom \subseteq Session
  /\ Free \notin Page /\ Free \notin Session
  /\ ChanSize \in Nat \ {0} /\ MaxDrop \in Nat
  /\ Faults \subseteq FaultKind

VARIABLES
  up,        \* the dashboard process runs
  started,   \* the sessions ever started
  sessions,  \* sm.sessions: the active ones
  cancelled, \* the sessions whose context is cancelled
  pc,        \* control point of each session's goroutine
  mu,        \* holder of each sess.mu: the session's own goroutine or Free
  smmu,      \* holder of sm.mu between two steps: the page whose list runs, or Free
  list,      \* each page's GET sessions: control point, sessions left, snapshots taken
  stop,      \* each page's POST stop: control point and session
  page,      \* "new", "open" or "gone"
  link,      \* the pages with an SSE channel in the hub
  chan,      \* the events in each channel
  drops,     \* number of event streams that have broken
  card,      \* the sessions each page shows a card of
  excused    \* history: the stopped sessions of which a page may keep a card

manager == <<started, sessions, cancelled>>
goroutine == <<pc, mu>>
handler == <<smmu, list, stop>>
browser == <<page, link, chan, drops, card>>
vars == <<up, manager, goroutine, handler, browser, excused>>

Idle == [at |-> "idle", todo |-> {}, seen |-> {}]
NoStop == [at |-> "idle", id |-> Free]

Init ==
  /\ up = TRUE
  /\ started = {} /\ sessions = {} /\ cancelled = {}
  /\ pc = [s \in Session |-> "none"] /\ mu = [s \in Session |-> Free]
  /\ smmu = Free
  /\ list = [p \in Page |-> Idle] /\ stop = [p \in Page |-> NoStop]
  /\ page = [p \in Page |-> "new"] /\ link = {}
  /\ chan = [p \in Page |-> <<>>] /\ drops = 0
  /\ card = [p \in Page |-> {}]
  /\ excused = [p \in Page |-> {}]

(***************************************************************************)
(* hub.broadcast, to the channels that have room.                          *)
(***************************************************************************)
Gets(p) == p \in link /\ Len(chan[p]) < ChanSize

PutInFront(p, e) == <<e>> \o chan[p]                        \* bug: newest first
PutLast(p, e) == Append(chan[p], e)

\* The sessions whose strategy_remove has been broadcast.
Removed == {s \in cancelled : \A p \in Page : stop[p] # [at |-> "send", id |-> s]}

Broadcast(kind, s) ==
  chan' = [p \in Page |-> IF Gets(p) THEN PutLast(p, <<kind, s>>) ELSE chan[p]]

(***************************************************************************)
(* The goroutine of a session: runSession and tick.                        *)
(***************************************************************************)
Go(s, from, to) == pc[s] = from /\ pc' = [pc EXCEPT ![s] = to]

\* Binance does not answer, or with too few bars: tick returns.
FetchFails(s) ==
  /\ "fetch" \in Faults
  /\ Go(s, "fetch", "rest")
  /\ UNCHANGED <<up, manager, mu, handler, browser, excused>>

\* Binance answers and sess.mu is taken; a custom strategy then runs Python while it is
\* held, for at most the 10 seconds of its timeout.
Fetch(s) ==
  /\ mu[s] = Free
  /\ Go(s, "fetch", IF s \in Custom THEN "python" ELSE "apply")
  /\ mu' = [mu EXCEPT ![s] = s]
  /\ UNCHANGED <<up, manager, handler, browser, excused>>

PythonEnds(s) ==
  /\ Go(s, "python", "apply")
  /\ UNCHANGED <<up, manager, mu, handler, browser, excused>>

\* Binance had answered a custom session with no bar at all: the index of the last one
\* is out of range, and a panic in a goroutine ends the process.
Panic(s) ==
  /\ "empty" \in Faults
  /\ pc[s] = "python"
  /\ up' = FALSE
  /\ UNCHANGED <<manager, goroutine, handler, browser, excused>>

\* applySignal: first price and signal, then position, trades and curve; unlock.
ApplyPrice(s) ==
  /\ Go(s, "apply", "book")
  /\ UNCHANGED <<up, manager, mu, handler, browser, excused>>

ApplyTrade(s) ==
  /\ Go(s, "book", "mark")
  /\ mu' = [mu EXCEPT ![s] = Free]
  /\ UNCHANGED <<up, manager, handler, browser, excused>>

\* The benchmark is fetched, without a lock and with errors ignored; then sess.mu is held
\* again for BTCPnL and the snapshot.
Mark(s) ==
  /\ mu[s] = Free
  /\ Go(s, "mark", "send")
  /\ UNCHANGED <<up, manager, mu, handler, browser, excused>>

SendTick(s) ==
  /\ Go(s, "send", "rest")
  /\ Broadcast("tick", s)
  /\ excused' = [p \in Page |-> excused[p] \cup ({s} \cap Removed)]
  /\ UNCHANGED <<up, manager, mu, handler, page, link, drops, card>>

\* select: when the ticker has fired and the context is done, either may be taken.
SelectTick(s) ==
  /\ Go(s, "rest", "fetch")
  /\ UNCHANGED <<up, manager, mu, handler, browser, excused>>

SelectDone(s) ==
  /\ s \in cancelled
  /\ Go(s, "rest", "done")
  /\ UNCHANGED <<up, manager, mu, handler, browser, excused>>

Goroutine(s) ==
  \/ FetchFails(s) \/ Fetch(s) \/ PythonEnds(s) \/ Panic(s)
  \/ ApplyPrice(s) \/ ApplyTrade(s) \/ Mark(s) \/ SendTick(s)
  \/ SelectTick(s) \/ SelectDone(s)

(***************************************************************************)
(* The handlers.  start and stop hold sm.mu for one step, a list from its  *)
(* first to its last session, with each sess.mu in turn.                   *)
(***************************************************************************)
Start(s) ==
  /\ s \notin started /\ smmu = Free
  /\ \E p \in Page : page[p] = "open"
  /\ started' = started \cup {s} /\ sessions' = sessions \cup {s}
  /\ pc' = [pc EXCEPT ![s] = "fetch"]
  /\ UNCHANGED <<up, cancelled, mu, handler, browser, excused>>

ListLocks(p) ==
  /\ list[p].at = "ask" /\ smmu = Free
  /\ smmu' = p
  /\ list' = [list EXCEPT ![p] = [at |-> "visit", todo |-> sessions, seen |-> {}]]
  /\ UNCHANGED <<up, manager, goroutine, stop, browser, excused>>

SeesAnyTime(s) == TRUE                                      \* bug: sess.mu not taken
Sees(s) == mu[s] = Free

ListVisits(p, s) ==
  /\ list[p].at = "visit" /\ s \in list[p].todo /\ Sees(s)
  /\ list' = [list EXCEPT ![p].todo = @ \ {s},
                          ![p].seen = @ \cup {[id |-> s, whole |-> pc[s] # "book"]}]
  /\ UNCHANGED <<up, manager, goroutine, smmu, stop, browser, excused>>

StillHeld(p) == p                                           \* bug: no unlock
Unlocked(p) == Free

ListUnlocks(p) ==
  /\ list[p].at = "visit" /\ list[p].todo = {}
  /\ smmu' = Unlocked(p)
  /\ list' = [list EXCEPT ![p].at = "reply"]
  /\ UNCHANGED <<up, manager, goroutine, stop, browser, excused>>

\* The first of several stops cancels and deletes; the others find nothing.
CancelNot(s) == cancelled                                   \* bug: no sess.cancel()
Cancel(s) == cancelled \cup {s}

StopTakes(p) ==
  /\ stop[p].at = "ask" /\ smmu = Free
  /\ LET s == stop[p].id
     IN  IF s \in sessions
           THEN /\ cancelled' = Cancel(s) /\ sessions' = sessions \ {s}
                /\ stop' = [stop EXCEPT ![p].at = "send"]
           ELSE stop' = [stop EXCEPT ![p].at = "answer"] /\ UNCHANGED <<sessions, cancelled>>
  /\ UNCHANGED <<up, started, goroutine, smmu, list, browser, excused>>

StopSends(p) ==
  /\ stop[p].at = "send"
  /\ LET s == stop[p].id
     IN  /\ Broadcast("remove", s)
         /\ excused' = [q \in Page |-> IF Gets(q) THEN excused[q] ELSE excused[q] \cup {s}]
  /\ stop' = [stop EXCEPT ![p].at = "answer"]
  /\ UNCHANGED <<up, manager, goroutine, smmu, list, page, link, drops, card>>

Handler(p) ==
  \/ ListLocks(p) \/ ListUnlocks(p) \/ StopTakes(p) \/ StopSends(p)
  \/ \E s \in Session : ListVisits(p, s)

(***************************************************************************)
(* The page.  On load it asks for the list and opens its event stream,     *)
(* which the browser opens again whenever it breaks.                       *)
(***************************************************************************)
Load(p) ==
  /\ page[p] = "new"
  /\ page' = [page EXCEPT ![p] = "open"]
  /\ list' = [list EXCEPT ![p].at = "ask"]
  /\ UNCHANGED <<up, manager, goroutine, smmu, stop, link, chan, drops, card, excused>>

Connect(p) ==
  /\ page[p] = "open" /\ p \notin link
  /\ link' = link \cup {p}
  /\ UNCHANGED <<up, manager, goroutine, handler, page, chan, drops, card, excused>>

\* What the channel still holds is lost with the connection.
HangUp(p) ==
  /\ link' = link \ {p} /\ chan' = [chan EXCEPT ![p] = <<>>]
  /\ excused' = [excused EXCEPT ![p] = @ \cup {s \in Session : <<"remove", s>> \in Range(chan[p])}]

Disconnect(p) ==
  /\ p \in link /\ drops < MaxDrop
  /\ drops' = drops + 1
  /\ HangUp(p)
  /\ UNCHANGED <<up, manager, goroutine, handler, page, card>>

Close(p) ==
  /\ page[p] = "open"
  /\ page' = [page EXCEPT ![p] = "gone"]
  /\ card' = [card EXCEPT ![p] = {}]
  /\ HangUp(p)
  /\ UNCHANGED <<up, manager, goroutine, handler, drops>>

\* strategy_tick draws the card anew whether or not there is one.
DrawsKnown(p, s) == card[p]                                 \* bug: only updates cards
Draws(p, s) == card[p] \cup {s}

Receive(p) ==
  /\ chan[p] # <<>>
  /\ LET e == Head(chan[p])
     IN  card' = [card EXCEPT ![p] = IF e[1] = "tick" THEN Draws(p, e[2]) ELSE @ \ {e[2]}]
  /\ chan' = [chan EXCEPT ![p] = Tail(@)]
  /\ UNCHANGED <<up, manager, goroutine, handler, page, link, drops, excused>>

RenderList(p) ==
  /\ list[p].at = "reply"
  /\ LET ids == {snap.id : snap \in list[p].seen}
         gone == {s \in ids \cap Removed : <<"remove", s>> \notin Range(chan[p])}
     IN  IF page[p] = "open"
           THEN /\ card' = [card EXCEPT ![p] = @ \cup ids]
                /\ excused' = [excused EXCEPT ![p] = @ \cup gone]
           ELSE UNCHANGED <<card, excused>>
  /\ list' = [list EXCEPT ![p] = Idle]
  /\ UNCHANGED <<up, manager, goroutine, smmu, stop, page, link, chan, drops>>

ClickStop(p, s) ==
  /\ page[p] = "open" /\ stop[p].at = "idle" /\ s \in card[p]
  /\ stop' = [stop EXCEPT ![p] = [at |-> "ask", id |-> s]]
  /\ UNCHANGED <<up, manager, goroutine, smmu, list, browser, excused>>

StopAnswered(p) ==
  /\ stop[p].at = "answer"
  /\ card' = [card EXCEPT ![p] = @ \ {stop[p].id}]
  /\ stop' = [stop EXCEPT ![p] = NoStop]
  /\ UNCHANGED <<up, manager, goroutine, smmu, list, page, link, chan, drops, excused>>

Browser(p) ==
  \/ Load(p) \/ Connect(p) \/ Disconnect(p) \/ Close(p) \/ Receive(p) \/ RenderList(p)
  \/ StopAnswered(p) \/ \E s \in Session : ClickStop(p, s)

Next ==
  /\ up
  /\ \/ \E s \in Session : Start(s) \/ Goroutine(s)
     \/ \E p \in Page : Handler(p) \/ Browser(p)

Spec == Init /\ [][Next]_vars

(***************************************************************************)
(* Fairness: a goroutine that can go on does, a Go mutex starves nobody,   *)
(* select takes a case that stays ready, and Binance does not fail for     *)
(* ever.                                                                   *)
(***************************************************************************)
Fairness ==
  /\ \A s \in Session :
       /\ WF_vars(up /\ Goroutine(s))
       /\ SF_vars(up /\ Fetch(s)) /\ SF_vars(up /\ Mark(s)) /\ SF_vars(up /\ SelectDone(s))
       /\ \A p \in Page : SF_vars(up /\ ListVisits(p, s))
  /\ \A p \in Page :
       /\ SF_vars(up /\ ListLocks(p)) /\ WF_vars(up /\ ListUnlocks(p))
       /\ SF_vars(up /\ StopTakes(p)) /\ WF_vars(up /\ StopSends(p))
       /\ WF_vars(up /\ Connect(p)) /\ WF_vars(up /\ Receive(p))
       /\ WF_vars(up /\ RenderList(p)) /\ WF_vars(up /\ StopAnswered(p))

FairSpec == Spec /\ Fairness

(***************************************************************************)
(* Properties.                                                             *)
(***************************************************************************)
Control == {"none", "fetch", "python", "apply", "book", "mark", "send",
            "rest", "done"}
Event == {"tick", "remove"} \X Session
Snapshot == [id : Session, whole : BOOLEAN]

\* The types; sess.mu is held exactly while a tick is inside it, an active session is not
\* cancelled, and a list only visits active sessions.
TypeOK ==
  /\ up \in BOOLEAN
  /\ started \subseteq Session /\ sessions \subseteq started /\ cancelled \subseteq started
  /\ sessions \cap cancelled = {}
  /\ pc \in [Session -> Control]
  /\ \A s \in Session : mu[s] = (IF pc[s] \in {"python", "apply", "book"} THEN s ELSE Free)
  /\ smmu \in Page \cup {Free}
  /\ list \in [Page -> [at : {"idle", "ask", "visit", "reply"}, todo : SUBSET sessions,
                        seen : SUBSET Snapshot]]
  /\ stop \in [Page -> [at : {"idle", "ask", "send", "answer"}, id : Session \cup {Free}]]
  /\ page \in [Page -> {"new", "open", "gone"}] /\ link \subseteq Page
  /\ \A p \in Page : chan[p] \in Seq(Event) /\ Len(chan[p]) <= ChanSize
  /\ drops \in 0 .. MaxDrop /\ card \in [Page -> SUBSET started]
  /\ excused \in [Page -> SUBSET Removed]

\* A list never shows a session between the two halves of applySignal, although it
\* runs among ticking sessions.
SnapshotsAreWhole ==
  /\ TypeOK
  /\ \A p \in Page : \A snap \in list[p].seen : snap.whole

\* A page keeps the card of a session that was stopped, with nothing about the session
\* under way to it, for one of three reasons only: a tick was broadcast after the removal
\* (SendTick), the removal did not reach the page (StopSends, HangUp), or the page got a
\* list taken before the removal after it (RenderList).
UnderWay(p, s) == {<<"tick", s>>, <<"remove", s>>} \cap Range(chan[p]) # {}
BeingStopped(s) == \E p \in Page : stop[p] = [at |-> "send", id |-> s]

GhostsExplained ==
  \A p \in Page : \A s \in card[p] \ sessions :
    UnderWay(p, s) \/ BeingStopped(s) \/ s \in excused[p]

\* Every list and every stop is answered, although sessions run Python under their
\* mutex and a list waits for them with sm.mu in hand.
RequestsEnd ==
  \A p \in Page :
    /\ (list[p].at = "ask") ~> (list[p].at = "idle" \/ ~up)
    /\ (stop[p].at = "ask") ~> (stop[p].at = "idle" \/ ~up)

\* The goroutine of a session that was stopped comes to its end.
StoppedSessionEnds ==
  \A s \in Session : (s \in started \ sessions) ~> (pc[s] = "done" \/ ~up)

\* A page that keeps up shows every session that runs, the ones that were started before
\* it was loaded and the ones it had no news of while its event stream was broken.
Full(p) == Len(chan[p]) = ChanSize

RunningIsShown ==
  \A p \in Page : \A s \in Session :
    (s \in sessions /\ page[p] = "open")
      ~> (s \in card[p] \/ s \notin sessions \/ page[p] # "open" \/ Full(p) \/ ~up)
=============================================================================
