-------------------------------- MODULE Hub --------------------------------
(***************************************************************************)
(* The dashboard's event path (cmd/dashboard/main.go): readStreams reads   *)
(* the streams "ticks" and "alerts-clean" with one XREAD, the hub hands    *)
(* every event to a buffered channel per browser, and one serveSSE         *)
(* goroutine per browser empties its channel.  The session manager         *)
(* (livestrategy.go) broadcasts its own events from other goroutines.      *)
(*                                                                         *)
(* A stream entry is named by its position in its stream, an event by its  *)
(* position in the sequence of all broadcasts, and a browser's channel     *)
(* holds such positions.                                                   *)
(*                                                                         *)
(* XADD trims a prefix, so the entries present are trimmed+1 .. tail, and  *)
(* a reader that lags or tries again finds the ones it has missed gone.    *)
(* Every producer writes the field "data": an entry without it is left out.*)
(*                                                                         *)
(* An operator marked "bug" is no part of Next: it puts a plausible error  *)
(* in the definition below it, to show that a property would notice.       *)
(***************************************************************************)
EXTENDS Integers, Sequences, Functions, FiniteSetsExt

CONSTANTS
  Client,     \* browsers
  MaxEntry,   \* bound on the entries appended to each stream: [Stream -> Nat]
  MaxLen,     \* MAXLEN of each stream (100_000 and 10_000 in the code)
  MaxSession, \* bound on the events the session manager broadcasts
  MaxVisit,   \* bound on the connections a browser opens
  ChanSize,   \* capacity of a browser's channel (64 in the code)
  BatchSize,  \* COUNT of XREAD (50 in the code)
  Faults      \* the faults a run allows, see FaultKind

Stream == {"ticks", "alerts-clean"}
FaultKind == {"replylost", "leave"}

ASSUME HubAssumption ==
  /\ MaxEntry \in [Stream -> Nat] /\ MaxLen \in [Stream -> Nat \ {0}]
  /\ {MaxSession, MaxVisit} \subseteq Nat
  /\ {ChanSize, BatchSize} \subseteq Nat \ {0}
  /\ Faults \subseteq FaultKind

Free == "free"
Broadcaster == {"reader", "session"}

VARIABLES
  tail,      \* number of entries ever appended to each stream
  trimmed,   \* entries 1 .. trimmed of a stream are no longer in it
  pc,        \* control point of readStreams
  lastID,    \* ticksID and alertsID; Newest is "$"
  base,      \* the ids the XREAD under way waits to see exceeded
  reply,     \* the entries of the reply not handled yet, as pairs <<stream, id>>
  told,      \* events the session manager has asked the hub to broadcast
  asking,    \* the session manager waits for hub.mu with an event
  lock,      \* who holds hub.mu for a broadcast
  pending,   \* the channels the broadcast under way has yet to offer its event to
  clients,   \* hub.clients: the browsers with a channel
  chan,      \* the content of each channel
  at,        \* control point of each browser's serveSSE goroutine
  sent,      \* history: the events broadcast, in order
  visits,    \* number of connections each browser has opened
  since,     \* history: number of broadcasts before a browser's subscription
  last,      \* history: position of the event a browser was sent last
  received,  \* history: number of events a browser was sent since its subscription
  missed     \* history: number of events dropped for it since its subscription

reader == <<pc, lastID, base, reply>>
browser == <<clients, chan, at, visits, since, last, received, missed>>
session == <<told, asking>>
streams == <<tail, trimmed>>
vars == <<streams, reader, session, lock, pending, sent, browser>>

Newest == 0

Init ==
  /\ tail = [s \in Stream |-> 0] /\ trimmed = [s \in Stream |-> 0]
  /\ pc = "call" /\ lastID = [s \in Stream |-> Newest]
  /\ base = [s \in Stream |-> 0] /\ reply = <<>>
  /\ told = 0 /\ asking = FALSE
  /\ lock = Free /\ pending = {} /\ sent = <<>>
  /\ clients = {} /\ at = [c \in Client |-> "away"] /\ visits = [c \in Client |-> 0]
  /\ chan = [c \in Client |-> <<>>]
  /\ since = [c \in Client |-> 0] /\ last = [c \in Client |-> 0]
  /\ received = [c \in Client |-> 0] /\ missed = [c \in Client |-> 0]

(***************************************************************************)
(* Redis.  XREAD answers at once with what every stream has after its id;  *)
(* if that is nothing it blocks, and the next entry of either stream is    *)
(* the answer.  "$" is the newest id at the moment of the call.            *)
(***************************************************************************)
ReadAfter(s) == IF lastID[s] = Newest THEN tail[s] ELSE lastID[s]

\* The entries of s after id n that are still there, as far as COUNT allows.
Entries(s, n) ==
  LET gone == IF trimmed[s] > n THEN trimmed[s] ELSE n
      size == Min({tail[s] - gone, BatchSize})
  IN  [k \in 1 .. size |-> <<s, gone + k>>]

\* With an approximate MAXLEN Redis may keep more than MaxLen entries, never fewer.
TrimPoints(s) ==
  {t \in trimmed[s] .. tail[s] + 1 : t = trimmed[s] \/ tail[s] + 1 - t >= MaxLen[s]}

Add(s) ==
  /\ tail[s] < MaxEntry[s]
  /\ tail' = [tail EXCEPT ![s] = @ + 1]
  /\ \E t \in TrimPoints(s) : trimmed' = [trimmed EXCEPT ![s] = t]
  /\ IF pc = "blocked"
       THEN pc' = "reply" /\ reply' = <<<<s, tail[s] + 1>>>>
       ELSE UNCHANGED <<pc, reply>>
  /\ UNCHANGED <<lastID, base, session, lock, pending, sent, browser>>

(***************************************************************************)
(* readStreams.                                                            *)
(***************************************************************************)
Call ==
  /\ pc = "call"
  /\ base' = [s \in Stream |-> ReadAfter(s)]
  /\ reply' = Entries("ticks", base'["ticks"]) \o Entries("alerts-clean", base'["alerts-clean"])
  /\ pc' = IF reply' = <<>> THEN "blocked" ELSE "reply"
  /\ UNCHANGED <<streams, lastID, session, lock, pending, sent, browser>>

\* Nothing within 100 ms: read again with the same ids.
ReadNothing ==
  /\ pc = "blocked"
  /\ pc' = "call"
  /\ UNCHANGED <<streams, lastID, base, reply, session, lock, pending, sent, browser>>

\* The answer arrives, or is lost on its way: then XRead returns an error and the
\* ids stay as they are.
ReceiveReply ==
  /\ pc = "reply"
  /\ pc' = "handle"
  /\ UNCHANGED <<streams, lastID, base, reply, session, lock, pending, sent, browser>>

ReplyLost ==
  /\ "replylost" \in Faults
  /\ pc = "reply"
  /\ pc' = "call" /\ reply' = <<>>
  /\ UNCHANGED <<streams, lastID, base, session, lock, pending, sent, browser>>

(***************************************************************************)
(* hub.broadcast: under hub.mu it offers the event to one channel after    *)
(* the other, in any order, and passes over a channel that is full.        *)
(***************************************************************************)
Lock(b, event) ==
  /\ lock = Free
  /\ lock' = b
  /\ sent' = Append(sent, event)
  /\ pending' = clients

\* readStreams notes the id before it broadcasts.
IdForgotten(s) == Newest                                    \* bug: id not updated
IdBefore(s) == Head(reply)[2] - 1                           \* bug: id of the one before
IdRead(s) == Head(reply)[2]

ReaderLocks ==
  /\ pc = "handle"
  /\ Lock("reader", Head(reply))
  /\ LET s == Head(reply)[1] IN lastID' = [lastID EXCEPT ![s] = IdRead(s)]
  /\ UNCHANGED <<streams, pc, base, reply, session, browser>>

\* The session manager broadcasts strategy_tick and strategy_remove.
Ask ==
  /\ ~asking /\ told < MaxSession
  /\ asking' = TRUE /\ told' = told + 1
  /\ UNCHANGED <<streams, reader, lock, pending, sent, browser>>

SessionLocks ==
  /\ asking
  /\ Lock("session", <<"session", told>>)
  /\ UNCHANGED <<streams, reader, session, browser>>

WaitsForRoom(c) == Len(chan[c]) < ChanSize                  \* bug: no default case
Ready(c) == TRUE
Room(c) == Len(chan[c]) < ChanSize

PutInFront(c) == <<Len(sent)>> \o chan[c]                   \* bug: newest first
PutLast(c) == Append(chan[c], Len(sent))

Offer(c) ==
  /\ lock # Free /\ c \in pending /\ Ready(c)
  /\ pending' = pending \ {c}
  /\ IF Room(c)
       THEN chan' = [chan EXCEPT ![c] = PutLast(c)] /\ UNCHANGED missed
       ELSE missed' = [missed EXCEPT ![c] = @ + 1] /\ UNCHANGED chan
  /\ UNCHANGED <<streams, reader, session, lock, sent, clients, at, visits, since, last,
                 received>>

ReaderUnlocks ==
  /\ lock = "reader" /\ pending = {}
  /\ lock' = Free
  /\ reply' = Tail(reply)
  /\ pc' = IF Len(reply) > 1 THEN "handle" ELSE "call"
  /\ UNCHANGED <<streams, lastID, base, session, pending, sent, browser>>

SessionUnlocks ==
  /\ lock = "session" /\ pending = {}
  /\ lock' = Free
  /\ asking' = FALSE
  /\ UNCHANGED <<streams, reader, told, pending, sent, browser>>

(***************************************************************************)
(* serveSSE: subscribe, write events to the browser until its request is   *)
(* cancelled, unsubscribe.  A browser that has lost its connection opens a *)
(* new one.                                                                *)
(***************************************************************************)
Subscribe(c) ==
  /\ at[c] = "away" /\ lock = Free
  /\ visits[c] < MaxVisit
  /\ visits' = [visits EXCEPT ![c] = @ + 1]
  /\ clients' = clients \cup {c}
  /\ chan' = [chan EXCEPT ![c] = <<>>]
  /\ at' = [at EXCEPT ![c] = "listen"]
  /\ since' = [since EXCEPT ![c] = Len(sent)] /\ last' = [last EXCEPT ![c] = 0]
  /\ received' = [received EXCEPT ![c] = 0] /\ missed' = [missed EXCEPT ![c] = 0]
  /\ UNCHANGED <<streams, reader, session, lock, pending, sent>>

Write(c) ==
  /\ at[c] = "listen" /\ chan[c] # <<>>
  /\ chan' = [chan EXCEPT ![c] = Tail(@)]
  /\ last' = [last EXCEPT ![c] = Head(chan[c])]
  /\ received' = [received EXCEPT ![c] = @ + 1]
  /\ UNCHANGED <<streams, reader, session, lock, pending, sent, clients, at, visits, since,
                 missed>>

Leave(c) ==
  /\ "leave" \in Faults
  /\ at[c] = "listen"
  /\ at' = [at EXCEPT ![c] = "leave"]
  /\ UNCHANGED <<streams, reader, session, lock, pending, sent, clients, chan, visits, since,
                 last, received, missed>>

\* delete and close happen under hub.mu, so no broadcast is in between.
CanCloseAtAnyTime == TRUE                                   \* bug: without hub.mu
CanClose == lock = Free

Unsubscribe(c) ==
  /\ at[c] = "leave" /\ CanClose
  /\ clients' = clients \ {c}
  /\ chan' = [chan EXCEPT ![c] = <<>>]
  /\ at' = [at EXCEPT ![c] = "away"]
  /\ UNCHANGED <<streams, reader, session, lock, pending, sent, visits, since, last, received,
                 missed>>

Browser(c) == Subscribe(c) \/ Write(c) \/ Leave(c) \/ Unsubscribe(c)

Next ==
  \/ \E s \in Stream : Add(s)
  \/ Call \/ ReadNothing \/ ReceiveReply \/ ReplyLost \/ ReaderLocks \/ ReaderUnlocks
  \/ Ask \/ SessionLocks \/ SessionUnlocks
  \/ \E c \in Client : Offer(c) \/ Browser(c)

Spec == Init /\ [][Next]_vars

(***************************************************************************)
(* Fairness: every goroutine that can go on does, a Go mutex starves       *)
(* nobody, and Redis' answers are not lost for ever.                       *)
(***************************************************************************)
Fairness ==
  /\ WF_vars(Call) /\ WF_vars(ReadNothing)
  /\ WF_vars(ReceiveReply \/ ReplyLost) /\ SF_vars(ReceiveReply)
  /\ SF_vars(ReaderLocks) /\ WF_vars(ReaderUnlocks)
  /\ SF_vars(SessionLocks) /\ WF_vars(SessionUnlocks)
  /\ \A c \in Client :
       WF_vars(Offer(c)) /\ WF_vars(Write(c)) /\ SF_vars(Unsubscribe(c))

FairSpec == Spec /\ Fairness

(***************************************************************************)
(* Properties.                                                             *)
(***************************************************************************)
Events == Len(sent)

\* The types; a channel stays within its capacity and no position is ahead of its stream.
TypeOK ==
  /\ \A s \in Stream :
       /\ tail[s] \in 0 .. MaxEntry[s] /\ trimmed[s] \in 0 .. tail[s]
       /\ lastID[s] \in 0 .. tail[s] /\ base[s] \in 0 .. tail[s]
  /\ pc \in {"call", "blocked", "reply", "handle"}
  /\ reply \in Seq(Stream \X Nat) /\ (reply = <<>> <=> pc \in {"call", "blocked"})
  /\ told \in 0 .. MaxSession /\ asking \in BOOLEAN
  /\ lock \in {Free} \cup Broadcaster /\ pending \subseteq Client /\ clients \subseteq Client
  /\ visits \in [Client -> 0 .. MaxVisit]
  /\ at \in [Client -> {"away", "listen", "leave"}]
  /\ \A c \in Client : chan[c] \in Seq(1 .. Events) /\ Len(chan[c]) <= ChanSize
  /\ {since, last, received, missed} \subseteq [Client -> 0 .. Events]

\* No event is offered to a channel that was closed (a panic), nor to one twice: what a
\* broadcast still has to visit is subscribed, although browsers come and go.
OffersReachOpenChannels ==
  /\ TypeOK
  /\ pending \subseteq clients
  /\ \A c \in Client : c \in clients <=> at[c] # "away"

\* A browser gets the events in the order of the broadcasts, none twice, and every one
\* since its subscription is with it, in its channel, or was dropped.
Unfinished(c) == IF c \in pending THEN 1 ELSE 0

EventsAccountedFor ==
  \A c \in clients :
    LET held == <<last[c]>> \o chan[c]
    IN  /\ \A k \in 1 .. Len(held) - 1 : held[k] < held[k + 1]
        /\ received[c] + Len(chan[c]) + missed[c] + Unfinished(c) = Events - since[c]

\* Nothing is broadcast twice or behind a newer entry, and once the first entry of a
\* stream has replaced "$" no entry of it is passed over, also when replies are lost, but
\* those Redis has trimmed before the reader came to them.
Successive(s, j, k) ==
  /\ j < k /\ sent[j][1] = s /\ sent[k][1] = s
  /\ \A m \in j + 1 .. k - 1 : sent[m][1] # s

SkipsOnlyTrimmed ==
  \A s \in Stream : \A j, k \in 1 .. Events :
    Successive(s, j, k) =>
      /\ sent[j][2] < sent[k][2]
      /\ sent[k][2] = sent[j][2] + 1 \/ sent[k][2] - 1 <= trimmed[s]

\* What is appended to a stream after its first broadcast is broadcast in the end, unless
\* Redis trims it.
AnchoredIsBroadcast ==
  \A s \in Stream : \A i \in 2 .. MaxEntry[s] :
    (i <= tail[s] /\ \E n \in 1 .. i - 1 : <<s, n>> \in Range(sent))
      ~> (<<s, i>> \in Range(sent) \/ i <= trimmed[s])

\* No browser, slow or gone, holds up the hub: an event the session manager has to
\* broadcast is broadcast, and a browser that leaves is let go.
HubNeverStalls ==
  /\ asking ~> ~asking
  /\ \A c \in Client : (at[c] = "leave") ~> (at[c] # "leave")
=============================================================================
