------------------------------ MODULE Ingester ------------------------------
(***************************************************************************)
(* The Binance ingester (cmd/ingester-binance/main.go with                 *)
(* internal/ingester/binance.go): a goroutine that reads the WebSocket and *)
(* reconnects, a goroutine that publishes to Redis, a buffered channel     *)
(* between them, and one watcher goroutine per connection that closes the  *)
(* connection when the root context is cancelled.                          *)
(*                                                                         *)
(* A trade is named by its number at the exchange; a tick is the trade it  *)
(* was made from, 0 standing for the zero value of binanceTrade.           *)
(*                                                                         *)
(* An operator marked "bug" is no part of Next: it puts a plausible error  *)
(* in the definition below it, to show that a property would notice.       *)
(***************************************************************************)
EXTENDS Integers, Sequences, Functions

CONSTANTS
  MaxTrade,    \* bound on the trades made at the exchange
  MaxDial,     \* bound on the connections opened
  MaxOdd,      \* bound on the frames that are JSON but no trade
  ChannelSize, \* capacity of the channel (1000 in the code)
  MaxBackoff,  \* longest wait before a reconnection, in seconds (30 in the code)
  Sends,       \* how often the Redis client sends one command (MaxRetries + 1: 4)
  Faults       \* the faults a run allows, see FaultKind

FaultKind == {"sigint", "network", "redis"}

ASSUME IngesterAssumption ==
  /\ {MaxTrade, MaxDial, MaxOdd, ChannelSize} \subseteq Nat
  /\ MaxBackoff \in Nat \ {0}
  /\ Sends \in Nat \ {0}
  /\ Faults \subseteq FaultKind

Tick == 0 .. MaxTrade

VARIABLES
  ctx,       \* the root context: "live" or "done"
  main,      \* main: "wait" for the context, "drain" (wg.Wait), "stopped"
  sub,       \* control point of the subscribe goroutine
  backoff,   \* its next wait, in seconds
  conn,      \* its connection: "none", "open", or "shut" by the watcher
  envelope,  \* the trade in Subscribe's one envelope variable
  ch,        \* the buffered ticks
  closed,    \* "yes" once close(ch) was called
  pub,       \* control point of the publish goroutine
  item,      \* the tick it is publishing
  watching,  \* dials whose watcher goroutine still waits for the context
  traded,    \* number of trades made at the exchange
  arrived,   \* the last trade that reached the connection
  heard,     \* the last trade ReadMessage returned, or made before the dial
  dials,     \* number of connections opened
  odd,       \* number of frames read that were no trade
  stored,    \* history: the ticks appended to the stream "ticks"
  dropped,   \* history: ticks that found the channel full
  refused    \* history: ticks whose XADD returned an error

vars == <<ctx, main, sub, backoff, conn, envelope, ch, closed, pub, item,
          watching, traded, arrived, heard, dials, odd, stored, dropped, refused>>
exchange == <<traded, arrived, odd>>
subscriber == <<sub, backoff, conn, envelope, dials, watching, heard, exchange>>
publisher == <<pub, item, stored, refused>>

Init ==
  /\ ctx = "live" /\ main = "wait"
  /\ sub = "dial" /\ backoff = 1 /\ conn = "none" /\ envelope = 0
  /\ ch = <<>> /\ closed = "no"
  /\ pub = "receive" /\ item = 0
  /\ watching = {} /\ dials = 0
  /\ traded = 0 /\ arrived = 0 /\ heard = 0 /\ odd = 0
  /\ stored = <<>> /\ dropped = {} /\ refused = {}

(***************************************************************************)
(* The subscribe goroutine.                                                *)
(***************************************************************************)

\* The deferred close(ch) runs when the goroutine leaves its loop.
ClosesAlways == "yes"                                       \* bug: on every return
Closes == IF ctx = "done" THEN "yes" ELSE closed

\* Subscribe has returned: leave if the context is done, else wait.
LeaveOrWait ==
  /\ conn' = "none"
  /\ sub' = IF ctx = "done" THEN "done" ELSE "backoff"
  /\ closed' = Closes

\* DialContext succeeds; Subscribe starts the watcher and declares its envelope.
Dial ==
  /\ sub = "dial" /\ ctx = "live"
  /\ dials < MaxDial
  /\ dials' = dials + 1
  /\ watching' = watching \cup {dials + 1}
  /\ conn' = "open" /\ envelope' = 0
  /\ arrived' = traded /\ heard' = traded
  /\ sub' = "read"
  /\ UNCHANGED <<ctx, main, backoff, ch, closed, publisher, traded, odd, dropped>>

DialFails ==
  /\ sub = "dial"
  /\ ctx = "done" \/ "network" \in Faults
  /\ LeaveOrWait
  /\ UNCHANGED <<ctx, main, backoff, envelope, ch, publisher, watching, exchange, heard,
                 dials, dropped>>

\* A trade is made; without a connection nobody here hears of it.
Trade ==
  /\ traded < MaxTrade
  /\ traded' = traded + 1
  /\ arrived' = IF conn = "open" THEN traded + 1 ELSE arrived
  /\ UNCHANGED <<ctx, main, sub, backoff, conn, envelope, ch, closed, publisher,
                 watching, heard, dials, odd, dropped>>

\* ReadMessage returns a trade, possibly one still buffered after the connection
\* was shut, and it is decoded.
ReadTrade ==
  /\ sub = "read" /\ heard < arrived
  /\ heard' = heard + 1
  /\ envelope' = heard + 1
  /\ sub' = "send"
  /\ UNCHANGED <<ctx, main, backoff, conn, ch, closed, publisher,
                 watching, exchange, dials, dropped>>

\* A frame that is JSON but no trade leaves the envelope as the last trade set it;
\* one that is no JSON is skipped and changes nothing.
OddFrame ==
  /\ odd < MaxOdd
  /\ odd' = odd + 1
  /\ sub = "read" /\ conn = "open"
  /\ sub' = "send"
  /\ UNCHANGED <<ctx, main, backoff, conn, envelope, ch, closed, publisher,
                 watching, traded, arrived, heard, dials, dropped>>

\* ReadMessage fails: the network, or the watcher has closed the connection.
ReadFails ==
  /\ sub = "read"
  /\ conn = "shut" \/ "network" \in Faults
  /\ LeaveOrWait
  /\ UNCHANGED <<ctx, main, backoff, envelope, ch, publisher, watching, exchange, heard,
                 dials, dropped>>

\* select { case out <- t: default: }
SendBlocks == Len(ch) < ChannelSize                         \* bug: no default case
SendReady == TRUE

PutLast == Append(ch, envelope)
Room == Len(ch) < ChannelSize

Send ==
  /\ sub = "send" /\ SendReady
  /\ ch' = IF Room THEN PutLast ELSE ch
  /\ dropped' = IF Room THEN dropped ELSE dropped \cup {envelope}
  /\ sub' = "read"
  /\ UNCHANGED <<ctx, main, backoff, conn, envelope, closed, publisher,
                 watching, exchange, heard, dials>>

\* The wait before the reconnection is over, or the context is done: when both are,
\* select takes either.  The wait is doubled and never set back.
NextBackoff == IF backoff * 2 < MaxBackoff THEN backoff * 2 ELSE MaxBackoff

BackoffOver ==
  /\ sub = "backoff"
  /\ sub' = "dial"
  /\ backoff' = NextBackoff
  /\ UNCHANGED <<ctx, main, conn, envelope, ch, closed, publisher,
                 watching, exchange, heard, dials, dropped>>

BackoffCancelled ==
  /\ sub = "backoff" /\ ctx = "done"
  /\ sub' = "done" /\ closed' = "yes"
  /\ UNCHANGED <<ctx, main, backoff, conn, envelope, ch, publisher,
                 watching, exchange, heard, dials, dropped>>

\* The watcher of connection d wakes up: only the last one's is still in use.
Watch(d) ==
  /\ d \in watching /\ ctx = "done"
  /\ watching' = watching \ {d}
  /\ conn' = IF d = dials /\ conn = "open" THEN "shut" ELSE conn
  /\ UNCHANGED <<ctx, main, sub, backoff, envelope, ch, closed, publisher,
                 exchange, heard, dials, dropped>>

(***************************************************************************)
(* The publish goroutine.  At "publish" the XADD is under way; go-redis    *)
(* refuses to start one with a cancelled context, and the goroutine leaves *)
(* with the tick in its hand and whatever the channel still holds.         *)
(***************************************************************************)
Receive ==
  /\ pub = "receive" /\ ch # <<>>
  /\ item' = Head(ch)
  /\ ch' = Tail(ch)
  /\ pub' = IF ctx = "done" THEN "done" ELSE "publish"
  /\ UNCHANGED <<ctx, main, subscriber, closed, stored, dropped, refused>>

ReceiveClosed ==
  /\ pub = "receive" /\ ch = <<>> /\ closed = "yes"
  /\ pub' = "done"
  /\ UNCHANGED <<ctx, main, subscriber, ch, closed, item, stored, dropped, refused>>

\* The client sends an XADD again when its answer does not come, with the same tick
\* and a new entry id.
Copies(n) == [k \in 1 .. n |-> item]
Resends == IF "redis" \in Faults THEN Sends ELSE 1

Publish ==
  /\ pub = "publish"
  /\ \E n \in 1 .. Resends : stored' = stored \o Copies(n)
  /\ pub' = "receive"
  /\ UNCHANGED <<ctx, main, subscriber, ch, closed, item, dropped, refused>>

\* bus.Publish returns an error, whatever Redis has stored of the tick by then: it is
\* logged and the next tick is taken.
AfterFailureQuits == "done"                                 \* bug: return on any error
AfterFailure == IF ctx = "done" THEN "done" ELSE "receive"

Requeued == IF Room THEN Append(ch, item) ELSE ch           \* bug: try it again later
Abandoned == ch

PublishFails ==
  /\ pub = "publish" /\ "redis" \in Faults
  /\ \E n \in 0 .. Resends : stored' = stored \o Copies(n)
  /\ ch' = Abandoned
  /\ pub' = AfterFailure
  /\ refused' = refused \cup {item}
  /\ UNCHANGED <<ctx, main, subscriber, closed, item, dropped>>

(***************************************************************************)
(* main.                                                                   *)
(***************************************************************************)
Sigint ==
  /\ "sigint" \in Faults
  /\ ctx = "live"
  /\ ctx' = "done"
  /\ UNCHANGED <<main, subscriber, ch, closed, publisher, dropped>>

Drain ==
  /\ main = "wait" /\ ctx = "done"
  /\ main' = "drain"
  /\ UNCHANGED <<ctx, subscriber, ch, closed, publisher, dropped>>

\* wg.Wait returns; the process ends, and its goroutines with it.
Stop ==
  /\ main = "drain" /\ sub = "done" /\ pub = "done"
  /\ main' = "stopped"
  /\ UNCHANGED <<ctx, subscriber, ch, closed, publisher, dropped>>

Running == main # "stopped"

Next ==
  \/ /\ Running
     /\ \/ Dial \/ DialFails \/ ReadTrade \/ OddFrame \/ ReadFails \/ Send
        \/ BackoffOver \/ BackoffCancelled \/ \E d \in 1 .. MaxDial : Watch(d)
        \/ Receive \/ ReceiveClosed \/ Publish \/ PublishFails
        \/ Sigint \/ Drain \/ Stop
  \/ Trade

Spec == Init /\ [][Next]_vars

(***************************************************************************)
(* Fairness: a goroutine that can go on does.  The exchange, the network,  *)
(* Redis' errors and the signal are under no obligation; the publisher is  *)
(* not refused for ever.                                                   *)
(***************************************************************************)
Fairness ==
  /\ WF_vars(Running /\ (Dial \/ DialFails))
  /\ WF_vars(Running /\ ReadTrade) /\ WF_vars(Running /\ Send)
  /\ WF_vars(Running /\ conn = "shut" /\ ReadFails)
  /\ WF_vars(Running /\ (BackoffOver \/ BackoffCancelled))
  /\ \A d \in 1 .. MaxDial : WF_vars(Running /\ Watch(d))
  /\ WF_vars(Running /\ (Receive \/ ReceiveClosed))
  /\ WF_vars(Running /\ (Publish \/ PublishFails))
  /\ WF_vars(Running /\ Drain) /\ WF_vars(Running /\ Stop)

FairSpec == Spec /\ Fairness
(***************************************************************************)
(* Properties.                                                             *)
(***************************************************************************)
\* The types, the channel within its capacity and the backoff within its cap.
TypeOK ==
  /\ ctx \in {"live", "done"} /\ main \in {"wait", "drain", "stopped"}
  /\ sub \in {"dial", "read", "send", "backoff", "done"}
  /\ backoff \in 1 .. MaxBackoff
  /\ conn \in {"none", "open", "shut"} /\ envelope \in Tick
  /\ ch \in Seq(Tick) /\ Len(ch) <= ChannelSize /\ closed \in {"yes", "no"}
  /\ pub \in {"receive", "publish", "done"} /\ item \in Tick
  /\ watching \subseteq 1 .. MaxDial /\ dials \in 0 .. MaxDial
  /\ odd \in 0 .. MaxOdd /\ traded \in Tick /\ arrived \in 0 .. traded /\ heard \in 0 .. arrived
  /\ stored \in Seq(Tick) /\ {dropped, refused} \subseteq SUBSET Tick

\* The ticks the program still has: in the publisher's hand, in the channel, about to be
\* sent; and behind them what the stream got, in the order in which it gets them.
Hand == IF pub = "publish" THEN <<item>> ELSE <<>>
Coming == IF sub = "send" THEN <<envelope>> ELSE <<>>
Underway == Hand \o ch \o Coming
Pipeline == stored \o Underway

Increasing(seq) == \A i, j \in DOMAIN seq : i < j => seq[i] < seq[j]

\* No trade behind a newer one; the zero value is no trade.
NeverBackwards(seq) ==
  \A i, j \in DOMAIN seq : i < j => seq[i] = 0 \/ seq[j] = 0 \/ seq[i] <= seq[j]

\* Two goroutines, a channel that drops and reconnections in between: the stream never
\* gets a trade behind a newer one, whatever frames arrive and whatever the client sends
\* again.  As long as only trades arrive, each is offered to Redis once (only the client
\* repeats it, before the next one), and one that was dropped or failed is not offered again.
InOrder ==
  /\ NeverBackwards(Pipeline)
  /\ odd = 0 =>
       /\ Increasing(Underway)
       /\ Range(stored) \cap Range(Underway) = {}
       /\ Range(Pipeline) \cap dropped = {}
       /\ Range(Underway) \cap refused = {}

\* The channel keeps its types and its capacity, and is closed only when nobody will send
\* on it again (a send would panic).
ClosedAfterLastSend ==
  /\ TypeOK
  /\ closed = "yes" => sub = "done"

\* What entered the channel is stored, unless the XADD of that very tick fails or the
\* process is told to stop: the publisher never leaves before the reader.
AcceptedIsStored ==
  \A t \in Tick : (t \in Range(ch)) ~> (t \in Range(stored) \cup refused \/ ctx = "done")

\* SIGINT ends the process wherever its goroutines are: in a dial, a read that
\* only the watcher can end, a backoff, or with the channel full.
SignalStops == (ctx = "done") ~> (main = "stopped")

(***************************************************************************)
(* What the documentation says and the code does not do.                   *)
(***************************************************************************)

\* cmd/ingester-binance/main.go:43, README.md:26: the closed channel tells the publish
\* goroutine to drain it and exit, so nothing is left in it when the process ends.
DrainedAtStop == main = "stopped" => ch = <<>>
=============================================================================
