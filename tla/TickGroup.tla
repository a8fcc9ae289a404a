----------------------------- MODULE TickGroup -----------------------------
(***************************************************************************)
(* The detector workers (cmd/detector/main.go) as one Redis consumer group *)
(* over the stream "ticks" (internal/bus/redis.go).                        *)
(*                                                                         *)
(* A stream entry is named by its position in the stream: entry i is the   *)
(* i-th tick ever published.  XADD trims a prefix, so the entries present  *)
(* are trimmed+1 .. tail.  A worker reads only the id ">", so each reply   *)
(* is a contiguous interval of entries never delivered before, and a batch *)
(* is the interval cursor[w] .. upto[w] of what is left of the last reply. *)
(*                                                                         *)
(* An operator marked "bug" is no part of Next: it puts a plausible error  *)
(* in the definition below it, to show that a property would notice.       *)
(***************************************************************************)
EXTENDS Integers, FiniteSets

CONSTANTS
  Worker,     \* detector containers; also the consumer names (hostname)
  NoWorker,   \* "no consumer": the entry is not in the pending list
  MaxTick,    \* bound on the number of ticks published
  BatchSize,  \* COUNT of XREADGROUP (batchSize, 100 in the code)
  MaxLen,     \* MAXLEN of the stream (100_000 in the code)
  MaxAlert,   \* most alerts one tick can raise in Registry.OnTick
  Sends,      \* how often the Redis client sends one command (MaxRetries + 1: 4)
  Faults      \* the environment faults a run allows, see FaultKind

FaultKind == {"crash", "sigint", "ackfail", "replylost", "wipe"}

ASSUME TickGroupAssumption ==
  /\ NoWorker \notin Worker
  /\ MaxTick \in Nat
  /\ BatchSize \in Nat \ {0}
  /\ MaxLen \in Nat
  /\ MaxAlert \in Nat
  /\ Sends \in Nat \ {0}
  /\ Faults \subseteq FaultKind

Tick == 1 .. MaxTick

VARIABLES
  tail,           \* number of entries ever appended to "ticks"
  trimmed,        \* entries 1 .. trimmed are no longer in the stream
  groupExists,    \* the consumer group "detectors" exists in Redis
  lastDelivered,  \* the group's last-delivered-id
  owner,          \* the pending entries list: entry -> consumer or NoWorker
  pc,             \* control point of each worker's only goroutine
  cancelled,      \* the workers whose root context is cancelled (SIGINT/SIGTERM)
  cursor, upto,   \* the rest of the reply being processed
  todo,           \* alerts of the current tick not yet offered to PublishAlert
  runs,           \* history: how often the detectors saw each tick
  bad,            \* history: entries whose payload did not decode
  deliveries,     \* history: how often an XREADGROUP took each entry
  acked,          \* history: entries an XACK removed from the pending list
  raised,         \* history: alerts the detectors returned for each tick
  published,      \* history: entries appended to "alerts" for each tick
  faulted,        \* history: workers hit by a fault that can strand entries
  wiped           \* history: Redis has lost its data at least once

redis == <<tail, trimmed, groupExists, lastDelivered, owner>>
proc == <<pc, cancelled, cursor, upto, todo>>
hist == <<runs, bad, deliveries, acked, raised, published, faulted, wiped>>
vars == <<redis, proc, hist>>

\* The entries some XREADGROUP took from the stream.
delivered == {i \in Tick : deliveries[i] > 0}

\* The messages of the last reply that the worker has not finished with.
Held(w) == cursor[w] .. upto[w]

Stopped == {"down", "starting"}
Pc == Stopped \cup {"call", "blocked", "handle", "publish", "ack"}

Init ==
  /\ tail = 0 /\ trimmed = 0
  /\ groupExists = FALSE /\ lastDelivered = 0
  /\ owner = [i \in Tick |-> NoWorker]
  /\ pc = [w \in Worker |-> "down"]
  /\ cancelled = {}
  /\ cursor = [w \in Worker |-> 1]
  /\ upto = [w \in Worker |-> 0]
  /\ todo = [w \in Worker |-> 0]
  /\ runs = [i \in Tick |-> 0]
  /\ deliveries = [i \in Tick |-> 0]
  /\ bad = {} /\ acked = {}
  /\ raised = [i \in Tick |-> 0]
  /\ published = [i \in Tick |-> 0]
  /\ faulted = {} /\ wiped = FALSE

(***************************************************************************)
(* The producer's side: bus.Publish.  With an approximate MAXLEN Redis may *)
(* keep more than MaxLen entries, never fewer.                             *)
(***************************************************************************)
TrimPoints == {t \in trimmed .. tail + 1 : t = trimmed \/ tail + 1 - t >= MaxLen}

Publish ==
  /\ tail < MaxTick
  /\ tail' = tail + 1
  /\ trimmed' \in TrimPoints
  /\ UNCHANGED <<groupExists, lastDelivered, owner, proc, hist>>

(***************************************************************************)
(* The worker.                                                             *)
(***************************************************************************)

\* The container (re)starts: an empty process with a live context.
Start(w) ==
  /\ pc[w] = "down"
  /\ pc' = [pc EXCEPT ![w] = "starting"]
  /\ cancelled' = cancelled \ {w}
  /\ UNCHANGED <<redis, cursor, upto, todo, hist>>

\* XGROUP CREATE ticks detectors 0 MKSTREAM; BUSYGROUP is not an error.
GroupStartReset == 0                                        \* bug: SETID 0
GroupStartAtEnd == IF groupExists THEN lastDelivered ELSE tail \* bug: "$" for "0"
GroupStart == IF groupExists THEN lastDelivered ELSE 0

CreateGroup(w) ==
  /\ pc[w] = "starting" /\ w \notin cancelled
  /\ groupExists' = TRUE
  /\ lastDelivered' = GroupStart
  /\ pc' = [pc EXCEPT ![w] = "call"]
  /\ UNCHANGED <<tail, trimmed, owner, cancelled, cursor, upto, todo, hist>>

\* Any other error of XGROUP CREATE is fatal: log.Fatalf ends the process.
CreateFails(w) ==
  /\ pc[w] = "starting"
  /\ w \in cancelled \/ "crash" \in Faults
  /\ pc' = [pc EXCEPT ![w] = "down"]
  /\ UNCHANGED <<redis, cancelled, cursor, upto, todo, hist>>

\* A read that fails: main returns when the context is cancelled, else it loops.
AfterErrorLoops(w) == "call"                                \* bug: no ctx.Err() test
AfterError(w) == IF w \in cancelled THEN "down" ELSE "call"

\* The loop issues XREADGROUP, which fails at once with a cancelled context.
Call(w) ==
  /\ pc[w] = "call"
  /\ pc' = [pc EXCEPT ![w] = IF w \in cancelled THEN AfterError(w) ELSE "blocked"]
  /\ UNCHANGED <<redis, cancelled, cursor, upto, todo, hist>>

NextNew == (IF trimmed > lastDelivered THEN trimmed ELSE lastDelivered) + 1
Replies == {n \in NextNew .. tail : n < NextNew + BatchSize}

\* What the server does to answer with the entries NextNew .. n.
Take(w, n) ==
  /\ groupExists
  /\ lastDelivered' = n
  /\ owner' = [i \in Tick |-> IF i \in NextNew .. n THEN w ELSE owner[i]]
  /\ deliveries' = [i \in Tick |-> IF i \in NextNew .. n THEN deliveries[i] + 1 ELSE deliveries[i]]
  /\ UNCHANGED <<tail, trimmed, groupExists>>

\* XREADGROUP returns the next entries; a call already in flight also does so
\* when the context has been cancelled meanwhile.
Receive(w) ==
  /\ pc[w] = "blocked"
  /\ \E n \in Replies :
       /\ Take(w, n)
       /\ upto' = [upto EXCEPT ![w] = n]
  /\ cursor' = [cursor EXCEPT ![w] = NextNew]
  /\ pc' = [pc EXCEPT ![w] = "handle"]
  /\ UNCHANGED <<cancelled, todo, runs, bad, acked, raised, published,
                 faulted, wiped>>

\* The server answers but the reply never arrives: XREADGROUP returns an error.
ReplyLost(w) ==
  /\ "replylost" \in Faults
  /\ pc[w] = "blocked"
  /\ \E n \in Replies : Take(w, n)
  /\ pc' = [pc EXCEPT ![w] = AfterError(w)]
  /\ faulted' = faulted \cup {w}
  /\ UNCHANGED <<cancelled, cursor, upto, todo, runs, bad, acked, raised, published, wiped>>

\* redis.Nil after blockDuration, or an error that left the group alone (NOGROUP
\* when the group is gone): loop again, or return when the context is cancelled.
ReceiveNothing(w) ==
  /\ pc[w] = "blocked"
  /\ pc' = [pc EXCEPT ![w] = AfterError(w)]
  /\ UNCHANGED <<redis, cancelled, cursor, upto, todo, hist>>

\* process(): the payload does not decode; the deferred XACK is all that happens.
AfterBadSkips == "call"                                     \* bug: no XACK, read on
AfterBad == "ack"

HandleBad(w) ==
  /\ pc[w] = "handle"
  /\ bad' = bad \cup {cursor[w]}
  /\ pc' = [pc EXCEPT ![w] = AfterBad]
  /\ UNCHANGED <<redis, cancelled, cursor, upto, todo,
                 runs, deliveries, acked, raised, published, faulted, wiped>>

\* process(): reg.OnTick runs every detector and returns n alerts.
Handle(w) ==
  /\ pc[w] = "handle"
  /\ \E n \in 0 .. MaxAlert :
       /\ raised' = [raised EXCEPT ![cursor[w]] = n]
       /\ todo' = [todo EXCEPT ![w] = n]
       /\ pc' = [pc EXCEPT ![w] = IF n > 0 THEN "publish" ELSE "ack"]
  /\ runs' = [runs EXCEPT ![cursor[w]] = @ + 1]
  /\ UNCHANGED <<redis, cancelled, cursor, upto, bad, deliveries, acked, published,
                 faulted, wiped>>

\* bus.PublishAlert for one alert.  The client sends an XADD again when its answer
\* does not come, so the alert may be stored more than once, or not at all; an error
\* is logged, whatever was stored, and the loop goes on.  With a cancelled context
\* nothing is sent.
Stored(w) == IF w \in cancelled THEN {0} ELSE 0 .. Sends

PublishAlert(w) ==
  /\ pc[w] = "publish"
  /\ \E stored \in Stored(w) :
       published' = [published EXCEPT ![cursor[w]] = @ + stored]
  /\ todo' = [todo EXCEPT ![w] = @ - 1]
  /\ pc' = [pc EXCEPT ![w] = IF todo[w] > 1 THEN "publish" ELSE "ack"]
  /\ UNCHANGED <<redis, cancelled, cursor, upto, runs, bad, deliveries, acked, raised,
                 faulted, wiped>>

\* After the deferred XACK: the next message of the reply, or the next read.
AfterAckTooFar(w) == IF cursor[w] <= upto[w] THEN "handle" ELSE "call" \* bug: <=
AfterAck(w) == IF cursor[w] < upto[w] THEN "handle" ELSE "call"

Advance(w) ==
  /\ cursor' = [cursor EXCEPT ![w] = @ + 1]
  /\ pc' = [pc EXCEPT ![w] = AfterAck(w)]
  /\ UNCHANGED <<cancelled, upto, todo>>

\* The deferred XACK reaches Redis (an entry no longer pending is ignored).
AckIdOfBatch(w) == upto[w]                                  \* bug: acks the last id
AckId(w) == cursor[w]

Ack(w) ==
  /\ pc[w] = "ack" /\ w \notin cancelled
  /\ owner' = [owner EXCEPT ![AckId(w)] = NoWorker]
  /\ acked' = IF owner[AckId(w)] = NoWorker THEN acked ELSE acked \cup {AckId(w)}
  /\ Advance(w)
  /\ UNCHANGED <<tail, trimmed, groupExists, lastDelivered,
                 runs, bad, deliveries, raised, published, faulted, wiped>>

\* The deferred XACK fails, always so with a cancelled context; nobody looks at
\* its error.
AckFails(w) ==
  /\ pc[w] = "ack"
  /\ w \in cancelled \/ "ackfail" \in Faults
  /\ faulted' = faulted \cup {w}
  /\ Advance(w)
  /\ UNCHANGED <<redis, runs, bad, deliveries, acked, raised, published, wiped>>

(***************************************************************************)
(* The environment.                                                        *)
(***************************************************************************)

\* docker kill, out of memory, the machine: the process is gone, Redis keeps its list.
ForgetPending(w) ==                                         \* bug: DELCONSUMER on exit
  /\ owner' = [i \in Tick |-> IF owner[i] = w THEN NoWorker ELSE owner[i]]
  /\ UNCHANGED <<tail, trimmed, groupExists, lastDelivered>>
RewindGroup(w) ==                                           \* bug: SETID on exit
  /\ lastDelivered' = IF Held(w) = {} THEN lastDelivered ELSE cursor[w] - 1
  /\ UNCHANGED <<tail, trimmed, groupExists, owner>>
KeepPending(w) == UNCHANGED redis

Crash(w) ==
  /\ "crash" \in Faults
  /\ pc[w] \notin Stopped
  /\ pc' = [pc EXCEPT ![w] = "down"]
  /\ cursor' = [cursor EXCEPT ![w] = 1]
  /\ upto' = [upto EXCEPT ![w] = 0]
  /\ todo' = [todo EXCEPT ![w] = 0]
  /\ faulted' = faulted \cup {w}
  /\ KeepPending(w)
  /\ UNCHANGED <<cancelled, runs, bad, deliveries, acked, raised, published, wiped>>

\* SIGINT or SIGTERM: signal.NotifyContext cancels the root context.
Sigint(w) ==
  /\ "sigint" \in Faults
  /\ pc[w] # "down" /\ w \notin cancelled
  /\ cancelled' = cancelled \cup {w}
  /\ UNCHANGED <<redis, pc, cursor, upto, todo, hist>>

\* Redis comes back empty: stream, group and pending list are gone.  Entry ids
\* are timestamps, so the entries appended later are still newer.
Wipe ==
  /\ "wipe" \in Faults
  /\ groupExists
  /\ trimmed' = tail
  /\ groupExists' = FALSE
  /\ lastDelivered' = 0
  /\ owner' = [i \in Tick |-> NoWorker]
  /\ wiped' = TRUE
  /\ UNCHANGED <<tail, proc, runs, bad, deliveries, acked, raised, published, faulted>>

WorkerStep(w) ==
  \/ CreateGroup(w) \/ Call(w) \/ Receive(w) \/ ReceiveNothing(w)
  \/ HandleBad(w) \/ Handle(w) \/ PublishAlert(w) \/ Ack(w) \/ AckFails(w)

Next ==
  \/ Publish
  \/ \E w \in Worker :
       \/ Start(w) \/ CreateFails(w) \/ WorkerStep(w)
       \/ ReplyLost(w) \/ Crash(w) \/ Sigint(w)
  \/ Wipe

Spec == Init /\ [][Next]_vars

(***************************************************************************)
(* Fairness.  Every process in the pipeline is a loop, so a worker that    *)
(* can take a step takes it, and Compose restarts a stopped container.     *)
(* Strong fairness says that a step tried for ever is not prevented for    *)
(* ever: a read does not always fail, and a crash or a signal does not     *)
(* always come before the first read of the restarted worker.              *)
(***************************************************************************)
Fairness ==
  \A w \in Worker :
    /\ WF_vars(Start(w))
    /\ WF_vars(CreateGroup(w) \/ CreateFails(w)) /\ SF_vars(CreateGroup(w))
    /\ WF_vars(Call(w)) /\ SF_vars(w \notin cancelled /\ Call(w))
    /\ SF_vars(Receive(w)) /\ WF_vars(ReceiveNothing(w))
    /\ WF_vars(HandleBad(w) \/ Handle(w)) /\ WF_vars(PublishAlert(w))
    /\ WF_vars(Ack(w) \/ AckFails(w))

FairSpec == Spec /\ Fairness

(***************************************************************************)
(* Invariants.                                                             *)
(***************************************************************************)
\* The types; the counters of one tick are left unbounded on purpose, see AtMostOnce.
TypeOK ==
  /\ tail \in 0 .. MaxTick /\ trimmed \in 0 .. MaxTick
  /\ groupExists \in BOOLEAN /\ lastDelivered \in 0 .. MaxTick
  /\ owner \in [Tick -> Worker \cup {NoWorker}]
  /\ pc \in [Worker -> Pc] /\ cancelled \subseteq Worker
  /\ cursor \in [Worker -> 1 .. MaxTick + 1] /\ upto \in [Worker -> 0 .. MaxTick]
  /\ todo \in [Worker -> 0 .. MaxAlert]
  /\ runs \in [Tick -> Nat]
  /\ deliveries \in [Tick -> Nat] /\ bad \subseteq Tick /\ acked \subseteq Tick
  /\ raised \in [Tick -> 0 .. MaxAlert] /\ published \in [Tick -> Nat]
  /\ faulted \subseteq Worker /\ wiped \in BOOLEAN

\* The detectors keep running sums and last prices, so a tick they saw twice
\* would be counted twice: across crashes, restarts, lost replies and a Redis
\* that comes back empty, no tick reaches the detectors of any worker twice.
AtMostOnce == \A i \in Tick : runs[i] <= 1 /\ (i \in bad => runs[i] = 0)

\* Two workers never work on the same entry, and an entry a worker works on is
\* pending for that worker or for nobody (after a wipe), never for another.
OneHolder ==
  \A w \in Worker : \A i \in Held(w) :
    /\ owner[i] \in {w, NoWorker}
    /\ \A v \in Worker \ {w} : i \notin Held(v)

\* XACK is deferred in process(): an acknowledged entry has been through the
\* detectors (or did not decode), no worker is still busy with it and Redis does
\* not list it as pending.
AckAfterHandled ==
  \A i \in acked :
    /\ runs[i] = 1 \/ i \in bad
    /\ owner[i] = NoWorker
    /\ \A w \in Worker : i \notin Held(w)

\* An entry stays pending without a worker at work on it only if its consumer was
\* killed, interrupted, or lost a reply or an acknowledgement.
StrandedOnlyByFault ==
  \A i \in Tick : \A w \in Worker :
    owner[i] = w => i \in Held(w) \/ w \in faulted

\* The pending list forgets nothing: as long as Redis has kept its data, every entry
\* handed out is acknowledged or still listed under a consumer.
NothingForgotten ==
  ~wiped => \A i \in delivered : i \in acked \/ owner[i] # NoWorker

\* process() offers every alert of a tick once, whoever crashes, starts or creates the
\* group again: what the stream has of a tick are the copies of alerts that one pass of
\* the detectors raised and the worker is through with, none of one still to be
\* offered.  An alert is there more than once only because the client sent it again.
AlertsAccountedFor ==
  /\ \A i \in Tick : published[i] <= Sends * raised[i] /\ (raised[i] > 0 => runs[i] = 1)
  /\ \A w \in Worker : pc[w] = "publish" =>
       /\ todo[w] \in 1 .. raised[cursor[w]]
       /\ published[cursor[w]] <= Sends * (raised[cursor[w]] - todo[w])

(***************************************************************************)
(* The inductive invariant: why the invariants above survive every step.   *)
(***************************************************************************)
Busy == {"handle", "publish", "ack"}
Handled(i) == runs[i] = 1 /\ i \notin bad
Untouched(i) == runs[i] = 0 /\ i \notin bad
Undecoded(i) == runs[i] = 0 /\ i \in bad

\* What has been delivered lies behind the point where the next read starts.
StreamInv ==
  /\ trimmed <= tail /\ lastDelivered <= tail
  /\ groupExists \/ lastDelivered = 0
  /\ \A i \in delivered : i <= tail /\ (i <= trimmed \/ i <= lastDelivered)

\* A worker's batch is delivered, its own, and untouched beyond the cursor.
BatchOf(w) ==
  /\ pc[w] \in Busy <=> cursor[w] <= upto[w]
  /\ todo[w] > 0 <=> pc[w] = "publish"
  /\ \A i \in Held(w) :
       /\ i \in delivered /\ i \notin acked
       /\ owner[i] = w \/ (owner[i] = NoWorker /\ wiped)
       /\ i > cursor[w] \/ pc[w] = "handle" => Untouched(i)
       /\ i = cursor[w] /\ pc[w] = "publish" => Handled(i)
       /\ i = cursor[w] /\ pc[w] = "ack" => Handled(i) \/ Undecoded(i)

BatchInv ==
  /\ \A w \in Worker : BatchOf(w)
  /\ \A v, w \in Worker : v # w => Held(v) \cap Held(w) = {}

\* The history of each entry agrees with what Redis says of it.
HistoryOf(i) ==
  /\ Handled(i) \/ Untouched(i) \/ Undecoded(i)
  /\ i \notin delivered => Untouched(i) /\ i \notin acked /\ owner[i] = NoWorker
  /\ i \in acked => ~Untouched(i) /\ owner[i] = NoWorker
  /\ raised[i] > 0 => Handled(i)
  /\ published[i] <= Sends * raised[i]

HistoryInv == \A i \in Tick : HistoryOf(i)

\* The life of every entry in Redis, in the workers' batches and in the detectors agrees:
\* the invariants above follow from these parts, and each needs others to survive a step.
IInv ==
  /\ TypeOK /\ StreamInv /\ BatchInv /\ HistoryInv
  /\ StrandedOnlyByFault /\ NothingForgotten /\ AlertsAccountedFor

(***************************************************************************)
(* Action and liveness properties.                                         *)
(***************************************************************************)

\* The group hands out entries in stream order, whoever asks, and never goes back: an
\* entry an XREADGROUP takes is newer than every entry taken before, although the
\* group is created again by every start and Redis may come back empty.
DeliveryInOrder ==
  [][\A i \in Tick : deliveries'[i] > deliveries[i] => \A j \in delivered : j < i]_vars

\* Every tick is acknowledged, or was trimmed unread, or is left pending for a consumer
\* that was killed, interrupted, or lost a reply or an acknowledgement: with crashes
\* and restarts in any order no tick stays in the backlog or in a worker's hands.
Stranded(i) == \E w \in faulted : owner[i] = w /\ i \notin Held(w)

EveryTickSettles ==
  \A i \in Tick :
    (i <= tail) ~> (i \in acked \/ (i <= trimmed /\ i \notin delivered) \/ Stranded(i))

\* A worker told to stop stops, whatever is left of its batch.
InterruptedWorkerExits == \A w \in Worker : w \in cancelled ~> (pc[w] = "down")

(***************************************************************************)
(* The group implements the life cycle of TickLifecycle.                   *)
(***************************************************************************)
PhaseOf(i) ==
  CASE i > tail -> "unpublished"
    [] i \in acked -> "settled"
    [] i \in delivered \ acked /\ (runs[i] > 0 \/ i \in bad) -> "handled"
    [] i \in delivered \ acked /\ ~(runs[i] > 0 \/ i \in bad) -> "claimed"
    [] i \notin delivered /\ trimmed < i /\ i <= tail -> "queued"
    [] OTHER -> "evicted"

Lifecycle == INSTANCE TickLifecycle
  WITH phase <- [i \in Tick |-> PhaseOf(i)], seen <- runs

\* Every step of the workers, of Redis and of the faults is a step of the life
\* cycle of the ticks it touches, or touches none.
ImplementsLifecycle == Lifecycle!Spec

(***************************************************************************)
(* What the documentation says and the code does not do.                   *)
(***************************************************************************)

\* README.md:26 and :201: messages abandoned by a dead worker are reclaimed, so a
\* delivered entry is always acknowledged in the end.
AbandonedAreReclaimed == \A i \in Tick : (i \in delivered) ~> (i \in acked)
=============================================================================
