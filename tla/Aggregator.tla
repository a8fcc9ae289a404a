----------------------------- MODULE Aggregator -----------------------------
(***************************************************************************)
(* The aggregator (cmd/aggregator/main.go): one goroutine reads the stream *)
(* "alerts" from its end, drops what the deduper has seen and appends the  *)
(* rest to "alerts-clean"; a second one sweeps the deduper's cache.        *)
(*                                                                         *)
(* An alert is named by its position in the stream and has a source, the   *)
(* pair (detector, symbol), and the time stamp of the tick that raised it. *)
(* Time is counted in units that divide the window; one unit is any step   *)
(* of the clocks a run wants to tell apart.                                *)
(*                                                                         *)
(* An operator marked "bug" is no part of Next: it puts a plausible error  *)
(* in the definition below it, to show that a property would notice.       *)
(***************************************************************************)
EXTENDS Integers

CONSTANTS
  Source,    \* pairs (detector, symbol)
  MaxAlert,  \* bound on the number of alerts emitted
  MaxTime,   \* bound on the clock
  MaxLag,    \* how old a tick can be when its alert is appended (a backlog)
  Window,    \* the deduper's window (one minute in the code)
  Interval,  \* period of the cleanup (five minutes in the code)
  BatchSize, \* COUNT of XREAD (100 in the code)
  MaxLen,    \* MAXLEN of "alerts" (10_000 in the code)
  Faults     \* the faults a run allows, see FaultKind

FaultKind == {"stop", "publishfail", "garbled"}

ASSUME AggregatorAssumption ==
  /\ Source # {}
  /\ {MaxAlert, MaxTime, MaxLag, MaxLen} \subseteq Nat
  /\ {Window, Interval, BatchSize} \subseteq Nat \ {0}
  /\ Faults \subseteq FaultKind

Alert == 1 .. MaxAlert
Time == 0 .. MaxTime
Never == -1  \* absent from the cache

VARIABLES
  now,             \* the clock
  tail,            \* number of alerts ever appended to "alerts"
  trimmed,         \* alerts 1 .. trimmed are no longer in the stream
  source, stamp,   \* source and time stamp of each alert
  pc,              \* control point of the reading goroutine
  lastID,          \* id the next XREAD names; Newest is "$"
  base,            \* id the pending XREAD waits to see exceeded
  cursor, upto,    \* the rest of the reply being processed
  cache,           \* deduper.cache: key -> time of its entry, or Never
  sweeper,         \* control point of cleanupLoop
  due,             \* when the ticker fires next
  cutoff,          \* cutoff of the last sweep
  fate,            \* history: what became of each alert
  anchor,          \* history: the first alert read since the process started
  admitted         \* history: when the running process last let each key pass

stream == <<tail, trimmed, source, stamp>>
reader == <<pc, lastID, base, cursor, upto>>
sweep == <<sweeper, due, cutoff>>
hist == <<fate, anchor, admitted>>
vars == <<now, stream, reader, cache, sweep, hist>>

Newest == 0
Bucket == {t \div Window : t \in Time}
Key == Source \X Bucket
Fates == {"unread", "garbled", "suppressed", "forwarded", "failed"}

\* deduper.isDup's key: detector, symbol and the time stamp truncated to the window.
KeyOfSource(i) == <<source[i], 0>>                           \* bug: no time
KeyOf(i) == <<source[i], stamp[i] \div Window>>

Init ==
  /\ now = 0
  /\ tail = 0 /\ trimmed = 0
  /\ source = [i \in Alert |-> CHOOSE s \in Source : TRUE]
  /\ stamp = [i \in Alert |-> 0]
  /\ pc = "down" /\ lastID = Newest /\ base = 0 /\ cursor = 1 /\ upto = 0
  /\ cache = [k \in Key |-> Never]
  /\ sweeper = "down" /\ due = 0 /\ cutoff = 0
  /\ fate = [i \in Alert |-> "unread"] /\ anchor = 0
  /\ admitted = [k \in Key |-> Never]

(***************************************************************************)
(* The environment: the clock and the detectors' bus.PublishAlert.         *)
(***************************************************************************)
Advance ==
  /\ now < MaxTime
  /\ now' = now + 1
  /\ UNCHANGED <<stream, reader, cache, sweep, hist>>

TrimPoints == {t \in trimmed .. tail + 1 : t = trimmed \/ tail + 1 - t >= MaxLen}

Emit(s, t) ==
  /\ tail < MaxAlert
  /\ t \in Time /\ now - MaxLag <= t /\ t <= now
  /\ tail' = tail + 1
  /\ trimmed' \in TrimPoints
  /\ source' = [source EXCEPT ![tail + 1] = s]
  /\ stamp' = [stamp EXCEPT ![tail + 1] = t]
  /\ UNCHANGED <<now, reader, cache, sweep, hist>>

(***************************************************************************)
(* The process: it starts with an empty cache and at "$", and what it knew *)
(* is gone when it ends.                                                   *)
(***************************************************************************)
Start ==
  /\ pc = "down"
  /\ pc' = "call"
  /\ sweeper' = "wait" /\ due' = now + Interval
  /\ UNCHANGED <<now, stream, lastID, base, cursor, upto, cache, cutoff, hist>>

\* SIGINT, or a kill.  What SIGINT lets happen before the process ends, a batch
\* whose publishes all fail, is PublishFails followed by Stop.
Stop ==
  /\ "stop" \in Faults
  /\ pc # "down"
  /\ pc' = "down" /\ lastID' = Newest /\ base' = 0 /\ cursor' = 1 /\ upto' = 0
  /\ cache' = [k \in Key |-> Never]
  /\ sweeper' = "down" /\ due' = 0 /\ cutoff' = 0
  /\ anchor' = 0 /\ admitted' = [k \in Key |-> Never]
  /\ UNCHANGED <<now, stream, fate>>

(***************************************************************************)
(* The reading goroutine.                                                  *)
(***************************************************************************)

\* XREAD reaches Redis: "$" stands for the newest id at this moment.
ReadAllAfter == lastID                                      \* bug: "0" for "$"
ReadAfter == IF lastID = Newest THEN tail ELSE lastID

Call ==
  /\ pc = "call"
  /\ pc' = "blocked"
  /\ base' = ReadAfter
  /\ UNCHANGED <<now, stream, lastID, cursor, upto, cache, sweep, hist>>

\* Nothing within 500 ms, or an error: read again with the same id.
ReadNothing ==
  /\ pc = "blocked"
  /\ pc' = "call" /\ base' = 0
  /\ UNCHANGED <<now, stream, lastID, cursor, upto, cache, sweep, hist>>

NextNew == (IF trimmed > base THEN trimmed ELSE base) + 1

Read ==
  /\ pc = "blocked"
  /\ \E n \in NextNew .. tail : n < NextNew + BatchSize /\ upto' = n
  /\ cursor' = NextNew
  /\ anchor' = IF anchor = 0 THEN NextNew ELSE anchor
  /\ pc' = "handle" /\ base' = 0
  /\ UNCHANGED <<now, stream, lastID, cache, sweep, fate, admitted>>

\* The loop over the reply's messages goes on, or the next XREAD follows.
After == IF cursor < upto THEN "handle" ELSE "call"

NextMessage ==
  /\ cursor' = cursor + 1
  /\ pc' = After
  /\ UNCHANGED <<now, stream, base, upto, sweep, anchor>>

\* lastID = msg.ID comes first, whatever becomes of the message.
IdForgotten == Newest                                       \* bug: lastID not updated
IdRead == cursor

HandleGarbled ==
  /\ pc = "handle" /\ "garbled" \in Faults
  /\ lastID' = IdRead
  /\ fate' = [fate EXCEPT ![cursor] = "garbled"]
  /\ NextMessage
  /\ UNCHANGED <<cache, admitted>>

\* isDup finds the key and leaves its time alone.
HandleDuplicate ==
  /\ pc = "handle" /\ cache[KeyOf(cursor)] # Never
  /\ lastID' = IdRead
  /\ fate' = [fate EXCEPT ![cursor] = "suppressed"]
  /\ NextMessage
  /\ UNCHANGED <<cache, admitted>>

\* isDup enters the key before the alert is published.
HandleFresh ==
  /\ pc = "handle" /\ cache[KeyOf(cursor)] = Never
  /\ lastID' = IdRead
  /\ cache' = [cache EXCEPT ![KeyOf(cursor)] = now]
  /\ admitted' = [admitted EXCEPT ![KeyOf(cursor)] = now]
  /\ pc' = "publish"
  /\ UNCHANGED <<now, stream, base, cursor, upto, sweep, fate, anchor>>

\* bus.PublishAlertClean: the alert is on "alerts-clean", in one entry or, when the client
\* sent its XADD again for want of a reply, in several.  Otherwise it is on none; that an
\* error is logged changes nothing.
PublishClean ==
  /\ pc = "publish"
  /\ fate' = [fate EXCEPT ![cursor] = "forwarded"]
  /\ NextMessage
  /\ UNCHANGED <<lastID, cache, admitted>>

PublishFails ==
  /\ pc = "publish" /\ "publishfail" \in Faults
  /\ fate' = [fate EXCEPT ![cursor] = "failed"]
  /\ NextMessage
  /\ UNCHANGED <<lastID, cache, admitted>>

(***************************************************************************)
(* cleanupLoop: the cutoff is taken before the lock is, and isDup may run  *)
(* in between.  A tick nobody receives in time is dropped by the ticker.   *)
(***************************************************************************)
CutoffTooLate == now - Window                               \* bug: one window
Cutoff == now - 2 * Window

SweepDue ==
  /\ sweeper = "wait" /\ now >= due
  /\ sweeper' = "lock"
  /\ cutoff' = Cutoff
  /\ due' = due + Interval * ((now - due) \div Interval + 1)
  /\ UNCHANGED <<now, stream, reader, cache, hist>>

Fresh(t) == t > cutoff                                      \* bug: Before inverted
Expired(t) == t < cutoff

SweepCache ==
  /\ sweeper = "lock"
  /\ cache' = [k \in Key |-> IF cache[k] # Never /\ Expired(cache[k]) THEN Never ELSE cache[k]]
  /\ sweeper' = "wait"
  /\ UNCHANGED <<now, stream, reader, due, cutoff, hist>>

Handle == HandleGarbled \/ HandleDuplicate \/ HandleFresh \/ PublishClean \/ PublishFails

Next ==
  \/ Advance \/ Start \/ Stop
  \/ \E s \in Source, t \in Time : Emit(s, t)
  \/ Call \/ ReadNothing \/ Read \/ Handle
  \/ SweepDue \/ SweepCache

Spec == Init /\ [][Next]_vars

(***************************************************************************)
(* Fairness: both goroutines run when they can, Compose restarts the       *)
(* process, and a blocked XREAD is answered when there is something new    *)
(* (or it would time out with a non-empty stream for ever).                *)
(***************************************************************************)
Fairness ==
  /\ WF_vars(Start) /\ WF_vars(Call) /\ WF_vars(ReadNothing) /\ SF_vars(Read)
  /\ WF_vars(Handle)
  /\ WF_vars(SweepDue) /\ WF_vars(SweepCache)

FairSpec == Spec /\ Fairness

(***************************************************************************)
(* Properties.                                                             *)
(***************************************************************************)
\* The types; a batch is part of the stream and its cursor stays inside it.
TypeOK ==
  /\ now \in Time
  /\ tail \in 0 .. MaxAlert /\ trimmed \in 0 .. tail
  /\ source \in [Alert -> Source] /\ stamp \in [Alert -> Time]
  /\ pc \in {"down", "call", "blocked", "handle", "publish"}
  /\ lastID \in 0 .. tail /\ base \in 0 .. tail
  /\ cursor \in 1 .. MaxAlert + 1 /\ upto \in 0 .. tail
  /\ pc \in {"handle", "publish"} => cursor <= upto
  /\ cache \in [Key -> Time \cup {Never}]
  /\ sweeper \in {"down", "wait", "lock"}
  /\ due \in Nat /\ cutoff \in -2 * Window .. MaxTime
  /\ fate \in [Alert -> Fates] /\ anchor \in 0 .. MaxAlert
  /\ admitted \in [Key -> Time \cup {Never}]

\* isDup and cleanupLoop together: within one life of the process a key is let pass
\* again only more than two windows after it was let pass before, although the
\* sweep uses a cutoff older than the moment it holds the lock.
GapBetweenAdmissions ==
  [][\A k \in Key : cache[k] = Never /\ cache'[k] # Never /\ admitted[k] # Never
       => now - admitted[k] > 2 * Window]_vars

\* An alert is suppressed only in favour of an earlier one of the same detector, symbol
\* and minute that this process or one before it tried to forward.
SameMinute(i, j) == source[i] = source[j] /\ stamp[i] \div Window = stamp[j] \div Window

SuppressedForOriginal ==
  \A i \in Alert : fate[i] = "suppressed" =>
    \E j \in 1 .. i - 1 : fate[j] \in {"forwarded", "failed"} /\ SameMinute(i, j)

\* Once the first message has replaced "$", no alert of the stream is passed over
\* within one life of the process, but for those trimmed before they were read; and none
\* is read twice, not even by the process started after a stop: whatever is in the reply
\* at hand, and after it, is still undecided.
ReadsEachOnce ==
  /\ anchor > 0 /\ pc # "down" =>
       \A i \in anchor .. cursor - 1 : fate[i] = "unread" => i <= trimmed
  /\ pc \in {"handle", "publish"} => \A i \in cursor .. tail : fate[i] = "unread"

\* A completed sweep leaves nothing older than its cutoff, also when isDup entered
\* keys between the cutoff and the lock: the cache cannot grow with the uptime.
SweptClean ==
  /\ TypeOK
  /\ sweeper = "wait" => \A k \in Key : cache[k] # Never => cache[k] >= cutoff

\* Every alert emitted after the first one a process has read is read by it, unless it
\* is trimmed first or the process ends: no idle XREAD and no error loses the position.
EveryAlertDecided ==
  \A i \in Alert : (anchor > 0 /\ anchor <= i /\ i <= tail)
                     ~> (fate[i] # "unread" \/ i <= trimmed \/ pc = "down")

(***************************************************************************)
(* What the documentation says and the code does not do.                   *)
(***************************************************************************)

\* README.md:16: the aggregator removes duplicates within a minute and pushes the alerts
\* out: what is suppressed is a duplicate of an alert that is on "alerts-clean".
SuppressedForForwarded ==
  \A i \in Alert : fate[i] = "suppressed" =>
    \E j \in 1 .. i - 1 : fate[j] = "forwarded" /\ SameMinute(i, j)
=============================================================================
