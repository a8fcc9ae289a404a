--------------------------- MODULE AggregatorProofs ---------------------------
(***************************************************************************)
(* TLAPS proofs about Aggregator, for any detectors and symbols, any       *)
(* bounds, any window and period of the cleanup and any set of faults.     *)
(***************************************************************************)
EXTENDS Aggregator, TLAPS

(***************************************************************************)
(* The inductive invariant.                                                *)
(***************************************************************************)

\* What a process that is not running knows: nothing.
DownInv ==
  pc = "down" =>
    /\ lastID = Newest /\ anchor = 0 /\ cursor = 1
    /\ \A k \in Key : cache[k] = Never /\ admitted[k] = Never

\* The cache holds the time of the last admission, and has forgotten a key only more than
\* two windows after it.  A sweep that waits for the lock has a cutoff two windows old.
ClockInv ==
  /\ cutoff <= now
  /\ sweeper = "lock" => cutoff <= now - 2 * Window
  /\ \A k \in Key : cache[k] # Never => cache[k] = admitted[k]
  /\ \A k \in Key : cache[k] = Never /\ admitted[k] # Never => now - admitted[k] > 2 * Window

\* The sweep that was completed last has left nothing older than its cutoff.
SweepInv == sweeper = "wait" => \A k \in Key : cache[k] # Never => cache[k] >= cutoff

\* Everything from the reading position on is undecided: at "call" and "blocked" that is
\* what follows lastID or base, in a batch the message at the cursor and what follows it.
Undecided(i) == fate[i] = "unread"

PositionInv ==
  /\ \A i \in Alert : i > tail => Undecided(i)
  /\ pc \in {"call", "blocked"} => cursor = lastID + 1
  /\ pc \in {"call", "blocked"} /\ lastID # Newest => \A i \in Alert : i > lastID => Undecided(i)
  /\ pc = "blocked" => lastID <= base /\ \A i \in Alert : i > base => Undecided(i)
  /\ pc \in {"handle", "publish"} => \A i \in Alert : i >= cursor => Undecided(i)
  /\ pc = "publish" => lastID = cursor

\* Behind the position, down to the first alert this process has read, only what was
\* trimmed is undecided; a process that has read something no longer asks for "$".
BehindInv ==
  /\ anchor > 0 => \A i \in Alert : anchor <= i /\ i < cursor /\ Undecided(i) => i <= trimmed
  /\ anchor > 0 /\ pc \in {"call", "blocked"} => lastID # Newest
  /\ anchor > 0 /\ pc = "blocked" => base = lastID

\* A key in the cache was put there by an alert of its minute that was tried, or is about
\* to be; and so was the key of every alert that was suppressed.
Tried(j) == fate[j] \in {"forwarded", "failed"}

OriginalInv ==
  /\ \A k \in Key : cache[k] # Never =>
       \E j \in Alert : j <= tail /\ KeyOf(j) = k /\ (Tried(j) \/ (pc = "publish" /\ j = cursor))
  /\ SuppressedForOriginal

IInv ==
  /\ TypeOK /\ DownInv /\ ClockInv /\ SweepInv
  /\ PositionInv /\ BehindInv /\ OriginalInv

(***************************************************************************)
(* Lemmas about the operators.                                             *)
(***************************************************************************)

\* The deduper's key of an alert is one of the keys of the cache.
LEMMA KeyType == TypeOK => \A i \in Alert : KeyOf(i) \in Key
BY DEF TypeOK, KeyOf, Key, Bucket

\* Two alerts have the same key when they have the same source and the same minute.
LEMMA SameKey == \A i, j \in Alert : KeyOf(i) = KeyOf(j) <=> SameMinute(i, j)
BY DEF KeyOf, SameMinute

\* A message being handled is in the stream, and the next cursor is in range.
LEMMA CursorType ==
  TypeOK /\ pc \in {"handle", "publish"} => cursor \in Alert /\ cursor <= tail
BY AggregatorAssumption DEF TypeOK, Alert

\* What XREAD can answer with: new entries, of which there is at least one.
LEMMA ReadBounds ==
  TypeOK /\ Read =>
    /\ cursor' = NextNew /\ NextNew \in Alert
    /\ trimmed < NextNew /\ base < NextNew
    /\ NextNew = trimmed + 1 \/ NextNew = base + 1
    /\ upto' \in NextNew .. tail
<1> SUFFICES ASSUME TypeOK, Read
             PROVE  /\ cursor' = NextNew /\ NextNew \in Alert
                    /\ trimmed < NextNew /\ base < NextNew
                    /\ NextNew = trimmed + 1 \/ NextNew = base + 1
                    /\ upto' \in NextNew .. tail
  OBVIOUS
<1>1. tail \in 0 .. MaxAlert /\ trimmed \in 0 .. tail /\ base \in 0 .. tail /\ MaxAlert \in Nat
  BY AggregatorAssumption DEF TypeOK
<1>2. /\ NextNew \in Nat \ {0} /\ trimmed < NextNew /\ base < NextNew
      /\ NextNew = trimmed + 1 \/ NextNew = base + 1
  BY <1>1 DEF NextNew
<1>3. PICK n \in NextNew .. tail : upto' = n
  BY DEF Read
<1>4. cursor' = NextNew
  BY DEF Read
<1>5. QED
  BY <1>1, <1>2, <1>3, <1>4 DEF Alert

(***************************************************************************)
(* The inductive invariant is one.                                         *)
(***************************************************************************)

\* Before the process has started there is no alert and nothing is cached.
LEMMA InitIInv == Init => IInv
<1> SUFFICES ASSUME Init PROVE IInv
  OBVIOUS
<1> USE AggregatorAssumption DEF Init, Newest
<1>1. TypeOK
  <2>1. (CHOOSE s \in Source : TRUE) \in Source
    OBVIOUS
  <2>2. source \in [Alert -> Source] /\ stamp \in [Alert -> Time]
    <3>1. 0 \in Time
      BY DEF Time
    <3>2. QED
      BY <2>1, <3>1
  <2>3. cache \in [Key -> Time \cup {Never}] /\ admitted \in [Key -> Time \cup {Never}]
    OBVIOUS
  <2>4. fate \in [Alert -> Fates]
    BY DEF Fates
  <2>5. cutoff \in -2 * Window .. MaxTime
    OBVIOUS
  <2>6. /\ now \in Time /\ tail \in 0 .. MaxAlert /\ trimmed \in 0 .. tail
        /\ lastID \in 0 .. tail /\ base \in 0 .. tail /\ upto \in 0 .. tail
        /\ cursor \in 1 .. MaxAlert + 1 /\ anchor \in 0 .. MaxAlert
    BY DEF Time
  <2>7. QED
    BY <2>2, <2>3, <2>4, <2>5, <2>6 DEF TypeOK
<1>2. DownInv
  BY DEF DownInv
<1>3. ClockInv /\ SweepInv
  BY DEF ClockInv, SweepInv, Never
<1>4. PositionInv /\ BehindInv
  BY DEF PositionInv, BehindInv, Undecided, Alert
<1>5. OriginalInv
  BY DEF OriginalInv, SuppressedForOriginal, Never
<1>6. QED
  BY <1>1, <1>2, <1>3, <1>4, <1>5 DEF IInv

\* Every step keeps the types.
LEMMA TypeStep == TypeOK /\ [Next]_vars => TypeOK'
<1> SUFFICES ASSUME TypeOK, [Next]_vars PROVE TypeOK'
  OBVIOUS
<1>t. /\ now \in 0 .. MaxTime /\ MaxTime \in Nat /\ MaxAlert \in Nat
      /\ tail \in 0 .. MaxAlert /\ trimmed \in 0 .. tail /\ lastID \in 0 .. tail
      /\ base \in 0 .. tail /\ upto \in 0 .. tail
      /\ Window \in Nat /\ Window > 0 /\ Interval \in Nat /\ Interval > 0
      /\ due \in Nat
  BY AggregatorAssumption DEF TypeOK, Time
<1>d. ASSUME NextMessage, cursor \in Alert, cursor <= upto
      PROVE  /\ cursor' \in 1 .. MaxAlert + 1
             /\ pc' \in {"handle", "call"} /\ (pc' = "handle" => cursor' <= upto')
  BY <1>d, <1>t DEF NextMessage, After, Alert
<1>e. pc \in {"handle", "publish"} => cursor \in Alert /\ cursor <= tail /\ cursor <= upto
  BY CursorType DEF TypeOK
<1>f. ASSUME pc \in {"handle", "publish"}, NEW f \in Fates, fate' = [fate EXCEPT ![cursor] = f]
      PROVE  fate' \in [Alert -> Fates]
  BY <1>f DEF TypeOK
<1>1. CASE UNCHANGED vars
  BY <1>1 DEF TypeOK, vars, stream, reader, sweep, hist
<1>2. CASE Advance
  BY <1>2, <1>t DEF TypeOK, Advance, stream, reader, sweep, hist, Time
<1>3. ASSUME NEW s \in Source, NEW t \in Time, Emit(s, t) PROVE TypeOK'
  <2>1. tail' \in 0 .. MaxAlert /\ trimmed' \in 0 .. tail'
    BY <1>3, <1>t DEF Emit, TrimPoints
  <2>2. source' \in [Alert -> Source] /\ stamp' \in [Alert -> Time]
    BY <1>3 DEF Emit, TypeOK
  <2>3. lastID' \in 0 .. tail' /\ base' \in 0 .. tail' /\ upto' \in 0 .. tail'
    BY <1>3, <1>t DEF Emit, reader
  <2>4. QED
    BY <1>3, <2>1, <2>2, <2>3 DEF TypeOK, Emit, reader, sweep, hist
<1>4. CASE Start
  <2>1. due' \in Nat
    BY <1>4, <1>t DEF Start
  <2>2. QED
    BY <1>4, <2>1 DEF TypeOK, Start, stream, hist
<1>5. CASE Stop
  <2>1. cache' \in [Key -> Time \cup {Never}] /\ admitted' \in [Key -> Time \cup {Never}]
    BY <1>5 DEF Stop
  <2>2. cutoff' \in -2 * Window .. MaxTime /\ due' \in Nat
    BY <1>5, <1>t DEF Stop
  <2>3. lastID' \in 0 .. tail /\ base' \in 0 .. tail /\ upto' \in 0 .. tail
    BY <1>5, <1>t DEF Stop, Newest
  <2>4. cursor' \in 1 .. MaxAlert + 1 /\ anchor' \in 0 .. MaxAlert
    BY <1>5, <1>t DEF Stop
  <2>5. QED
    BY <1>5, <2>1, <2>2, <2>3, <2>4 DEF TypeOK, Stop, stream
<1>6. CASE Call
  <2>1. base' \in 0 .. tail
    BY <1>6, <1>t DEF Call, ReadAfter
  <2>2. QED
    BY <1>6, <2>1 DEF TypeOK, Call, stream, sweep, hist
<1>7. CASE ReadNothing
  BY <1>7, <1>t DEF TypeOK, ReadNothing, stream, sweep, hist
<1>8. CASE Read
  <2>1. /\ cursor' \in 1 .. MaxAlert + 1 /\ upto' \in 0 .. tail /\ cursor' <= upto'
        /\ base' \in 0 .. tail
    BY <1>8, <1>t, ReadBounds DEF Read, Alert
  <2>2. anchor' \in 0 .. MaxAlert
    BY <1>8, <1>t, ReadBounds DEF TypeOK, Read, Alert
  <2>3. QED
    BY <1>8, <2>1, <2>2 DEF TypeOK, Read, stream, sweep
<1>9. CASE HandleGarbled
  <2>1. fate' \in [Alert -> Fates]
    BY <1>9, <1>f DEF HandleGarbled, Fates
  <2>2. lastID' \in 0 .. tail
    BY <1>9, <1>e, <1>t DEF HandleGarbled, IdRead, Alert
  <2>3. NextMessage /\ pc = "handle" /\ UNCHANGED <<cache, admitted>>
    BY <1>9 DEF HandleGarbled
  <2>4. QED
    BY <2>1, <2>2, <2>3, <1>d, <1>e DEF TypeOK, NextMessage, stream, sweep
<1>10. CASE HandleDuplicate
  <2>1. fate' \in [Alert -> Fates]
    BY <1>10, <1>f DEF HandleDuplicate, Fates
  <2>2. lastID' \in 0 .. tail
    BY <1>10, <1>e, <1>t DEF HandleDuplicate, IdRead, Alert
  <2>3. NextMessage /\ pc = "handle" /\ UNCHANGED <<cache, admitted>>
    BY <1>10 DEF HandleDuplicate
  <2>4. QED
    BY <2>1, <2>2, <2>3, <1>d, <1>e DEF TypeOK, NextMessage, stream, sweep
<1>11. CASE HandleFresh
  <2>1. now \in Time \cup {Never}
    BY <1>t DEF Time
  <2>2. /\ cache' \in [Key -> Time \cup {Never}]
        /\ admitted' \in [Key -> Time \cup {Never}]
    BY <1>11, <2>1 DEF HandleFresh, TypeOK
  <2>3. lastID' \in 0 .. tail /\ cursor <= upto
    BY <1>11, <1>e, <1>t DEF HandleFresh, IdRead, Alert
  <2>4. QED
    BY <1>11, <2>2, <2>3 DEF TypeOK, HandleFresh, stream, sweep
<1>12. CASE PublishClean \/ PublishFails
  <2>1. fate' \in [Alert -> Fates]
    BY <1>12, <1>f DEF PublishClean, PublishFails, Fates
  <2>2. NextMessage /\ pc = "publish" /\ UNCHANGED <<lastID, cache, admitted>>
    BY <1>12 DEF PublishClean, PublishFails
  <2>3. QED
    BY <2>1, <2>2, <1>d, <1>e DEF TypeOK, NextMessage, stream, sweep
<1>13. CASE SweepDue
  <2>1. now - due \in Nat
    BY <1>13, <1>t DEF SweepDue
  <2>2. (now - due) \div Interval \in Nat
    BY <2>1, <1>t
  <2>3. Interval * ((now - due) \div Interval + 1) \in Nat
    BY <2>2, <1>t
  <2>4. due' \in Nat
    BY <1>13, <2>3, <1>t DEF SweepDue
  <2>5. cutoff' \in -2 * Window .. MaxTime
    BY <1>13, <1>t DEF SweepDue, Cutoff
  <2>6. QED
    BY <1>13, <2>4, <2>5 DEF TypeOK, SweepDue, stream, reader, hist
<1>14. CASE SweepCache
  <2>1. cache' \in [Key -> Time \cup {Never}]
    BY <1>14 DEF SweepCache, TypeOK
  <2>2. QED
    BY <1>14, <2>1 DEF TypeOK, SweepCache, stream, reader, hist
<1>15. QED
  BY <1>1, <1>2, <1>3, <1>4, <1>5, <1>6, <1>7, <1>8, <1>9, <1>10, <1>11, <1>12, <1>13, <1>14
  DEF Next, Handle

\* A process that starts knows nothing, and one that stops forgets everything.
LEMMA DownStep == TypeOK /\ DownInv /\ [Next]_vars => DownInv'
<1> SUFFICES ASSUME TypeOK, DownInv, [Next]_vars, pc' = "down" PROVE DownInv'
  BY DEF DownInv
<1>1. CASE Stop
  BY <1>1 DEF DownInv, Stop
<1>2. CASE pc = "down" /\ UNCHANGED <<lastID, anchor, cursor, admitted>>
           /\ \A k \in Key : cache[k] = Never => cache'[k] = Never
  BY <1>2 DEF DownInv
<1>3. SweepCache => \A k \in Key : cache[k] = Never => cache'[k] = Never
  BY DEF SweepCache, TypeOK
<1>4. QED
  BY <1>1, <1>2, <1>3
  DEF Next, Handle, vars, stream, reader, sweep, hist, Advance, Start, Emit, Call, ReadNothing,
      Read, HandleGarbled, HandleDuplicate, HandleFresh, PublishClean, PublishFails,
      NextMessage, After, SweepDue, SweepCache

\* The clock only goes forward, a key enters cache and history together, and a sweep drops
\* what is older than a cutoff that was two windows old when it was taken.
LEMMA ClockStep == TypeOK /\ ClockInv /\ [Next]_vars => ClockInv'
<1> SUFFICES ASSUME TypeOK, ClockInv, [Next]_vars PROVE ClockInv'
  OBVIOUS
<1>t. /\ now \in Nat /\ cutoff \in Int /\ Window \in Nat /\ Window > 0
      /\ cache \in [Key -> Nat \cup {Never}] /\ admitted \in [Key -> Nat \cup {Never}]
  BY AggregatorAssumption DEF TypeOK, Time, Never
<1>1. CASE UNCHANGED <<now, cache, sweeper, cutoff, admitted>>
  BY <1>1 DEF ClockInv
<1>2. CASE Advance
  BY <1>2, <1>t DEF ClockInv, Advance, sweep, hist, Never
<1>3. CASE Start
  BY <1>3, <1>t DEF ClockInv, Start, hist
<1>4. CASE Stop
  BY <1>4, <1>t DEF ClockInv, Stop
<1>5. CASE HandleFresh
  <2>1. KeyOf(cursor) \in Key
    BY <1>5, KeyType, CursorType DEF HandleFresh
  <2>2. UNCHANGED <<now, sweeper, cutoff>>
    BY <1>5 DEF HandleFresh, sweep
  <2>3. /\ cache' = [cache EXCEPT ![KeyOf(cursor)] = now]
        /\ admitted' = [admitted EXCEPT ![KeyOf(cursor)] = now]
    BY <1>5 DEF HandleFresh
  <2>4. \A k \in Key : k # KeyOf(cursor) => cache'[k] = cache[k] /\ admitted'[k] = admitted[k]
    BY <2>3, <1>t
  <2>5. cache'[KeyOf(cursor)] = now /\ admitted'[KeyOf(cursor)] = now /\ now # Never
    BY <2>1, <2>3, <1>t DEF Never
  <2>6. QED
    BY <2>2, <2>4, <2>5 DEF ClockInv
<1>6. CASE SweepDue
  <2>1. UNCHANGED <<now, cache, admitted>> /\ cutoff' = now - 2 * Window
    BY <1>6 DEF SweepDue, hist, Cutoff
  <2>2. cutoff' <= now
    BY <2>1, <1>t
  <2>3. QED
    BY <2>1, <2>2 DEF ClockInv
<1>7. CASE SweepCache
  <2>1. UNCHANGED <<now, cutoff, admitted>> /\ sweeper = "lock" /\ sweeper' = "wait"
    BY <1>7 DEF SweepCache, hist
  <2>2. \A k \in Key : \/ cache'[k] = cache[k]
                       \/ cache'[k] = Never /\ cache[k] # Never /\ cache[k] < cutoff
    BY <1>7 DEF SweepCache, Expired
  <2>3. \A k \in Key : cache[k] \in Int /\ admitted[k] \in Int
    BY <1>t DEF Never
  <2>4. QED
    BY <2>1, <2>2, <2>3, <1>t DEF ClockInv
<1>8. QED
  BY <1>1, <1>2, <1>3, <1>4, <1>5, <1>6, <1>7
  DEF Next, Handle, vars, stream, reader, sweep, hist, Emit, Call, ReadNothing, Read,
      HandleGarbled, HandleDuplicate, PublishClean, PublishFails, NextMessage

\* What isDup enters after a sweep, or between its cutoff and its lock, is newer than the
\* cutoff; a process that starts has an empty cache.
LEMMA SweepStep == TypeOK /\ DownInv /\ ClockInv /\ SweepInv /\ [Next]_vars => SweepInv'
<1> SUFFICES ASSUME TypeOK, DownInv, ClockInv, SweepInv, [Next]_vars PROVE SweepInv'
  OBVIOUS
<1>t. /\ now \in Nat /\ cutoff \in Int
      /\ cache \in [Key -> Nat \cup {Never}]
  BY AggregatorAssumption DEF TypeOK, Time, Never
<1>1. CASE UNCHANGED <<cache, sweeper, cutoff>>
  BY <1>1 DEF SweepInv
<1>2. CASE Start
  BY <1>2 DEF DownInv, SweepInv, Start
<1>3. CASE Stop \/ SweepDue
  BY <1>3 DEF SweepInv, Stop, SweepDue
<1>4. CASE HandleFresh
  <2>1. UNCHANGED <<sweeper, cutoff>> /\ cache' = [cache EXCEPT ![KeyOf(cursor)] = now]
    BY <1>4 DEF HandleFresh, sweep
  <2>2. cutoff <= now
    BY DEF ClockInv
  <2>3. \A k \in Key : cache'[k] = cache[k] \/ cache'[k] = now
    BY <2>1, <1>t
  <2>4. QED
    BY <2>1, <2>2, <2>3, <1>t DEF SweepInv
<1>5. CASE SweepCache
  <2>1. \A k \in Key : cache'[k] # Never => cache'[k] = cache[k] /\ ~(cache[k] < cutoff)
    BY <1>5 DEF SweepCache, Expired
  <2>2. \A k \in Key : cache[k] \in Int
    BY <1>t DEF Never
  <2>3. cutoff' = cutoff
    BY <1>5 DEF SweepCache
  <2>4. QED
    BY <2>1, <2>2, <2>3, <1>t DEF SweepInv
<1>6. QED
  BY <1>1, <1>2, <1>3, <1>4, <1>5
  DEF Next, Handle, vars, stream, reader, sweep, hist, Advance, Emit, Call, ReadNothing, Read,
      HandleGarbled, HandleDuplicate, PublishClean, PublishFails, NextMessage

\* A message is decided at the cursor, and the cursor moves behind it together with lastID;
\* XREAD answers with what follows the position only.
LEMMA PositionStep == TypeOK /\ DownInv /\ PositionInv /\ [Next]_vars => PositionInv'
<1> SUFFICES ASSUME TypeOK, DownInv, PositionInv, [Next]_vars PROVE PositionInv'
  OBVIOUS
<1>t. /\ tail \in 0 .. MaxAlert /\ MaxAlert \in Nat /\ lastID \in 0 .. tail /\ base \in 0 .. tail
      /\ cursor \in 1 .. MaxAlert + 1 /\ upto \in 0 .. tail
      /\ fate \in [Alert -> Fates]
  BY AggregatorAssumption DEF TypeOK
<1>1. CASE UNCHANGED <<tail, reader, fate>>
  BY <1>1 DEF PositionInv, Undecided, reader
<1>2. ASSUME NEW s \in Source, NEW t \in Time, Emit(s, t) PROVE PositionInv'
  <2>1. tail' = tail + 1 /\ UNCHANGED <<reader, fate>>
    BY <1>2 DEF Emit, hist
  <2>2. \A i \in Alert : i > tail' => Undecided(i)'
    BY <2>1, <1>t DEF PositionInv, Undecided, Alert
  <2>3. QED
    BY <2>1, <2>2 DEF PositionInv, Undecided, reader
<1>3. CASE Start
  BY <1>3, <1>t DEF PositionInv, DownInv, Undecided, Start, hist, stream, Newest
<1>4. CASE Stop
  BY <1>4, <1>t DEF PositionInv, Undecided, Stop, stream
<1>5. CASE Call
  BY <1>5, <1>t DEF PositionInv, Undecided, Call, ReadAfter, stream, hist, Newest
<1>6. CASE ReadNothing
  BY <1>6, <1>t DEF PositionInv, Undecided, ReadNothing, stream, hist
<1>7. CASE Read
  <2>1. UNCHANGED <<tail, fate>> /\ pc = "blocked" /\ pc' = "handle"
    BY <1>7 DEF Read, stream
  <2>2. cursor' \in Alert /\ base < cursor'
    BY <1>7, ReadBounds
  <2>3. \A i \in Alert : i >= cursor' => Undecided(i)
    BY <2>1, <2>2, <1>t DEF PositionInv, Alert
  <2>4. QED
    BY <2>1, <2>3 DEF PositionInv, Undecided
<1>8. CASE HandleFresh
  BY <1>8, <1>t DEF PositionInv, Undecided, HandleFresh, IdRead, stream
<1>9. CASE HandleGarbled \/ HandleDuplicate \/ PublishClean \/ PublishFails
  <2>1. /\ pc \in {"handle", "publish"} /\ UNCHANGED tail
        /\ cursor' = cursor + 1 /\ pc' \in {"handle", "call"}
        /\ \E f \in Fates : fate' = [fate EXCEPT ![cursor] = f]
    BY <1>9 DEF HandleGarbled, HandleDuplicate, PublishClean, PublishFails, NextMessage, After,
                stream, Fates
  <2>2. lastID' = cursor
    BY <1>9 DEF HandleGarbled, HandleDuplicate, PublishClean, PublishFails, IdRead, PositionInv
  <2>3. cursor \in Alert /\ cursor <= tail
    BY <2>1, CursorType
  <2>4. \A i \in Alert : i # cursor => fate'[i] = fate[i]
    BY <2>1, <1>t
  <2>5. \A i \in Alert : i > cursor => Undecided(i)'
    BY <2>1, <2>4, <1>t DEF PositionInv, Undecided, Alert
  <2>6. \A i \in Alert : i > tail' => Undecided(i)'
    BY <2>1, <2>3, <2>5, <1>t DEF Alert
  <2>7. \A i \in Alert : i >= cursor' => Undecided(i)'
    BY <2>1, <2>5, <1>t DEF Alert
  <2>8. QED
    BY <2>1, <2>2, <2>5, <2>6, <2>7 DEF PositionInv
<1>10. QED
  BY <1>1, <1>2, <1>3, <1>4, <1>5, <1>6, <1>7, <1>8, <1>9
  DEF Next, Handle, vars, stream, reader, sweep, hist, Advance, SweepDue, SweepCache

\* XREAD skips nothing but what was trimmed, once it names an id and no longer "$".
LEMMA BehindStep ==
  TypeOK /\ DownInv /\ PositionInv /\ BehindInv /\ [Next]_vars => BehindInv'
<1> SUFFICES ASSUME TypeOK, DownInv, PositionInv, BehindInv, [Next]_vars PROVE BehindInv'
  OBVIOUS
<1>t. /\ tail \in 0 .. MaxAlert /\ trimmed \in 0 .. tail /\ MaxAlert \in Nat
      /\ lastID \in 0 .. tail /\ base \in 0 .. tail
      /\ cursor \in 1 .. MaxAlert + 1 /\ anchor \in 0 .. MaxAlert
      /\ fate \in [Alert -> Fates]
  BY AggregatorAssumption DEF TypeOK
<1>1. CASE UNCHANGED <<trimmed, reader, fate, anchor>>
  BY <1>1 DEF BehindInv, Undecided, reader
<1>2. ASSUME NEW s \in Source, NEW t \in Time, Emit(s, t) PROVE BehindInv'
  <2>1. UNCHANGED <<reader, fate, anchor>>
    BY <1>2 DEF Emit, hist
  <2>2. trimmed' \in Int /\ trimmed <= trimmed'
    BY <1>2, <1>t DEF Emit, TrimPoints
  <2>3. \A i \in Alert : i <= trimmed => i <= trimmed'
    BY <2>2, <1>t DEF Alert
  <2>4. QED
    BY <2>1, <2>3 DEF BehindInv, Undecided, reader
<1>3. CASE Start
  BY <1>3, <1>t DEF BehindInv, DownInv, Start, hist
<1>4. CASE Stop
  BY <1>4, <1>t DEF BehindInv, Stop
<1>5. CASE Call
  BY <1>5, <1>t DEF BehindInv, Undecided, Call, ReadAfter, stream, hist
<1>6. CASE ReadNothing
  BY <1>6, <1>t DEF BehindInv, Undecided, ReadNothing, stream, hist
<1>7. CASE Read
  <2>1. UNCHANGED <<trimmed, fate>> /\ pc = "blocked" /\ pc' = "handle"
        /\ anchor' = IF anchor = 0 THEN cursor' ELSE anchor
    BY <1>7 DEF Read, stream
  <2>2. cursor' \in Alert /\ (cursor' = trimmed + 1 \/ cursor' = base + 1)
    BY <1>7, ReadBounds
  <2>3. ASSUME anchor > 0, NEW i \in Alert, anchor <= i, i < cursor', Undecided(i)
        PROVE  i <= trimmed
    <3>1. base = lastID /\ cursor = lastID + 1
      BY <2>1, <2>3 DEF BehindInv, PositionInv
    <3>2. CASE i < cursor
      BY <2>3, <3>2 DEF BehindInv
    <3>3. CASE ~(i < cursor)
      BY <2>2, <2>3, <3>1, <3>3, <1>t DEF Alert
    <3>4. QED
      BY <3>2, <3>3
  <2>4. CASE anchor > 0
    BY <2>1, <2>3, <2>4, <1>t DEF BehindInv, Undecided
  <2>5. CASE ~(anchor > 0)
    <3>1. anchor' = cursor'
      BY <2>1, <2>5, <1>t
    <3>2. \A i \in Alert : ~(anchor' <= i /\ i < cursor')
      BY <2>2, <3>1 DEF Alert
    <3>3. QED
      BY <2>1, <3>2 DEF BehindInv
  <2>6. QED
    BY <2>4, <2>5
<1>8. CASE HandleFresh
  BY <1>8, <1>t DEF BehindInv, Undecided, HandleFresh, stream
<1>9. CASE HandleGarbled \/ HandleDuplicate \/ PublishClean \/ PublishFails
  <2>1. /\ pc \in {"handle", "publish"} /\ UNCHANGED <<trimmed, anchor>>
        /\ cursor' = cursor + 1 /\ pc' \in {"handle", "call"}
        /\ \E f \in Fates \ {"unread"} : fate' = [fate EXCEPT ![cursor] = f]
    BY <1>9 DEF HandleGarbled, HandleDuplicate, PublishClean, PublishFails, NextMessage, After,
                stream, Fates
  <2>2. lastID' = cursor
    BY <1>9 DEF HandleGarbled, HandleDuplicate, PublishClean, PublishFails, IdRead, PositionInv
  <2>3. cursor \in Alert /\ cursor # Newest
    BY <2>1, CursorType DEF Alert, Newest
  <2>4. \A i \in Alert : Undecided(i)' => i # cursor /\ Undecided(i)
    BY <2>1, <2>3, <1>t DEF Undecided
  <2>5. \A i \in Alert : i < cursor' /\ i # cursor => i < cursor
    BY <2>1, <1>t DEF Alert
  <2>6. QED
    BY <2>1, <2>2, <2>3, <2>4, <2>5 DEF BehindInv
<1>10. QED
  BY <1>1, <1>2, <1>3, <1>4, <1>5, <1>6, <1>7, <1>8, <1>9
  DEF Next, Handle, vars, stream, reader, sweep, hist, Advance, SweepDue, SweepCache

\* isDup enters a key for the message at the cursor, which is then tried; a message whose
\* key is there is younger than the one that brought it.
LEMMA OriginalStep ==
  TypeOK /\ PositionInv /\ OriginalInv /\ [Next]_vars => OriginalInv'
<1> SUFFICES ASSUME TypeOK, PositionInv, OriginalInv, [Next]_vars PROVE OriginalInv'
  OBVIOUS
<1> DEFINE Brought(k, j) ==
      j <= tail /\ KeyOf(j) = k /\ (Tried(j) \/ (pc = "publish" /\ j = cursor))
<1>t. /\ tail \in Nat /\ fate \in [Alert -> Fates] /\ cache \in [Key -> Time \cup {Never}]
  BY AggregatorAssumption DEF TypeOK
<1>k. \A k \in Key : cache[k] # Never => \E j \in Alert : Brought(k, j)
  BY DEF OriginalInv
<1>1. ASSUME UNCHANGED <<tail, source, stamp, fate>>,
             \A k \in Key : cache'[k] # Never => cache[k] # Never,
             pc = "publish" => pc' = "publish" /\ cursor' = cursor
      PROVE  OriginalInv'
  <2>1. \A k \in Key, j \in Alert : Brought(k, j) => Brought(k, j)'
    BY <1>1 DEF KeyOf, Tried
  <2>2. SuppressedForOriginal'
    BY <1>1 DEF OriginalInv, SuppressedForOriginal, SameMinute
  <2>3. QED
    BY <1>1, <1>k, <2>1, <2>2 DEF OriginalInv
<1>2. ASSUME NEW s \in Source, NEW t \in Time, Emit(s, t) PROVE OriginalInv'
  <2>1. /\ tail' = tail + 1 /\ UNCHANGED <<pc, cursor, cache, fate>>
        /\ source' = [source EXCEPT ![tail + 1] = s]
        /\ stamp' = [stamp EXCEPT ![tail + 1] = t]
    BY <1>2 DEF Emit, reader, hist
  <2>2. \A j \in Alert : j <= tail => source'[j] = source[j] /\ stamp'[j] = stamp[j]
    BY <2>1, <1>t DEF TypeOK, Alert
  <2>3. \A j \in Alert : j <= tail => j <= tail'
    BY <2>1, <1>t DEF Alert
  <2>4. \A k \in Key, j \in Alert : Brought(k, j) => Brought(k, j)'
    BY <2>1, <2>2, <2>3 DEF KeyOf, Tried
  <2>5. SuppressedForOriginal'
    <3>1. SUFFICES ASSUME NEW i \in Alert, fate[i] = "suppressed"
                   PROVE  \E j \in 1 .. i - 1 :
                            fate[j] \in {"forwarded", "failed"} /\ SameMinute(i, j)'
      BY <2>1 DEF SuppressedForOriginal
    <3>2. PICK j \in 1 .. i - 1 : fate[j] \in {"forwarded", "failed"} /\ SameMinute(i, j)
      BY <3>1 DEF OriginalInv, SuppressedForOriginal
    <3>3. j \in Alert /\ i <= tail /\ j <= tail
      BY <3>1, <1>t, AggregatorAssumption DEF PositionInv, Undecided, Alert
    <3>4. QED
      BY <2>2, <3>2, <3>3 DEF SameMinute
  <2>6. QED
    BY <2>1, <2>4, <2>5, <1>k DEF OriginalInv
<1>3. CASE Start
  BY <1>1, <1>3 DEF Start, stream, hist
<1>4. CASE Stop
  <2>1. \A k \in Key : cache'[k] = Never
    BY <1>4 DEF Stop
  <2>2. SuppressedForOriginal'
    BY <1>4 DEF Stop, stream, OriginalInv, SuppressedForOriginal, SameMinute
  <2>3. QED
    BY <2>1, <2>2 DEF OriginalInv
<1>5. CASE HandleFresh
  <2>1. /\ UNCHANGED <<tail, source, stamp, fate, cursor>> /\ pc = "handle" /\ pc' = "publish"
        /\ cache' = [cache EXCEPT ![KeyOf(cursor)] = now]
    BY <1>5 DEF HandleFresh, stream
  <2>2. cursor \in Alert /\ cursor <= tail
    BY <2>1, CursorType
  <2>3. \A k \in Key, j \in Alert : Brought(k, j) => Brought(k, j)'
    BY <2>1 DEF KeyOf, Tried
  <2>4. Brought(KeyOf(cursor), cursor)'
    BY <2>1, <2>2 DEF KeyOf
  <2>5. KeyOf(cursor) = KeyOf(cursor)'
    BY <2>1 DEF KeyOf
  <2>6. \A k \in Key : cache'[k] # Never => cache[k] # Never \/ k = KeyOf(cursor)
    BY <2>1, <1>t
  <2>7. \A k \in Key : cache'[k] # Never => \E j \in Alert : Brought(k, j)'
    BY <2>1, <2>2, <2>3, <2>4, <2>5, <2>6, <1>k
  <2>8. SuppressedForOriginal'
    BY <2>1 DEF OriginalInv, SuppressedForOriginal, SameMinute
  <2>9. QED
    BY <2>7, <2>8 DEF OriginalInv
<1>6. ASSUME pc \in {"handle", "publish"}, UNCHANGED <<tail, source, stamp, cache>>,
             NEW f \in Fates, fate' = [fate EXCEPT ![cursor] = f],
             pc = "publish" => f \in {"forwarded", "failed"},
             f = "suppressed" => pc = "handle" /\ cache[KeyOf(cursor)] # Never
      PROVE  OriginalInv'
  <2>1. cursor \in Alert /\ cursor <= tail /\ Undecided(cursor)
    BY <1>6, CursorType, AggregatorAssumption DEF PositionInv, Alert
  <2>2. \A j \in Alert : Tried(j) => Tried(j)'
    BY <1>6, <2>1, <1>t DEF Tried, Undecided
  <2>3. pc = "publish" => fate'[cursor] \in {"forwarded", "failed"}
    BY <1>6, <2>1, <1>t
  <2>4. \A k \in Key, j \in Alert : Brought(k, j) => Brought(k, j)'
    BY <1>6, <2>2, <2>3 DEF KeyOf, Tried
  <2>5. ASSUME NEW i \in Alert, fate'[i] = "suppressed"
        PROVE  \E j \in 1 .. i - 1 : Tried(j)' /\ SameMinute(i, j)
    <3>1. CASE i = cursor
      <4>1. f = "suppressed"
        BY <1>6, <2>1, <2>5, <3>1, <1>t
      <4>2. PICK j \in Alert : Brought(KeyOf(cursor), j)
        BY <1>6, <4>1, <1>k, <2>1, KeyType
      <4>3. Tried(j) /\ KeyOf(j) = KeyOf(cursor)
        BY <1>6, <4>1, <4>2
      <4>4. j < cursor
        BY <1>6, <2>1, <4>1, <4>3 DEF PositionInv, Undecided, Tried, Alert
      <4>5. j \in 1 .. cursor - 1
        BY <4>4, <2>1 DEF Alert
      <4>6. QED
        BY <3>1, <4>3, <4>5, <2>1, <2>2, SameKey DEF Alert
    <3>2. CASE i # cursor
      <4>1. fate[i] = "suppressed"
        BY <1>6, <2>5, <3>2, <1>t
      <4>2. PICK j \in 1 .. i - 1 : Tried(j) /\ SameMinute(i, j)
        BY <4>1 DEF OriginalInv, SuppressedForOriginal, Tried
      <4>3. j \in Alert
        BY AggregatorAssumption DEF Alert
      <4>4. QED
        BY <4>2, <4>3, <2>2
    <3>3. QED
      BY <3>1, <3>2
  <2>6. SuppressedForOriginal'
    BY <1>6, <2>5 DEF SuppressedForOriginal, SameMinute, Tried
  <2>7. \A k \in Key : cache'[k] # Never => \E j \in Alert : Brought(k, j)'
    BY <1>6, <2>4, <1>k
  <2>8. QED
    BY <2>6, <2>7 DEF OriginalInv
<1>7. CASE HandleGarbled \/ HandleDuplicate \/ PublishClean \/ PublishFails
  BY <1>6, <1>7
  DEF HandleGarbled, HandleDuplicate, PublishClean, PublishFails, NextMessage, stream, Fates
<1>8. CASE SweepCache
  <2>1. \A k \in Key : cache'[k] # Never => cache[k] # Never
    BY <1>8 DEF SweepCache
  <2>2. QED
    BY <1>1, <1>8, <2>1 DEF SweepCache, stream, reader, hist
<1>9. QED
  BY <1>1, <1>2, <1>3, <1>4, <1>5, <1>7, <1>8
  DEF Next, Handle, vars, stream, reader, sweep, hist, Advance, Call, ReadNothing, Read, SweepDue

(***************************************************************************)
(* The theorems.                                                           *)
(***************************************************************************)

\* The inductive invariant holds whatever the clocks, the detectors, Redis and the faults do.
THEOREM Invariance == Spec => []IInv
<1>1. IInv /\ [Next]_vars => IInv'
  BY TypeStep, DownStep, ClockStep, SweepStep, PositionStep, BehindStep, OriginalStep DEF IInv
<1>2. QED
  BY InitIInv, <1>1, PTL DEF Spec

\* A sweep leaves nothing older than its cutoff, whatever isDup entered in the meantime
\* (cleanupLoop, cmd/aggregator/main.go:103-116).
THEOREM SweptCleanHolds == Spec => []SweptClean
<1>1. IInv => SweptClean
  BY DEF IInv, SweepInv, SweptClean
<1>2. QED
  BY Invariance, <1>1, PTL

\* What is suppressed follows an alert of its detector, symbol and minute that some
\* process has tried to forward (isDup, cmd/aggregator/main.go:87-101).
THEOREM SuppressedForOriginalHolds == Spec => []SuppressedForOriginal
<1>1. IInv => SuppressedForOriginal
  BY DEF IInv, OriginalInv
<1>2. QED
  BY Invariance, <1>1, PTL

\* The reading loop passes over nothing that is still in the stream, and reads nothing
\* twice (cmd/aggregator/main.go:32-76).
THEOREM ReadsEachOnceHolds == Spec => []ReadsEachOnce
<1>1. IInv => ReadsEachOnce
  <2> SUFFICES ASSUME IInv PROVE ReadsEachOnce
    OBVIOUS
  <2>t. /\ tail \in 0 .. MaxAlert /\ MaxAlert \in Nat
        /\ cursor \in 1 .. MaxAlert + 1 /\ anchor \in 0 .. MaxAlert
    BY AggregatorAssumption DEF IInv, TypeOK
  <2>1. ASSUME anchor > 0, NEW i \in anchor .. cursor - 1, fate[i] = "unread"
        PROVE  i <= trimmed
    <3>1. i \in Alert /\ anchor <= i /\ i < cursor
      BY <2>1, <2>t DEF Alert
    <3>2. QED
      BY <2>1, <3>1 DEF IInv, BehindInv, Undecided
  <2>2. ASSUME pc \in {"handle", "publish"}, NEW i \in cursor .. tail
        PROVE  fate[i] = "unread"
    <3>1. i \in Alert /\ i >= cursor
      BY <2>2, <2>t DEF Alert
    <3>2. QED
      BY <2>2, <3>1 DEF IInv, PositionInv, Undecided
  <2>3. QED
    BY <2>1, <2>2 DEF ReadsEachOnce
<1>2. QED
  BY Invariance, <1>1, PTL

\* Within one life of the process a key that was let pass is let pass again only more than
\* two windows later, although the sweep's cutoff is older than the moment it has the lock.
THEOREM GapBetweenAdmissionsHolds == Spec => GapBetweenAdmissions
<1> DEFINE Gap == \A k \in Key : cache[k] = Never /\ cache'[k] # Never /\ admitted[k] # Never
                    => now - admitted[k] > 2 * Window
<1>1. IInv => Gap
  BY DEF IInv, ClockInv
<1>2. QED
  BY Invariance, <1>1, PTL DEF GapBetweenAdmissions
=============================================================================
