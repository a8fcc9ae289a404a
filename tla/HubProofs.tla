------------------------------- MODULE HubProofs -------------------------------
(***************************************************************************)
(* TLAPS proofs about Hub, for any browsers, any number of entries, events *)
(* and connections, any capacities and any set of faults.                  *)
(***************************************************************************)
EXTENDS Hub, SequenceTheorems, TLAPS

(***************************************************************************)
(* The inductive invariant.                                                *)
(***************************************************************************)
USE DEF streams

\* The functions and sequences TypeOK only says the values of.
ShapeInv ==
  /\ tail \in [Stream -> Nat] /\ trimmed \in [Stream -> Nat]
  /\ lastID \in [Stream -> Nat] /\ base \in [Stream -> Nat]
  /\ chan \in [Client -> Seq(Nat)]
  /\ sent \in Seq((Stream \cup {"session"}) \X Nat)

\* A broadcast is under way only while hub.mu is held, and the reader that holds it is
\* handling a reply.
LockInv ==
  /\ lock = Free => pending = {}
  /\ lock = "reader" => pc = "handle"

\* A blocked XREAD waits for what follows the newest entries: it has none to return.
BlockedInv ==
  pc = "blocked" =>
    \A s \in Stream : lastID[s] # Newest => lastID[s] = tail[s] \/ trimmed[s] = tail[s]

\* The position of the first entry of the reply whose id has not been noted.
From == IF lock = "reader" THEN 2 ELSE 1

\* An entry goes on where lastID says, or where Redis has trimmed the stream up to.
Follows(s, id) == lastID[s] < id /\ (id = lastID[s] + 1 \/ id - 1 <= trimmed[s])

\* A reply holds the entries of one stream after those of the other, each without a gap,
\* and what is left of them goes on where lastID says.
ReplyInv ==
  /\ \A i \in 1 .. Len(reply) : reply[i][2] \in 1 .. tail[reply[i][1]]
  /\ \A i, j \in 1 .. Len(reply) :
       j = i + 1 /\ reply[i][1] = reply[j][1] => reply[j][2] = reply[i][2] + 1
  /\ \A i, m, j \in 1 .. Len(reply) :
       i < m /\ m < j /\ reply[i][1] = reply[j][1] => reply[m][1] = reply[i][1]
  /\ \A i \in From .. Len(reply) :
       lastID[reply[i][1]] # Newest /\ (\A m \in From .. i - 1 : reply[m][1] # reply[i][1])
         => Follows(reply[i][1], reply[i][2])

\* lastID is the id of the last broadcast of the stream, or "$" before the first.
SentInv ==
  /\ \A s \in Stream : lastID[s] = Newest => \A k \in 1 .. Events : sent[k][1] # s
  /\ \A s \in Stream : \A k \in 1 .. Events :
       sent[k][1] = s /\ (\A m \in k + 1 .. Events : sent[m][1] # s) => sent[k][2] = lastID[s]
  /\ SkipsOnlyTrimmed

\* What a browser's channel holds is newer than what was written last, in order, and older
\* than the broadcast that has yet to reach it.
ChannelInv ==
  \A c \in clients :
    /\ last[c] + Unfinished(c) <= Events
    /\ \A k \in 1 .. Len(chan[c]) : last[c] < chan[c][k] /\ chan[c][k] + Unfinished(c) <= Events
    /\ \A j, k \in 1 .. Len(chan[c]) : j < k => chan[c][j] < chan[c][k]
    /\ received[c] + Len(chan[c]) + missed[c] + Unfinished(c) = Events - since[c]

IInv ==
  /\ ShapeInv /\ OffersReachOpenChannels /\ LockInv
  /\ BlockedInv /\ ReplyInv /\ SentInv /\ ChannelInv

(***************************************************************************)
(* Lemmas about the operators.                                             *)
(***************************************************************************)

\* The smaller of two numbers is one of them and no greater than either.
LEMMA MinOfTwo ==
  ASSUME NEW a \in Int, NEW b \in Int
  PROVE  Min({a, b}) \in {a, b} /\ Min({a, b}) <= a /\ Min({a, b}) <= b
<1>1. \E x \in {a, b} : \A y \in {a, b} : x =< y
  <2>1. CASE a <= b
    BY <2>1
  <2>2. CASE b <= a
    BY <2>2
  <2>3. QED
    BY <2>1, <2>2
<1>2. Min({a, b}) \in {a, b} /\ \A y \in {a, b} : Min({a, b}) =< y
  BY <1>1 DEF Min
<1>3. QED
  BY <1>2

\* What XREAD returns of one stream: entries without a gap after the id or after what is
\* trimmed, none only if there are none.
Gone(s, n) == IF trimmed[s] > n THEN trimmed[s] ELSE n

LEMMA EntriesOf ==
  ASSUME NEW s \in Stream, NEW n \in Nat, tail[s] \in Nat, trimmed[s] \in Nat, n <= tail[s],
         trimmed[s] <= tail[s]
  PROVE  \E size \in Nat :
           /\ Gone(s, n) + size <= tail[s] /\ (size = 0 => Gone(s, n) = tail[s])
           /\ Entries(s, n) \in Seq(Stream \X Nat) /\ Len(Entries(s, n)) = size
           /\ \A k \in 1 .. size : Entries(s, n)[k] = <<s, Gone(s, n) + k>>
<1> DEFINE size == Min({tail[s] - Gone(s, n), BatchSize})
<1>g. Gone(s, n) \in Nat /\ Gone(s, n) <= tail[s]
  BY DEF Gone
<1>1. /\ size \in Nat /\ Gone(s, n) + size <= tail[s] /\ (size = 0 => Gone(s, n) = tail[s])
  <2>1. /\ tail[s] - Gone(s, n) \in Nat /\ BatchSize \in Nat /\ BatchSize > 0
        /\ tail[s] - Gone(s, n) \in Int /\ BatchSize \in Int
    BY <1>g, HubAssumption
  <2>2. /\ size \in {tail[s] - Gone(s, n), BatchSize} /\ size <= tail[s] - Gone(s, n)
    BY <2>1, MinOfTwo, Zenon
  <2> HIDE DEF size
  <2>3. QED
    BY <2>1, <2>2, <1>g
<1>2. Entries(s, n) = [k \in 1 .. size |-> <<s, Gone(s, n) + k>>]
  BY Zenon DEF Entries, Gone
<1> HIDE DEF size
<1>3. \A k \in 1 .. size : <<s, Gone(s, n) + k>> \in Stream \X Nat
  BY <1>1, <1>g
<1>4. Entries(s, n) \in [1 .. size -> Stream \X Nat]
  BY <1>2, <1>3
<1>5. Entries(s, n) \in Seq(Stream \X Nat)
  BY <1>1, <1>4, SeqDef
<1>6. Len(Entries(s, n)) = size
  BY <1>1, <1>2, <1>5, LenProperties
<1>7. QED
  BY <1>1, <1>2, <1>5, <1>6

\* Where XREAD starts to read a stream.
First(s) == Gone(s, base'[s])

\* What XREAD returns of both: the ticks, then the alerts, each from there on.
LEMMA CallReply ==
  ASSUME TypeOK, ShapeInv, Call
  PROVE  /\ base' \in [Stream -> Nat]
         /\ \A s \in Stream : /\ base'[s] = IF lastID[s] = Newest THEN tail[s] ELSE lastID[s]
                              /\ base'[s] <= tail[s]
         /\ reply' \in Seq(Stream \X Nat)
         /\ \A s \in Stream : First(s) \in Nat
         /\ \E a, b \in Nat :
              /\ Len(reply') = a + b
              /\ First("ticks") + a <= tail["ticks"]
              /\ First("alerts-clean") + b <= tail["alerts-clean"]
              /\ a = 0 => First("ticks") = tail["ticks"]
              /\ b = 0 => First("alerts-clean") = tail["alerts-clean"]
              /\ \A i \in 1 .. a + b :
                   reply'[i] = IF i <= a THEN <<"ticks", First("ticks") + i>>
                                         ELSE <<"alerts-clean", First("alerts-clean") + (i - a)>>
<1>s. "ticks" \in Stream /\ "alerts-clean" \in Stream
  BY DEF Stream
<1>1. /\ base' \in [Stream -> Nat]
      /\ \A s \in Stream : /\ base'[s] = IF lastID[s] = Newest THEN tail[s] ELSE lastID[s]
                           /\ base'[s] <= tail[s] /\ tail[s] \in Nat
                           /\ trimmed[s] \in Nat /\ trimmed[s] <= tail[s]
  BY DEF Call, ReadAfter, ShapeInv, TypeOK
<1>f. \A s \in Stream : First(s) \in Nat
  BY <1>1 DEF First, Gone
<1> DEFINE A == Entries("ticks", base'["ticks"])
           B == Entries("alerts-clean", base'["alerts-clean"])
<1>2. reply' = A \o B
  BY DEF Call
<1>3. PICK a \in Nat :
        /\ First("ticks") + a <= tail["ticks"] /\ (a = 0 => First("ticks") = tail["ticks"])
        /\ A \in Seq(Stream \X Nat) /\ Len(A) = a
        /\ \A k \in 1 .. a : A[k] = <<"ticks", First("ticks") + k>>
  <2> DEFINE n == base'["ticks"]
  <2>1. /\ n \in Nat /\ n <= tail["ticks"] /\ tail["ticks"] \in Nat
        /\ trimmed["ticks"] \in Nat /\ trimmed["ticks"] <= tail["ticks"]
    BY <1>s, <1>1
  <2>2. First("ticks") = Gone("ticks", n) /\ A = Entries("ticks", n)
    BY DEF First
  <2> HIDE DEF n, A
  <2>3. \E size \in Nat :
          /\ Gone("ticks", n) + size <= tail["ticks"]
          /\ size = 0 => Gone("ticks", n) = tail["ticks"]
          /\ Entries("ticks", n) \in Seq(Stream \X Nat) /\ Len(Entries("ticks", n)) = size
          /\ \A k \in 1 .. size : Entries("ticks", n)[k] = <<"ticks", Gone("ticks", n) + k>>
    BY <1>s, <2>1, EntriesOf
  <2>4. QED
    BY <2>2, <2>3
<1>4. PICK b \in Nat :
        /\ First("alerts-clean") + b <= tail["alerts-clean"]
        /\ b = 0 => First("alerts-clean") = tail["alerts-clean"]
        /\ B \in Seq(Stream \X Nat) /\ Len(B) = b
        /\ \A k \in 1 .. b : B[k] = <<"alerts-clean", First("alerts-clean") + k>>
  <2> DEFINE n == base'["alerts-clean"]
  <2>1. /\ n \in Nat /\ n <= tail["alerts-clean"] /\ tail["alerts-clean"] \in Nat
        /\ trimmed["alerts-clean"] \in Nat /\ trimmed["alerts-clean"] <= tail["alerts-clean"]
    BY <1>s, <1>1
  <2>2. First("alerts-clean") = Gone("alerts-clean", n) /\ B = Entries("alerts-clean", n)
    BY DEF First
  <2> HIDE DEF n, B
  <2>3. \E size \in Nat :
          /\ Gone("alerts-clean", n) + size <= tail["alerts-clean"]
          /\ size = 0 => Gone("alerts-clean", n) = tail["alerts-clean"]
          /\ Entries("alerts-clean", n) \in Seq(Stream \X Nat) /\ Len(Entries("alerts-clean", n)) = size
          /\ \A k \in 1 .. size : Entries("alerts-clean", n)[k] = <<"alerts-clean", Gone("alerts-clean", n) + k>>
    BY <1>s, <2>1, EntriesOf
  <2>4. QED
    BY <2>2, <2>3
<1> HIDE DEF A, B
<1>5. /\ reply' \in Seq(Stream \X Nat) /\ Len(reply') = a + b
      /\ \A i \in 1 .. a + b : reply'[i] = IF i <= a THEN A[i] ELSE B[i - a]
  <2>1. /\ A \o B \in Seq(Stream \X Nat) /\ Len(A \o B) = Len(A) + Len(B)
        /\ \A i \in 1 .. Len(A) + Len(B) :
             (A \o B)[i] = IF i <= Len(A) THEN A[i] ELSE B[i - Len(A)]
    BY <1>3, <1>4, ConcatProperties
  <2>2. Len(A) = a /\ Len(B) = b
    BY <1>3, <1>4
  <2>3. QED
    BY <1>2, <2>1, <2>2
<1>6. \A i \in 1 .. a + b :
        reply'[i] = IF i <= a THEN <<"ticks", First("ticks") + i>>
                              ELSE <<"alerts-clean", First("alerts-clean") + (i - a)>>
  <2> SUFFICES ASSUME NEW i \in 1 .. a + b
               PROVE  reply'[i] = IF i <= a THEN <<"ticks", First("ticks") + i>>
                                  ELSE <<"alerts-clean", First("alerts-clean") + (i - a)>>
    OBVIOUS
  <2>1. CASE i <= a
    BY <1>3, <1>5, <2>1
  <2>2. CASE ~(i <= a)
    <3>1. i - a \in 1 .. b
      BY <2>2
    <3>2. QED
      BY <1>4, <1>5, <2>2, <3>1
  <2>3. QED
    BY <2>1, <2>2
<1>7. QED
  BY <1>1, <1>3, <1>4, <1>5, <1>6, <1>f

\* XADD trims a prefix and nothing gives the entries back.
LEMMA TrimmedGrows ==
  ASSUME TypeOK, ShapeInv, [Next]_vars
  PROVE  \A s \in Stream : /\ trimmed[s] \in Nat /\ trimmed'[s] \in Nat
                           /\ trimmed[s] <= trimmed'[s] /\ trimmed'[s] <= tail'[s]
<1>t. \A s \in Stream : trimmed[s] \in Nat /\ tail[s] \in Nat /\ trimmed[s] <= tail[s]
  BY DEF ShapeInv, TypeOK
<1>1. CASE UNCHANGED streams
  BY <1>1, <1>t
<1>2. ASSUME NEW r \in Stream, Add(r)
      PROVE  \A s \in Stream : /\ trimmed[s] \in Nat /\ trimmed'[s] \in Nat
                               /\ trimmed[s] <= trimmed'[s] /\ trimmed'[s] <= tail'[s]
  <2>1. PICK t \in trimmed[r] .. tail[r] + 1 : trimmed' = [trimmed EXCEPT ![r] = t]
    BY <1>2 DEF Add, TrimPoints
  <2>2. tail' = [tail EXCEPT ![r] = tail[r] + 1]
    BY <1>2 DEF Add
  <2>3. /\ trimmed'[r] = t /\ tail'[r] = tail[r] + 1
        /\ \A s \in Stream : s # r => trimmed'[s] = trimmed[s] /\ tail'[s] = tail[s]
    BY <2>1, <2>2 DEF ShapeInv
  <2>4. t \in Nat /\ trimmed[r] <= t /\ t <= tail[r] + 1
    BY <1>t
  <2>5. QED
    BY <1>t, <2>3, <2>4
<1>3. QED
  BY <1>1, <1>2
  DEF Next, Browser, vars, Call, ReadNothing, ReceiveReply, ReplyLost, ReaderLocks, SessionLocks,
      Lock, ReaderUnlocks, SessionUnlocks, Ask, Offer, Subscribe, Write, Leave, Unsubscribe

\* A step of the hub broadcasts at most one event, behind all that were broadcast before.
LEMMA SentGrows ==
  ASSUME ShapeInv, NEW e \in (Stream \cup {"session"}) \X Nat, sent' = Append(sent, e)
  PROVE  /\ sent' \in Seq((Stream \cup {"session"}) \X Nat)
         /\ Events \in Nat /\ Events' = Events + 1
         /\ \A k \in 1 .. Events : sent'[k] = sent[k]
         /\ sent'[Events + 1] = e
BY AppendProperties, LenProperties DEF ShapeInv, Events

\* The head of a reply under way is an entry of a stream, and its tail is what follows.
LEMMA ReplyHead ==
  ASSUME TypeOK, reply # <<>>
  PROVE  /\ Len(reply) \in Nat \ {0} /\ Head(reply) = reply[1]
         /\ Head(reply) \in Stream \X Nat
         /\ Tail(reply) \in Seq(Stream \X Nat) /\ Len(Tail(reply)) = Len(reply) - 1
         /\ \A i \in 1 .. Len(reply) - 1 : Tail(reply)[i] = reply[i + 1]
<1>1. reply \in Seq(Stream \X Nat)
  BY DEF TypeOK
<1>2. QED
  BY <1>1, EmptySeq, HeadTailProperties

\* The account of a browser when an event reaches its channel, or is dropped for it.
LEMMA OneAccounted ==
  ASSUME NEW r \in Nat, NEW n \in Nat, NEW m \in Nat, NEW e \in Nat, NEW s \in Nat,
         r + n + m + 1 = e - s
  PROVE  r + (n + 1) + m + 0 = e - s /\ r + n + (m + 1) + 0 = e - s
OBVIOUS

\* A browser with an event in its channel was sent fewer than there were broadcasts.
LEMMA RoomForOneMore ==
  ASSUME NEW r \in Nat, NEW n \in Nat \ {0}, NEW m \in Nat, NEW u \in {0, 1}, NEW e \in Nat,
         NEW s \in Nat, r + n + m + u = e - s
  PROVE  r + 1 \in 0 .. e
OBVIOUS

\* An event newer than what an ascending channel holds, put behind it, leaves it ascending.
LEMMA AppendAscends ==
  ASSUME NEW q \in Seq(Nat), NEW l \in Nat, NEW n \in Nat, l + 1 <= n,
         \A k \in 1 .. Len(q) : l < q[k] /\ q[k] + 1 <= n,
         \A j, k \in 1 .. Len(q) : j < k => q[j] < q[k]
  PROVE  LET p == Append(q, n)
         IN  /\ Len(p) = Len(q) + 1 /\ Len(q) \in Nat
             /\ \A k \in 1 .. Len(p) : l < p[k] /\ p[k] <= n /\ p[k] \in Nat
             /\ \A j, k \in 1 .. Len(p) : j < k => p[j] < p[k]
<1> DEFINE p == Append(q, n)
<1>1. /\ Len(q) \in Nat /\ \A k \in 1 .. Len(q) : q[k] \in Nat
  BY LenProperties, ElementOfSeq
<1>2. /\ Len(p) = Len(q) + 1 /\ p[Len(q) + 1] = n
      /\ \A k \in 1 .. Len(q) : p[k] = q[k]
  BY AppendProperties
<1> HIDE DEF p
<1>3. \A k \in 1 .. Len(p) : k \in 1 .. Len(q) \/ k = Len(q) + 1
  BY <1>1, <1>2
<1>4. \A k \in 1 .. Len(p) : l < p[k] /\ p[k] <= n /\ p[k] \in Nat
  BY <1>1, <1>2, <1>3, SMTT(30)
<1>5. ASSUME NEW j \in 1 .. Len(p), NEW k \in 1 .. Len(p), j < k PROVE p[j] < p[k]
  <2>1. j \in 1 .. Len(q)
    BY <1>1, <1>2, <1>5
  <2>2. CASE k = Len(q) + 1
    BY <1>1, <1>2, <2>1, <2>2
  <2>3. CASE k \in 1 .. Len(q)
    BY <1>2, <1>5, <2>1, <2>3
  <2>4. QED
    BY <1>3, <2>2, <2>3
<1>6. QED
  BY <1>1, <1>2, <1>4, <1>5 DEF p

\* The head of an ascending channel is older than what it leaves behind.
LEMMA TailAscends ==
  ASSUME NEW q \in Seq(Nat), q # <<>>,
         \A j, k \in 1 .. Len(q) : j < k => q[j] < q[k]
  PROVE  LET p == Tail(q)
         IN  /\ Len(q) \in Nat \ {0} /\ Len(p) = Len(q) - 1 /\ Head(q) = q[1] /\ Head(q) \in Nat
             /\ \A k \in 1 .. Len(p) : k + 1 \in 1 .. Len(q) /\ p[k] = q[k + 1] /\ Head(q) < p[k]
             /\ \A j, k \in 1 .. Len(p) : j < k => p[j] < p[k]
<1> DEFINE p == Tail(q)
<1>1. /\ Len(q) \in Nat \ {0} /\ \A k \in 1 .. Len(q) : q[k] \in Nat
  BY LenProperties, ElementOfSeq, EmptySeq
<1>2. /\ Len(p) = Len(q) - 1 /\ Head(q) = q[1]
      /\ \A k \in 1 .. Len(q) - 1 : p[k] = q[k + 1]
  BY HeadTailProperties
<1> HIDE DEF p
<1>3. \A k \in 1 .. Len(p) : k + 1 \in 1 .. Len(q) /\ 1 \in 1 .. Len(q) /\ 1 < k + 1
  BY <1>1, <1>2
<1>4. \A k \in 1 .. Len(p) : p[k] = q[k + 1] /\ Head(q) < p[k]
  BY <1>1, <1>2, <1>3
<1>5. ASSUME NEW j \in 1 .. Len(p), NEW k \in 1 .. Len(p), j < k PROVE p[j] < p[k]
  <2>1. j + 1 < k + 1 /\ j + 1 \in 1 .. Len(q) /\ k + 1 \in 1 .. Len(q)
    BY <1>1, <1>3, <1>5
  <2>2. q[j + 1] < q[k + 1]
    BY <2>1
  <2>3. QED
    BY <1>4, <2>2
<1>6. Head(q) \in Nat
  BY <1>1, <1>2
<1>7. QED
  BY <1>1, <1>2, <1>3, <1>4, <1>5, <1>6 DEF p

(***************************************************************************)
(* The inductive invariant is one.                                         *)
(***************************************************************************)
LEMMA InitIInv == Init => IInv
<1> SUFFICES ASSUME Init PROVE IInv
  OBVIOUS
<1> USE DEF Init
<1>1. /\ Len(sent) = 0 /\ Len(reply) = 0 /\ sent = <<>> /\ Events = 0
      /\ \A c \in Client : chan[c] = <<>> /\ Len(chan[c]) = 0
  BY DEF Events
<1>2. ShapeInv
  BY DEF ShapeInv, Newest
<1>3. OffersReachOpenChannels
  <2>1. MaxEntry \in [Stream -> Nat] /\ MaxSession \in Nat /\ MaxVisit \in Nat /\ ChanSize \in Nat
    BY HubAssumption
  <2>2. TypeOK
    <3>1. \A s \in Stream :
            /\ tail[s] \in 0 .. MaxEntry[s] /\ trimmed[s] \in 0 .. tail[s]
            /\ lastID[s] \in 0 .. tail[s] /\ base[s] \in 0 .. tail[s]
      BY <2>1 DEF Newest
    <3>2. \A c \in Client : chan[c] \in Seq(1 .. Events) /\ Len(chan[c]) <= ChanSize
      BY <1>1, <2>1
    <3>3. {since, last, received, missed} \subseteq [Client -> 0 .. Events]
      BY <1>1
    <3>4. visits \in [Client -> 0 .. MaxVisit] /\ told \in 0 .. MaxSession
      BY <2>1
    <3>5. reply \in Seq(Stream \X Nat) /\ lock \in {Free} \cup Broadcaster
      OBVIOUS
    <3>6. QED
      BY <3>1, <3>2, <3>3, <3>4, <3>5 DEF TypeOK
  <2>3. QED
    BY <2>2 DEF OffersReachOpenChannels
<1>4. LockInv /\ BlockedInv
  BY DEF LockInv, BlockedInv, Free
<1>5. ReplyInv
  BY <1>1 DEF ReplyInv, From, Free
<1>6. SentInv
  BY <1>1 DEF SentInv, SkipsOnlyTrimmed
<1>7. ChannelInv
  BY DEF ChannelInv
<1>8. QED
  BY <1>2, <1>3, <1>4, <1>5, <1>6, <1>7 DEF IInv

\* A broadcast starts only when none is under way and visits the browsers that are
\* subscribed; nobody comes or goes before it has ended.
LEMMA SubscribersStep ==
  ASSUME pending \subseteq clients, \A c \in Client : c \in clients <=> at[c] # "away",
         clients \subseteq Client, at \in [Client -> {"away", "listen", "leave"}], LockInv,
         [Next]_vars
  PROVE  pending' \subseteq clients' /\ \A c \in Client : c \in clients' <=> at'[c] # "away"
<1> DEFINE Goal == pending' \subseteq clients' /\ \A c \in Client : c \in clients' <=> at'[c] # "away"
<1>1. CASE UNCHANGED <<pending, clients, at>>
  BY <1>1
<1>2. CASE pending' = clients /\ UNCHANGED <<clients, at>>
  BY <1>2
<1>3. ASSUME NEW c \in Client, Offer(c) PROVE Goal
  BY <1>3 DEF Offer
<1>4. ASSUME NEW c \in Client, Subscribe(c) \/ Unsubscribe(c) PROVE Goal
  BY <1>4 DEF Subscribe, Unsubscribe, CanClose, LockInv
<1>5. ASSUME NEW c \in Client, Leave(c) PROVE Goal
  BY <1>5 DEF Leave
<1>6. QED
  BY <1>1, <1>2, <1>3, <1>4, <1>5
  DEF Next, Browser, vars, reader, browser, session, Add, Call, ReadNothing, ReceiveReply,
      ReplyLost, ReaderLocks, SessionLocks, Lock, ReaderUnlocks, SessionUnlocks, Ask, Write

\* A broadcast ends when it has visited everybody, and the reply is only put away then.
LEMMA LockStep == TypeOK /\ LockInv /\ [Next]_vars => LockInv'
<1> SUFFICES ASSUME TypeOK, LockInv, [Next]_vars PROVE LockInv'
  OBVIOUS
<1>1. CASE UNCHANGED <<lock, pending, pc>>
  BY <1>1 DEF LockInv
<1>2. CASE ReaderLocks \/ SessionLocks
  BY <1>2 DEF LockInv, ReaderLocks, SessionLocks, Lock, Free
<1>3. ASSUME NEW c \in Client, Offer(c) PROVE LockInv'
  BY <1>3 DEF LockInv, Offer, reader
<1>4. CASE ReaderUnlocks \/ SessionUnlocks
  BY <1>4 DEF LockInv, ReaderUnlocks, SessionUnlocks, reader, Free
<1>5. CASE (pc = "handle" => pc' = "handle") /\ UNCHANGED <<lock, pending>>
  BY <1>5 DEF LockInv
<1>6. QED
  BY <1>1, <1>2, <1>3, <1>4, <1>5
  DEF Next, Browser, vars, reader, browser, session, Add, Call, ReadNothing, ReceiveReply,
      ReplyLost, Ask, Subscribe, Write, Leave, Unsubscribe

\* XREAD blocks only when it has nothing to return, and wakes with the next entry.
LEMMA BlockedStep == TypeOK /\ ShapeInv /\ LockInv /\ BlockedInv /\ [Next]_vars => BlockedInv'
<1> SUFFICES ASSUME TypeOK, ShapeInv, LockInv, BlockedInv, [Next]_vars, pc' = "blocked"
             PROVE  BlockedInv'
  BY DEF BlockedInv
<1>1. CASE pc = "blocked" /\ UNCHANGED <<streams, lastID>>
  BY <1>1 DEF BlockedInv
<1>2. CASE Call
  <2>1. reply' = <<>> /\ Len(reply') = 0 /\ UNCHANGED <<streams, lastID>>
    BY <1>2 DEF Call
  <2>2. First("ticks") = tail["ticks"] /\ First("alerts-clean") = tail["alerts-clean"]
    BY <1>2, <2>1, CallReply
  <2>3. \A s \in Stream : lastID[s] # Newest => lastID[s] = base'[s]
    BY <1>2, CallReply
  <2>4. ASSUME NEW s \in Stream, lastID[s] # Newest
        PROVE  lastID[s] = tail[s] \/ trimmed[s] = tail[s]
    BY <2>2, <2>3, <2>4 DEF Stream, First, Gone
  <2>5. QED
    BY <2>1, <2>4 DEF BlockedInv
<1>3. ASSUME NEW s \in Stream, Add(s) PROVE FALSE
  BY <1>3 DEF Add
<1>4. QED
  BY <1>1, <1>2, <1>3
  DEF Next, Browser, vars, reader, browser, session, ReadNothing, ReceiveReply, ReplyLost,
      ReaderLocks, SessionLocks, Lock, ReaderUnlocks, SessionUnlocks, Ask, Offer, Subscribe,
      Write, Leave, Unsubscribe, LockInv

\* The ids in a reply are those of entries; noting an id moves the position by one entry,
\* and a reply that is lost leaves lastID where it was.
LEMMA ReplyStep ==
  TypeOK /\ ShapeInv /\ LockInv /\ BlockedInv /\ ReplyInv /\ [Next]_vars => ReplyInv'
<1> SUFFICES ASSUME TypeOK, ShapeInv, LockInv, BlockedInv, ReplyInv, [Next]_vars
             PROVE  ReplyInv'
  OBVIOUS
<1>t. /\ reply \in Seq(Stream \X Nat) /\ Len(reply) \in Nat
      /\ \A i \in 1 .. Len(reply) : reply[i] \in Stream \X Nat /\ reply[i][1] \in Stream
      /\ tail \in [Stream -> Nat] /\ lastID \in [Stream -> Nat] /\ trimmed \in [Stream -> Nat]
      /\ reply = <<>> => Len(reply) = 0
  <2>1. reply \in Seq(Stream \X Nat)
    BY DEF TypeOK
  <2>2. \A i \in 1 .. Len(reply) : reply[i] \in Stream \X Nat
    BY <2>1, ElementOfSeq
  <2>3. tail \in [Stream -> Nat] /\ lastID \in [Stream -> Nat] /\ trimmed \in [Stream -> Nat]
    BY DEF ShapeInv
  <2>4. QED
    BY <2>1, <2>2, <2>3, LenProperties, SMTT(30)
<1>r. \A i \in 1 .. Len(reply) : reply[i][2] \in 1 .. tail[reply[i][1]]
  BY DEF ReplyInv
<1>1. CASE UNCHANGED <<streams, reply, lastID>> /\ From' = From
  <2>1. tail' = tail /\ trimmed' = trimmed /\ reply' = reply /\ lastID' = lastID /\ From' = From
    BY <1>1
  <2>2. \A i \in 1 .. Len(reply) : reply[i][2] \in 1 .. tail[reply[i][1]]
    BY DEF ReplyInv
  <2>3. \A i, j \in 1 .. Len(reply) :
          j = i + 1 /\ reply[i][1] = reply[j][1] => reply[j][2] = reply[i][2] + 1
    BY DEF ReplyInv
  <2>4. \A i, m, j \in 1 .. Len(reply) :
          i < m /\ m < j /\ reply[i][1] = reply[j][1] => reply[m][1] = reply[i][1]
    BY DEF ReplyInv
  <2>5. \A i \in From .. Len(reply) :
          lastID[reply[i][1]] # Newest /\ (\A m \in From .. i - 1 : reply[m][1] # reply[i][1])
            => Follows(reply[i][1], reply[i][2])
    BY DEF ReplyInv
  <2>6. QED
    BY <2>1, <2>2, <2>3, <2>4, <2>5 DEF ReplyInv, Follows
<1>2. ASSUME NEW s \in Stream, Add(s) PROVE ReplyInv'
  <2>1. tail' = [tail EXCEPT ![s] = @ + 1] /\ UNCHANGED <<lastID, lock>>
    BY <1>2 DEF Add
  <2>2. \A r \in Stream : tail[r] \in Nat /\ tail[r] <= tail'[r] /\ tail'[r] \in Nat
    BY <2>1, <1>t
  <2>m. \A r \in Stream : /\ lastID[r] \in Nat /\ trimmed[r] \in Nat /\ trimmed'[r] \in Nat
                          /\ trimmed[r] <= trimmed'[r]
    BY <1>t, TrimmedGrows
  <2>3. CASE pc = "blocked"
    <3>1. reply' = <<<<s, tail[s] + 1>>>> /\ From' = 1
      BY <1>2, <2>1, <2>3 DEF Add, From, LockInv
    <3>2. Len(reply') = 1 /\ reply'[1][1] = s /\ reply'[1][2] = tail[s] + 1 /\ tail'[s] = tail[s] + 1
      BY <3>1, <2>1, <1>t
    <3>3. lastID[s] # Newest => Follows(s, tail[s])'
      <4>1. lastID[s] # Newest => lastID[s] = tail[s] \/ trimmed[s] = tail[s]
        BY <2>3 DEF BlockedInv
      <4>2. lastID[s] <= tail[s]
        BY <2>2, <2>m DEF TypeOK
      <4>3. QED
        BY <2>1, <2>2, <2>m, <3>2, <4>1, <4>2 DEF Follows
    <3>4. \A i \in 1 .. Len(reply') : i = 1
      BY <3>2
    <3>5. tail'[s] \in 1 .. tail'[s] /\ reply'[1][2] = tail'[s]
      BY <2>2, <3>2
    <3>6. QED
      BY <2>1, <3>1, <3>2, <3>3, <3>4, <3>5 DEF ReplyInv
  <2>4. CASE pc # "blocked"
    <3>1. reply' = reply /\ From' = From
      BY <1>2, <2>1, <2>4 DEF Add, From
    <3>n. ASSUME NEW i \in 1 .. Len(reply)
          PROVE  reply[i][2] \in 1 .. tail'[reply[i][1]] /\ reply[i][2] \in Nat
      <4> DEFINE r == reply[i][1]
                 id == reply[i][2]
      <4>1. r \in Stream
        BY <1>t
      <4>2. id \in 1 .. tail[r]
        BY <1>r
      <4> HIDE DEF r, id
      <4>3. id \in 1 .. tail'[r] /\ id \in Nat
        BY <2>2, <4>1, <4>2
      <4>4. QED
        BY <4>3 DEF r, id
    <3>2. \A i \in 1 .. Len(reply) : reply[i][2] \in 1 .. tail'[reply[i][1]]
      BY <3>n
    <3>3. \A i \in 1 .. Len(reply) : reply[i][2] \in Nat
      BY <3>n
    <3>4. \A i \in 1 .. Len(reply) :
            Follows(reply[i][1], reply[i][2]) => Follows(reply[i][1], reply[i][2])'
      <4> SUFFICES ASSUME NEW i \in 1 .. Len(reply), Follows(reply[i][1], reply[i][2])
                   PROVE  Follows(reply[i][1], reply[i][2])'
        OBVIOUS
      <4> DEFINE r == reply[i][1]
                 id == reply[i][2]
      <4>1. r \in Stream /\ id \in Nat /\ lastID' = lastID
        BY <2>1, <3>3, <1>t
      <4>2. lastID[r] < id /\ (id = lastID[r] + 1 \/ id - 1 <= trimmed[r])
        BY DEF Follows
      <4> HIDE DEF r, id
      <4>3. lastID'[r] < id /\ (id = lastID'[r] + 1 \/ id - 1 <= trimmed'[r])
        BY <2>m, <4>1, <4>2
      <4>4. QED
        BY <3>1, <4>3 DEF Follows, r, id
    <3>5. From .. Len(reply) \subseteq 1 .. Len(reply)
      BY <1>t DEF From
    <3>6. \A i \in From .. Len(reply) :
            lastID[reply[i][1]] # Newest /\ (\A m \in From .. i - 1 : reply[m][1] # reply[i][1])
              => Follows(reply[i][1], reply[i][2])'
      BY <3>4, <3>5 DEF ReplyInv
    <3>7. QED
      <4>1. /\ \A i, j \in 1 .. Len(reply) :
                 j = i + 1 /\ reply[i][1] = reply[j][1] => reply[j][2] = reply[i][2] + 1
            /\ \A i, m, j \in 1 .. Len(reply) :
                 i < m /\ m < j /\ reply[i][1] = reply[j][1] => reply[m][1] = reply[i][1]
        BY DEF ReplyInv
      <4>2. QED
        BY <2>1, <3>1, <3>2, <3>6, <4>1 DEF ReplyInv, Follows
  <2>5. QED
    BY <2>3, <2>4
<1>3. CASE Call
  <2>1. UNCHANGED <<streams, lastID>> /\ From' = 1
    BY <1>3 DEF Call, From, LockInv
  <2>2. \A s \in Stream : /\ base'[s] \in Nat /\ tail[s] \in Nat
                          /\ lastID[s] # Newest => base'[s] = lastID[s]
    BY <1>3, <1>t, CallReply
  <2>n. \A s \in Stream : First(s) \in Nat
    BY <1>3, CallReply
  <2>3. PICK a \in Nat, b \in Nat :
          /\ Len(reply') = a + b
          /\ First("ticks") + a <= tail["ticks"]
          /\ First("alerts-clean") + b <= tail["alerts-clean"]
          /\ \A i \in 1 .. a + b :
               reply'[i] = IF i <= a THEN <<"ticks", First("ticks") + i>>
                                     ELSE <<"alerts-clean", First("alerts-clean") + (i - a)>>
    BY <1>3, CallReply
  <2>4. "ticks" \in Stream /\ "alerts-clean" \in Stream
    BY DEF Stream
  <2>5. \A i \in 1 .. a + b : i <= a => reply'[i][1] = "ticks" /\ reply'[i][2] = First("ticks") + i
    BY <2>3
  <2>6. \A i \in 1 .. a + b : ~(i <= a) => /\ reply'[i][1] = "alerts-clean"
                                            /\ reply'[i][2] = First("alerts-clean") + (i - a)
    BY <2>3
  <2>7. ASSUME NEW i \in 1 .. Len(reply') PROVE reply'[i][2] \in 1 .. tail'[reply'[i][1]]
    <3>1. i \in 1 .. a + b
      BY <2>3
    <3>2. CASE i <= a
      BY <2>1, <2>2, <2>n, <2>3, <2>4, <2>5, <3>1, <3>2, SMTT(30)
    <3>3. CASE ~(i <= a)
      <4>1. /\ reply'[i][1] = "alerts-clean"
            /\ reply'[i][2] = First("alerts-clean") + (i - a) /\ i - a \in 1 .. b
        BY <2>6, <3>1, <3>3
      <4>2. /\ First("alerts-clean") \in Nat /\ tail'["alerts-clean"] = tail["alerts-clean"]
            /\ tail["alerts-clean"] \in Nat
            /\ First("alerts-clean") + b <= tail["alerts-clean"]
        BY <2>1, <2>2, <2>n, <2>3, <2>4
      <4>3. First("alerts-clean") + (i - a) \in 1 .. tail["alerts-clean"]
        BY <4>1, <4>2
      <4>4. QED
        BY <4>1, <4>2, <4>3
    <3>4. QED
      BY <3>2, <3>3
  <2>8. ASSUME NEW i \in 1 .. Len(reply'), NEW j \in 1 .. Len(reply'), j = i + 1,
               reply'[i][1] = reply'[j][1]
        PROVE  reply'[j][2] = reply'[i][2] + 1
    <3>1. i \in 1 .. a + b /\ j \in 1 .. a + b
      BY <2>3
    <3>2. CASE j <= a
      <4>1. i <= a
        BY <2>8, <3>1, <3>2
      <4>2. reply'[i][2] = First("ticks") + i /\ reply'[j][2] = First("ticks") + j
        BY <2>5, <3>1, <3>2, <4>1
      <4>3. First("ticks") \in Nat
        BY <2>n, <2>4
      <4>4. QED
        BY <2>8, <4>2, <4>3
    <3>3. CASE ~(j <= a)
      <4>1. ~(i <= a)
        BY <2>5, <2>6, <2>8, <3>1, <3>3
      <4>2. /\ reply'[i][2] = First("alerts-clean") + (i - a)
            /\ reply'[j][2] = First("alerts-clean") + (j - a)
        BY <2>6, <3>1, <3>3, <4>1
      <4>3. First("alerts-clean") \in Nat
        BY <2>n, <2>4
      <4>4. QED
        BY <2>8, <4>2, <4>3
    <3>4. QED
      BY <3>2, <3>3
  <2>9. \A i, m, j \in 1 .. Len(reply') :
          i < m /\ m < j /\ reply'[i][1] = reply'[j][1] => reply'[m][1] = reply'[i][1]
    BY <2>3, <2>5, <2>6
  <2>f. \A s \in Stream : lastID[s] # Newest => Follows(s, First(s) + 1)
    BY <2>2, <1>t DEF First, Gone, Follows
  <2>10. ASSUME NEW i \in 1 .. Len(reply'), lastID[reply'[i][1]] # Newest,
                \A m \in 1 .. i - 1 : reply'[m][1] # reply'[i][1]
         PROVE  Follows(reply'[i][1], reply'[i][2])
    <3>1. CASE i <= a
      <4>1. reply'[i][1] = "ticks"
        BY <2>3, <2>5, <3>1
      <4>2. i = 1
        <5>1. ~(1 \in 1 .. i - 1)
          BY <2>3, <2>5, <2>10, <3>1, <4>1
        <5>2. QED
          BY <5>1
      <4>3. QED
        <5>1. reply'[i][2] = First("ticks") + 1
          BY <2>3, <2>5, <3>1, <4>2
        <5>2. QED
          BY <2>f, <2>4, <2>10, <4>1, <5>1
    <3>2. CASE ~(i <= a)
      <4>1. reply'[i][1] = "alerts-clean" /\ i \in 1 .. a + b
        BY <2>3, <2>6, <3>2
      <4>2. i = a + 1
        <5>1. ~(a + 1 \in 1 .. i - 1)
          BY <2>3, <2>6, <2>10, <3>2, <4>1
        <5>2. QED
          BY <5>1, <3>2
      <4>3. QED
        <5>1. reply'[i][2] = First("alerts-clean") + 1
          BY <2>3, <2>4, <2>6, <3>2, <4>1, <4>2
        <5>2. QED
          BY <2>f, <2>4, <2>10, <4>1, <5>1
    <3>3. QED
      BY <3>1, <3>2
  <2>11. QED
    BY <2>1, <2>7, <2>8, <2>9, <2>10 DEF ReplyInv, Follows
<1>4. CASE ReplyLost
  <2>1. Len(reply') = 0 /\ From' \in {1, 2}
    BY <1>4 DEF ReplyLost, From
  <2>2. QED
    BY <2>1 DEF ReplyInv
<1>5. CASE ReaderLocks
  <2>1. /\ UNCHANGED <<streams, reply>> /\ From = 1 /\ From' = 2 /\ reply # <<>>
        /\ lastID' = [lastID EXCEPT ![Head(reply)[1]] = Head(reply)[2]]
    BY <1>5 DEF ReaderLocks, Lock, From, TypeOK, IdRead, Free
  <2>2. /\ Len(reply) > 0 /\ Head(reply) = reply[1] /\ 1 \in 1 .. Len(reply)
        /\ reply[1][1] \in Stream
    BY <2>1, <1>t, ReplyHead
  <2>3. /\ lastID'[reply[1][1]] = reply[1][2]
        /\ \A r \in Stream : r # reply[1][1] => lastID'[r] = lastID[r]
    BY <2>1, <2>2, <1>t
  <2>4. ASSUME NEW i \in 2 .. Len(reply), lastID'[reply[i][1]] # Newest,
               \A m \in 2 .. i - 1 : reply[m][1] # reply[i][1]
        PROVE  Follows(reply[i][1], reply[i][2])'
    <3>1. i \in 1 .. Len(reply) /\ reply[i][1] \in Stream
      <4>1. Len(reply) \in Nat
        BY <1>t
      <4>2. i \in 1 .. Len(reply)
        BY <2>4, <4>1
      <4>3. QED
        BY <1>t, <4>2
    <3>2. CASE reply[i][1] = reply[1][1]
      <4>1. i = 2
        <5>1. ASSUME i # 2 PROVE FALSE
          <6>1. 2 \in 1 .. Len(reply) /\ 1 < 2 /\ 2 < i /\ 2 \in 2 .. i - 1
            BY <1>t, <5>1
          <6>2. reply[2][1] = reply[1][1]
            BY <2>2, <3>1, <3>2, <6>1 DEF ReplyInv
          <6>3. QED
            BY <2>4, <3>2, <6>1, <6>2
        <5>2. QED
          BY <5>1
      <4>2. reply[i][2] = lastID'[reply[i][1]] + 1 /\ lastID'[reply[i][1]] \in Nat
        <5>1. reply[1][2] \in Nat
          BY <2>2, <1>t DEF ReplyInv
        <5>2. QED
          BY <2>2, <2>3, <3>1, <3>2, <4>1, <5>1 DEF ReplyInv
      <4>3. QED
        BY <2>1, <4>2 DEF Follows
    <3>3. CASE reply[i][1] # reply[1][1]
      <4>1. lastID'[reply[i][1]] = lastID[reply[i][1]]
        BY <2>3, <3>1, <3>3
      <4>2. \A m \in 1 .. i - 1 : reply[m][1] # reply[i][1]
        <5>1. \A m \in 1 .. i - 1 : m = 1 \/ m \in 2 .. i - 1
          OBVIOUS
        <5>2. QED
          BY <2>4, <3>3, <5>1
      <4>3. Follows(reply[i][1], reply[i][2])
        BY <2>1, <2>4, <3>1, <4>1, <4>2 DEF ReplyInv
      <4>4. QED
        BY <2>1, <4>1, <4>3 DEF Follows
    <3>4. QED
      BY <3>2, <3>3
  <2>5. tail' = tail /\ reply' = reply /\ From' = 2
    BY <2>1
  <2>6. \A i \in 1 .. Len(reply') : reply'[i][2] \in 1 .. tail'[reply'[i][1]]
    BY <2>5, <1>r
  <2>7. /\ \A i, j \in 1 .. Len(reply) :
             j = i + 1 /\ reply[i][1] = reply[j][1] => reply[j][2] = reply[i][2] + 1
        /\ \A i, m, j \in 1 .. Len(reply) :
             i < m /\ m < j /\ reply[i][1] = reply[j][1] => reply[m][1] = reply[i][1]
    BY DEF ReplyInv
  <2>8. \A i \in From' .. Len(reply') :
          lastID'[reply'[i][1]] # Newest
          /\ (\A m \in From' .. i - 1 : reply'[m][1] # reply'[i][1])
            => Follows(reply[i][1], reply[i][2])'
    BY <2>4, <2>5
  <2>9. QED
    BY <2>5, <2>6, <2>7, <2>8 DEF ReplyInv
<1>6. CASE ReaderUnlocks
  <2>1. /\ UNCHANGED <<streams, lastID>> /\ From = 2 /\ From' = 1 /\ reply # <<>>
        /\ reply' = Tail(reply)
    BY <1>6 DEF ReaderUnlocks, From, TypeOK, LockInv, Free
  <2>2. /\ Len(reply') = Len(reply) - 1 /\ Len(reply) \in Nat
        /\ \A i \in 1 .. Len(reply') : reply'[i] = reply[i + 1] /\ i + 1 \in 1 .. Len(reply)
    BY <2>1, ReplyHead
  <2>3. \A i \in 1 .. Len(reply') : reply'[i][2] \in 1 .. tail'[reply'[i][1]]
    BY <2>1, <2>2 DEF ReplyInv
  <2>4. \A i, j \in 1 .. Len(reply') :
          j = i + 1 /\ reply'[i][1] = reply'[j][1] => reply'[j][2] = reply'[i][2] + 1
    BY <2>2 DEF ReplyInv
  <2>5. \A i, m, j \in 1 .. Len(reply') :
          i < m /\ m < j /\ reply'[i][1] = reply'[j][1] => reply'[m][1] = reply'[i][1]
    <3> SUFFICES ASSUME NEW i \in 1 .. Len(reply'), NEW m \in 1 .. Len(reply'),
                        NEW j \in 1 .. Len(reply'), i < m, m < j, reply'[i][1] = reply'[j][1]
                 PROVE  reply'[m][1] = reply'[i][1]
      OBVIOUS
    <3>1. i + 1 < m + 1 /\ m + 1 < j + 1 /\ {i + 1, m + 1, j + 1} \subseteq 1 .. Len(reply)
      BY <2>2
    <3>2. reply'[i] = reply[i + 1] /\ reply'[m] = reply[m + 1] /\ reply'[j] = reply[j + 1]
      BY <2>2
    <3>3. QED
      BY <3>1, <3>2 DEF ReplyInv
  <2>6. ASSUME NEW i \in 1 .. Len(reply'), lastID[reply'[i][1]] # Newest,
               \A m \in 1 .. i - 1 : reply'[m][1] # reply'[i][1]
        PROVE  Follows(reply'[i][1], reply'[i][2])
    <3>1. reply'[i] = reply[i + 1] /\ i + 1 \in 2 .. Len(reply)
      BY <2>2
    <3>2. ASSUME NEW m \in 2 .. i PROVE reply[m][1] # reply[i + 1][1]
      <4>1. m - 1 \in 1 .. i - 1 /\ m - 1 \in 1 .. Len(reply') /\ (m - 1) + 1 = m
        BY <2>2
      <4>2. reply'[m - 1] = reply[m]
        BY <2>2, <4>1
      <4>3. QED
        BY <2>6, <3>1, <4>1, <4>2
    <3>3. (i + 1) - 1 = i
      OBVIOUS
    <3>4. QED
      BY <2>1, <2>6, <3>1, <3>2, <3>3 DEF ReplyInv
  <2>7. QED
    BY <2>1, <2>3, <2>4, <2>5, <2>6 DEF ReplyInv, Follows
<1>7. CASE SessionLocks \/ SessionUnlocks
  <2>1. UNCHANGED <<streams, reply, lastID>>
    BY <1>7 DEF SessionLocks, SessionUnlocks, reader
  <2>2. From' = From
    BY <1>7 DEF From, SessionLocks, SessionUnlocks, Lock, Free
  <2>3. QED
    BY <1>1, <2>1, <2>2
<1>8. QED
  BY <1>1, <1>2, <1>3, <1>4, <1>5, <1>6, <1>7
  DEF Next, Browser, vars, reader, browser, session, ReadNothing, ReceiveReply, Ask, Offer,
      Subscribe, Write, Leave, Unsubscribe, From

\* The reader broadcasts the entry that follows the last one of its stream, if there was
\* one; what the session manager broadcasts belongs to no stream.
LEMMA SentStep ==
  TypeOK /\ ShapeInv /\ ReplyInv /\ SentInv /\ [Next]_vars => SentInv'
<1> SUFFICES ASSUME TypeOK, ShapeInv, ReplyInv, SentInv, [Next]_vars PROVE SentInv'
  OBVIOUS
<1>e. Events \in Nat
  BY LenProperties DEF ShapeInv, Events
<1>m. \A s \in Stream : trimmed[s] \in Nat /\ trimmed'[s] \in Nat /\ trimmed[s] <= trimmed'[s]
  BY TrimmedGrows
<1>n. \A k \in 1 .. Events : sent[k][2] \in Nat
  BY ElementOfSeq DEF ShapeInv, Events
\* What was skipped stays trimmed.
<1>k. \A s \in Stream : \A j, k \in 1 .. Events :
        Successive(s, j, k) =>
          /\ sent[j][2] < sent[k][2]
          /\ sent[k][2] = sent[j][2] + 1 \/ sent[k][2] - 1 <= trimmed'[s]
  BY <1>m, <1>n DEF SentInv, SkipsOnlyTrimmed
<1>1. CASE UNCHANGED <<lastID, sent>>
  <2>1. Events' = Events
    BY <1>1 DEF Events
  <2>2. \A s \in Stream : \A j, k \in 1 .. Events : Successive(s, j, k)' => Successive(s, j, k)
    BY <1>1 DEF Successive
  <2>3. SkipsOnlyTrimmed'
    BY <1>1, <1>k, <2>1, <2>2 DEF SkipsOnlyTrimmed
  <2>4. QED
    BY <1>1, <2>1, <2>3 DEF SentInv
<1>2. CASE ReaderLocks
  <2> DEFINE r == Head(reply)[1]
             id == Head(reply)[2]
  <2>1. /\ reply # <<>> /\ From = 1 /\ sent' = Append(sent, Head(reply))
        /\ lastID' = [lastID EXCEPT ![r] = id]
    BY <1>2 DEF ReaderLocks, Lock, From, TypeOK, IdRead, Free
  <2>2. /\ Head(reply) \in Stream \X Nat /\ r \in Stream /\ id \in Nat /\ Head(reply) = reply[1]
        /\ 1 \in 1 .. Len(reply)
    BY <2>1, ReplyHead
  <2>3. id > 0 /\ (lastID[r] # Newest => Follows(r, id))
    <3>1. reply[1][2] \in 1 .. tail[reply[1][1]]
      BY <2>2 DEF ReplyInv
    <3>2. lastID[reply[1][1]] # Newest => Follows(reply[1][1], reply[1][2])
      <4>1. 1 \in From .. Len(reply) /\ \A m \in From .. 1 - 1 : reply[m][1] # reply[1][1]
        BY <2>1, <2>2
      <4>2. QED
        BY <4>1 DEF ReplyInv
    <3>3. QED
      BY <2>2, <3>1, <3>2
  <2>4. /\ Events' = Events + 1 /\ \A k \in 1 .. Events : sent'[k] = sent[k]
        /\ sent'[Events + 1] = Head(reply)
    BY <2>1, <2>2, SentGrows
  <2>5. lastID'[r] = id /\ \A s \in Stream : s # r => lastID'[s] = lastID[s]
    BY <2>1, <2>2 DEF ShapeInv
  <2> HIDE DEF r, id
  <2>6. sent'[Events + 1][1] = r /\ sent'[Events + 1][2] = id
    BY <2>4 DEF r, id
  <2>7. ASSUME NEW s \in Stream, lastID'[s] = Newest
        PROVE  \A k \in 1 .. Events' : sent'[k][1] # s
    <3>1. s # r /\ lastID[s] = Newest
      BY <2>3, <2>5, <2>7 DEF Newest
    <3>2. \A k \in 1 .. Events' : k \in 1 .. Events \/ k = Events + 1
      BY <2>4, <1>e
    <3>3. QED
      BY <3>1, <3>2, <2>4, <2>6 DEF SentInv
  <2>8. ASSUME NEW s \in Stream, NEW k \in 1 .. Events', sent'[k][1] = s,
               \A m \in k + 1 .. Events' : sent'[m][1] # s
        PROVE  sent'[k][2] = lastID'[s]
    <3>1. CASE k = Events + 1
      BY <2>5, <2>6, <2>8, <3>1
    <3>2. CASE k # Events + 1
      <4>1. k \in 1 .. Events /\ Events + 1 \in k + 1 .. Events'
        BY <2>4, <3>2, <1>e
      <4>2. s # r
        BY <2>6, <2>8, <4>1
      <4>3. sent[k][1] = s /\ \A m \in k + 1 .. Events : sent[m][1] # s
        <5>1. \A m \in k + 1 .. Events : m \in 1 .. Events /\ m \in k + 1 .. Events'
          BY <2>4, <4>1, <1>e
        <5>2. QED
          BY <2>4, <2>8, <4>1, <5>1
      <4>4. QED
        BY <2>4, <2>5, <4>1, <4>2, <4>3 DEF SentInv
    <3>3. QED
      BY <3>1, <3>2
  <2>9. ASSUME NEW s \in Stream, NEW j \in 1 .. Events', NEW k \in 1 .. Events',
               Successive(s, j, k)'
        PROVE  /\ sent'[j][2] < sent'[k][2]
               /\ sent'[k][2] = sent'[j][2] + 1 \/ sent'[k][2] - 1 <= trimmed'[s]
    <3>1. /\ j < k /\ sent'[j][1] = s /\ sent'[k][1] = s
          /\ \A m \in j + 1 .. k - 1 : sent'[m][1] # s
      BY <2>9 DEF Successive
    <3>2. j \in 1 .. Events
      BY <2>4, <3>1, <1>e
    <3>3. CASE k = Events + 1
      <4>1. s = r /\ sent[j][1] = s /\ sent'[k][2] = id
        BY <2>4, <2>6, <3>1, <3>2, <3>3
      <4>2. \A m \in j + 1 .. Events : sent[m][1] # s
        <5>1. \A m \in j + 1 .. Events : m \in 1 .. Events /\ m \in j + 1 .. k - 1
          BY <3>2, <3>3, <1>e
        <5>2. QED
          BY <2>4, <3>1, <5>1
      <4>3. sent[j][2] = lastID[s] /\ lastID[s] # Newest
        BY <3>2, <4>1, <4>2 DEF SentInv
      <4>4. /\ lastID[s] < id /\ id \in Nat /\ sent'[j][2] = lastID[s] /\ sent'[k][2] = id
            /\ id = lastID[s] + 1 \/ id - 1 <= trimmed[s]
        BY <2>2, <2>3, <2>4, <3>2, <4>1, <4>3 DEF Follows
      <4>5. QED
        BY <4>4, <1>m
    <3>4. CASE k # Events + 1
      <4>1. k \in 1 .. Events
        BY <2>4, <3>4, <1>e
      <4>2. \A m \in j + 1 .. k - 1 : m \in 1 .. Events
        BY <3>2, <4>1, <1>e
      <4>3. Successive(s, j, k)
        BY <2>4, <3>1, <3>2, <4>1, <4>2 DEF Successive
      <4>4. QED
        BY <2>4, <3>2, <4>1, <4>3, <1>k
    <3>5. QED
      BY <3>3, <3>4
  <2>10. QED
    BY <2>7, <2>8, <2>9 DEF SentInv, SkipsOnlyTrimmed
<1>3. CASE SessionLocks
  <2>1. sent' = Append(sent, <<"session", told>>) /\ UNCHANGED lastID
    BY <1>3 DEF SessionLocks, Lock, reader
  <2>2. <<"session", told>> \in (Stream \cup {"session"}) \X Nat
    BY HubAssumption DEF TypeOK
  <2>3. /\ Events' = Events + 1 /\ \A k \in 1 .. Events : sent'[k] = sent[k]
        /\ sent'[Events + 1] = <<"session", told>>
    BY <2>1, <2>2, SentGrows
  <2>4. \A s \in Stream : sent'[Events + 1][1] # s
    BY <2>3 DEF Stream
  <2>5. \A k \in 1 .. Events' : k \in 1 .. Events \/ k = Events + 1
    BY <2>3, <1>e
  <2>6. \A k \in 1 .. Events : k \in 1 .. Events'
    BY <2>3, <1>e
  <2>7. \A s \in Stream : lastID'[s] = Newest => \A k \in 1 .. Events' : sent'[k][1] # s
    BY <2>1, <2>3, <2>4, <2>5, ZenonT(60) DEF SentInv
  <2>8. ASSUME NEW s \in Stream, NEW k \in 1 .. Events', sent'[k][1] = s,
               \A m \in k + 1 .. Events' : sent'[m][1] # s
        PROVE  sent'[k][2] = lastID'[s]
    <3>1. k \in 1 .. Events
      BY <2>4, <2>5, <2>8
    <3>2. \A m \in k + 1 .. Events : m \in 1 .. Events /\ m \in k + 1 .. Events'
      BY <2>3, <3>1, <1>e
    <3>3. sent[k][1] = s /\ \A m \in k + 1 .. Events : sent[m][1] # s
      BY <2>3, <2>8, <3>1, <3>2
    <3>4. sent[k][2] = lastID[s]
      BY <3>1, <3>3 DEF SentInv
    <3>5. QED
      BY <2>1, <2>3, <3>1, <3>4
  <2>9. ASSUME NEW s \in Stream, NEW j \in 1 .. Events', NEW k \in 1 .. Events',
               Successive(s, j, k)'
        PROVE  /\ sent'[j][2] < sent'[k][2]
               /\ sent'[k][2] = sent'[j][2] + 1 \/ sent'[k][2] - 1 <= trimmed'[s]
    <3>1. /\ j < k /\ sent'[j][1] = s /\ sent'[k][1] = s
          /\ \A m \in j + 1 .. k - 1 : sent'[m][1] # s
      BY <2>9 DEF Successive
    <3>2. j \in 1 .. Events /\ k \in 1 .. Events
      BY <2>4, <2>5, <3>1
    <3>3. \A m \in j + 1 .. k - 1 : m \in 1 .. Events
      BY <3>2, <1>e
    <3>4. Successive(s, j, k)
      BY <2>3, <3>1, <3>2, <3>3 DEF Successive
    <3>5. QED
      BY <2>3, <3>2, <3>4, <1>k
  <2>10. QED
    BY <2>7, <2>8, <2>9 DEF SentInv, SkipsOnlyTrimmed
<1>4. QED
  BY <1>1, <1>2, <1>3
  DEF Next, Browser, vars, reader, browser, session, Add, Call, ReadNothing, ReceiveReply,
      ReplyLost, ReaderUnlocks, SessionUnlocks, Ask, Offer, Subscribe, Write, Leave, Unsubscribe

\* A channel is filled and emptied in one order; an event that finds it full is counted, and
\* a browser that comes back starts anew.
LEMMA ChannelStep ==
  TypeOK /\ ShapeInv /\ LockInv /\ pending \subseteq clients
         /\ (\A c \in Client : c \in clients <=> at[c] # "away")
         /\ ChannelInv /\ [Next]_vars => ChannelInv'
<1> DEFINE Of(c) ==
      /\ last[c] + Unfinished(c) <= Events
      /\ \A k \in 1 .. Len(chan[c]) : last[c] < chan[c][k] /\ chan[c][k] + Unfinished(c) <= Events
      /\ \A j, k \in 1 .. Len(chan[c]) : j < k => chan[c][j] < chan[c][k]
      /\ received[c] + Len(chan[c]) + missed[c] + Unfinished(c) = Events - since[c]
<1> SUFFICES ASSUME TypeOK, ShapeInv, LockInv, pending \subseteq clients,
                    \A c \in Client : c \in clients <=> at[c] # "away",
                    ChannelInv, [Next]_vars, NEW c \in clients'
             PROVE  Of(c)'
  BY DEF ChannelInv
<1>o. c \in clients => Of(c)
  BY DEF ChannelInv
<1>t. /\ Events \in Nat /\ clients \subseteq Client
      /\ {since, last, received, missed} \subseteq [Client -> Nat]
      /\ chan \in [Client -> Seq(Nat)]
      /\ \A d \in Client : Unfinished(d) \in {0, 1}
  <2>1. /\ clients \subseteq Client /\ chan \in [Client -> Seq(Nat)]
        /\ sent \in Seq((Stream \cup {"session"}) \X Nat)
        /\ {since, last, received, missed} \subseteq [Client -> 0 .. Events]
    BY DEF TypeOK, ShapeInv
  <2>2. Events \in Nat
    BY <2>1, LenProperties DEF Events
  <2>3. \A d \in Client : Unfinished(d) \in {0, 1}
    BY DEF Unfinished
  <2>4. {since, last, received, missed} \subseteq [Client -> Nat]
    <3>1. \A f \in [Client -> 0 .. Events] : f \in [Client -> Nat]
      BY <2>2
    <3>2. QED
      BY <2>1, <3>1
  <2>5. QED
    BY <2>1, <2>2, <2>3, <2>4
<1>1. ASSUME c \in clients, Unfinished(c)' = Unfinished(c),
             UNCHANGED <<chan, sent, since, last, received, missed>>
      PROVE  Of(c)'
  BY <1>1, <1>o DEF Events
<1>2. ASSUME NEW e \in (Stream \cup {"session"}) \X Nat, sent' = Append(sent, e),
             lock = Free, pending' = clients, UNCHANGED browser
      PROVE  Of(c)'
  <2>1. c \in clients /\ Unfinished(c) = 0 /\ Unfinished(c)' = 1 /\ Events' = Events + 1
    BY <1>2, SentGrows DEF browser, LockInv, Unfinished
  <2>2. UNCHANGED <<chan, since, last, received, missed>>
    BY <1>2 DEF browser
  <2>3. /\ c \in Client /\ last[c] \in Nat /\ received[c] \in Nat /\ missed[c] \in Nat
        /\ since[c] \in Nat /\ chan[c] \in Seq(Nat) /\ Len(chan[c]) \in Nat
        /\ \A k \in 1 .. Len(chan[c]) : chan[c][k] \in Nat
    BY <2>1, <1>t, LenProperties, ElementOfSeq
  <2>4. last[c] + 1 <= Events + 1
    BY <1>o, <1>t, <2>1, <2>3
  <2>5. \A k \in 1 .. Len(chan[c]) : last[c] < chan[c][k] /\ chan[c][k] + 1 <= Events + 1
    <3>1. /\ Events \in Nat
          /\ \A k \in 1 .. Len(chan[c]) : chan[c][k] \in Nat
          /\ \A k \in 1 .. Len(chan[c]) : last[c] < chan[c][k] /\ chan[c][k] + 0 <= Events
      BY <1>o, <1>t, <2>1, <2>3
    <3>2. QED
      BY <3>1
  <2>6. received[c] + Len(chan[c]) + missed[c] + 1 = (Events + 1) - since[c]
    BY <1>o, <1>t, <2>1, <2>3
  <2>7. QED
    BY <1>o, <2>1, <2>2, <2>4, <2>5, <2>6
<1>3. CASE ReaderLocks
  <2>1. Head(reply) \in (Stream \cup {"session"}) \X Nat
    BY <1>3, ReplyHead DEF ReaderLocks, TypeOK
  <2>2. QED
    BY <1>2, <1>3, <2>1 DEF ReaderLocks, Lock
<1>4. CASE SessionLocks
  <2>1. <<"session", told>> \in (Stream \cup {"session"}) \X Nat
    BY HubAssumption DEF TypeOK
  <2>2. QED
    BY <1>2, <1>4, <2>1 DEF SessionLocks, Lock
<1>5. ASSUME NEW d \in Client, Offer(d) PROVE Of(c)'
  <2>1. /\ d \in pending /\ pending' = pending \ {d}
        /\ UNCHANGED <<sent, since, last, received, clients>>
    BY <1>5 DEF Offer
  <2>2. Events' = Events /\ c \in clients /\ c \in Client
    BY <2>1, <1>t DEF Events
  <2>3. CASE c # d
    <3>1. chan'[c] = chan[c] /\ missed'[c] = missed[c] /\ Unfinished(c)' = Unfinished(c)
      BY <1>5, <1>t, <2>1, <2>2, <2>3 DEF Offer, Unfinished
    <3>2. QED
      BY <1>o, <2>1, <2>2, <3>1
  <2>4. CASE c = d
    <3>1. Unfinished(c) = 1 /\ Unfinished(c)' = 0
      BY <2>1, <2>4 DEF Unfinished
    <3>2. /\ last[c] \in Nat /\ received[c] \in Nat /\ missed[c] \in Nat
          /\ since[c] \in Nat /\ chan[c] \in Seq(Nat) /\ Len(chan[c]) \in Nat
          /\ \A k \in 1 .. Len(chan[c]) : chan[c][k] \in Nat
      BY <2>2, <1>t, LenProperties, ElementOfSeq
    <3>3. /\ last[c] + 1 <= Events
          /\ \A k \in 1 .. Len(chan[c]) : last[c] < chan[c][k] /\ chan[c][k] + 1 <= Events
          /\ \A j, k \in 1 .. Len(chan[c]) : j < k => chan[c][j] < chan[c][k]
          /\ received[c] + Len(chan[c]) + missed[c] + 1 = Events - since[c]
      BY <1>o, <2>2, <3>1
    <3>e. Events \in Nat
      BY <1>t
    <3>n. /\ last[c] \in Nat /\ received[c] \in Nat /\ missed[c] \in Nat /\ since[c] \in Nat
          /\ Len(chan[c]) \in Nat
      BY <3>2
    <3>m. /\ received[c] + Len(chan[c]) + missed[c] + 1 = Events - since[c]
          /\ last[c] + 1 <= Events
      BY <3>3
    <3>k. \A k \in 1 .. Len(chan[c]) :
            chan[c][k] \in Nat /\ last[c] < chan[c][k] /\ chan[c][k] + 1 <= Events
      BY <3>2, <3>3
    <3>4. CASE Room(c)
      <4>1. chan'[c] = Append(chan[c], Events) /\ missed' = missed
        BY <1>5, <1>t, <2>2, <2>4, <3>4 DEF Offer, PutLast, Events
      <4>2. /\ Len(chan'[c]) = Len(chan[c]) + 1
            /\ \A k \in 1 .. Len(chan'[c]) :
                 last[c] < chan'[c][k] /\ chan'[c][k] <= Events /\ chan'[c][k] \in Nat
            /\ \A j, k \in 1 .. Len(chan'[c]) : j < k => chan'[c][j] < chan'[c][k]
        BY <3>2, <3>3, <3>e, <4>1, AppendAscends
      <4>3. received[c] + Len(chan'[c]) + missed[c] + 0 = Events - since[c] /\ last[c] + 0 <= Events
        <5>1. Len(chan'[c]) = Len(chan[c]) + 1
          BY <4>2
        <5>2. last[c] + 0 <= Events
          BY <3>n, <3>m, <3>e
        <5>3. received[c] + (Len(chan[c]) + 1) + missed[c] + 0 = Events - since[c]
          BY <3>n, <3>m, <3>e, OneAccounted, SMTT(30)
        <5>4. QED
          BY <5>1, <5>2, <5>3
      <4>4. \A k \in 1 .. Len(chan'[c]) : last[c] < chan'[c][k] /\ chan'[c][k] + 0 <= Events
        BY <4>2
      <4>5. QED
        BY <2>1, <2>2, <3>1, <4>1, <4>2, <4>3, <4>4
    <3>5. CASE ~Room(c)
      <4>1. chan' = chan /\ missed'[c] = missed[c] + 1
        BY <1>5, <1>t, <2>2, <2>4, <3>5 DEF Offer
      <4>2. \A k \in 1 .. Len(chan[c]) : last[c] < chan[c][k] /\ chan[c][k] + 0 <= Events
        BY <3>k, <3>e
      <4>3. /\ received[c] + Len(chan[c]) + (missed[c] + 1) + 0 = Events - since[c]
            /\ last[c] + 0 <= Events
        <5>1. last[c] + 0 <= Events
          BY <3>n, <3>m, <3>e
        <5>2. QED
          BY <3>n, <3>m, <3>e, <5>1, OneAccounted, SMTT(30)
      <4>4. QED
        BY <2>1, <2>2, <3>1, <3>3, <4>1, <4>2, <4>3
    <3>6. QED
      BY <3>4, <3>5
  <2>5. QED
    BY <2>3, <2>4
<1>6. CASE UNCHANGED vars \/ ReaderUnlocks \/ SessionUnlocks
  BY <1>1, <1>6 DEF vars, browser, ReaderUnlocks, SessionUnlocks, Unfinished
<1>7. ASSUME NEW d \in Client, Subscribe(d) PROVE Of(c)'
  <2>1. /\ lock = Free /\ pending = {} /\ UNCHANGED <<pending, sent>> /\ Events' = Events
        /\ chan' = [chan EXCEPT ![d] = <<>>] /\ since' = [since EXCEPT ![d] = Events]
        /\ last' = [last EXCEPT ![d] = 0] /\ received' = [received EXCEPT ![d] = 0]
        /\ missed' = [missed EXCEPT ![d] = 0] /\ clients' = clients \cup {d}
    BY <1>7 DEF Subscribe, LockInv, Events
  <2>2. Unfinished(c) = 0 /\ Unfinished(c)' = 0
    BY <2>1 DEF Unfinished
  <2>3. CASE c # d
    <3>1. c \in clients /\ c \in Client
      BY <2>1, <2>3, <1>t
    <3>2. /\ chan'[c] = chan[c] /\ since'[c] = since[c] /\ last'[c] = last[c]
          /\ received'[c] = received[c] /\ missed'[c] = missed[c]
      BY <2>1, <2>3, <3>1, <1>t
    <3>3. QED
      BY <1>o, <2>1, <2>2, <3>1, <3>2
  <2>4. CASE c = d
    <3>1. /\ chan'[c] = <<>> /\ Len(chan'[c]) = 0 /\ since'[c] = Events /\ last'[c] = 0
          /\ received'[c] = 0 /\ missed'[c] = 0
      BY <2>1, <2>4, <1>t
    <3>2. QED
      BY <2>1, <2>2, <3>1, <1>t
  <2>5. QED
    BY <2>3, <2>4
<1>8. ASSUME NEW d \in Client, Write(d) PROVE Of(c)'
  <2>1. /\ chan[d] # <<>> /\ UNCHANGED <<clients, pending, sent, since, missed>>
        /\ Events' = Events /\ Unfinished(c)' = Unfinished(c)
        /\ chan' = [chan EXCEPT ![d] = Tail(chan[d])]
        /\ last' = [last EXCEPT ![d] = Head(chan[d])]
        /\ received' = [received EXCEPT ![d] = received[d] + 1]
    BY <1>8 DEF Write, Events, Unfinished
  <2>2. c \in clients /\ c \in Client
    BY <2>1, <1>t
  <2>3. CASE c # d
    <3>1. chan'[c] = chan[c] /\ last'[c] = last[c] /\ received'[c] = received[c]
      BY <2>1, <2>2, <2>3, <1>t
    <3>2. QED
      BY <1>o, <2>1, <2>2, <3>1
  <2>4. CASE c = d
    <3>1. /\ last[c] \in Nat /\ received[c] \in Nat /\ missed[c] \in Nat
          /\ since[c] \in Nat /\ chan[c] \in Seq(Nat) /\ Len(chan[c]) \in Nat
          /\ \A k \in 1 .. Len(chan[c]) : chan[c][k] \in Nat
      BY <2>2, <1>t, LenProperties, ElementOfSeq
    <3>2. /\ chan'[c] = Tail(chan[c]) /\ last'[c] = Head(chan[c]) /\ received'[c] = received[c] + 1
      BY <2>1, <2>2, <2>4, <1>t
    <3>3. /\ Unfinished(c) \in Nat /\ last[c] + Unfinished(c) <= Events
          /\ \A k \in 1 .. Len(chan[c]) : last[c] < chan[c][k] /\ chan[c][k] + Unfinished(c) <= Events
          /\ \A j, k \in 1 .. Len(chan[c]) : j < k => chan[c][j] < chan[c][k]
          /\ received[c] + Len(chan[c]) + missed[c] + Unfinished(c) = Events - since[c]
      <4>1. Unfinished(c) \in {0, 1}
        BY <1>t, <2>2
      <4>2. Of(c)
        BY <1>o, <2>2
      <4> HIDE DEF Of
      <4>3. QED
        BY <4>1, <4>2 DEF Of
    <3>4. /\ Len(chan[c]) \in Nat \ {0} /\ Len(chan'[c]) = Len(chan[c]) - 1
          /\ last'[c] = chan[c][1] /\ last'[c] \in Nat
          /\ \A k \in 1 .. Len(chan'[c]) :
               k + 1 \in 1 .. Len(chan[c]) /\ chan'[c][k] = chan[c][k + 1] /\ last'[c] < chan'[c][k]
          /\ \A j, k \in 1 .. Len(chan'[c]) : j < k => chan'[c][j] < chan'[c][k]
      BY <2>1, <2>4, <3>1, <3>2, <3>3, TailAscends, ZenonT(60)
    <3>5. \A k \in 1 .. Len(chan'[c]) :
            last'[c] < chan'[c][k] /\ chan'[c][k] + Unfinished(c) <= Events
      BY <3>3, <3>4
    <3>6. received'[c] + Len(chan'[c]) + missed[c] + Unfinished(c) = Events - since[c]
      BY <3>1, <3>2, <3>3, <3>4
    <3>7. last'[c] + Unfinished(c) <= Events
      BY <3>3, <3>4
    <3>8. QED
      BY <2>1, <3>4, <3>5, <3>6, <3>7
  <2>5. QED
    BY <2>3, <2>4
<1>9. ASSUME NEW d \in Client, Unsubscribe(d) PROVE Of(c)'
  <2>1. /\ c # d /\ c \in clients /\ c \in Client /\ UNCHANGED <<sent, pending, since, last, received, missed>>
        /\ chan' = [chan EXCEPT ![d] = <<>>]
    BY <1>9, <1>t DEF Unsubscribe
  <2>2. chan'[c] = chan[c] /\ Unfinished(c)' = Unfinished(c) /\ Events' = Events
    BY <2>1, <1>t DEF Unfinished, Events
  <2>3. QED
    BY <1>o, <2>1, <2>2
<1>10. QED
  BY <1>1, <1>3, <1>4, <1>5, <1>6, <1>7, <1>8, <1>9
  DEF Next, Browser, reader, browser, session, Add, Call, ReadNothing, ReceiveReply,
      ReplyLost, Ask, Leave, Unfinished

\* What the sequences and functions are is kept: streams and broadcasts only grow, and what is
\* put in a channel is the position of a broadcast.
LEMMA ShapeStep == TypeOK /\ ShapeInv /\ [Next]_vars => ShapeInv'
<1> SUFFICES ASSUME TypeOK, ShapeInv, [Next]_vars PROVE ShapeInv'
  OBVIOUS
<1>e. Events \in Nat
  BY LenProperties DEF ShapeInv, Events
<1>1. CASE UNCHANGED <<streams, lastID, base, chan, sent>>
  BY <1>1 DEF ShapeInv
<1>2. ASSUME NEW s \in Stream, Add(s) PROVE ShapeInv'
  <2>1. trimmed' \in [Stream -> Nat] /\ tail' \in [Stream -> Nat]
    <3>1. PICK t \in TrimPoints(s) : trimmed' = [trimmed EXCEPT ![s] = t]
      BY <1>2 DEF Add
    <3>2. t \in Nat
      BY DEF TrimPoints, ShapeInv
    <3>3. QED
      BY <1>2, <3>1, <3>2 DEF Add, ShapeInv
  <2>2. QED
    BY <1>2, <2>1 DEF Add, browser, ShapeInv
<1>3. CASE Call
  BY <1>3, CallReply DEF Call, browser, ShapeInv
<1>4. CASE ReaderLocks
  <2>1. /\ Head(reply) \in Stream \X Nat /\ sent' = Append(sent, Head(reply))
        /\ lastID' = [lastID EXCEPT ![Head(reply)[1]] = Head(reply)[2]]
        /\ UNCHANGED <<streams, base, chan>>
    BY <1>4, ReplyHead DEF ReaderLocks, Lock, TypeOK, IdRead, browser
  <2>2. sent' \in Seq((Stream \cup {"session"}) \X Nat)
    BY <2>1, SentGrows
  <2>3. lastID' \in [Stream -> Nat]
    BY <2>1 DEF ShapeInv
  <2>4. QED
    BY <2>1, <2>2, <2>3 DEF ShapeInv
<1>5. CASE SessionLocks
  <2>1. <<"session", told>> \in (Stream \cup {"session"}) \X Nat
    BY HubAssumption DEF TypeOK
  <2>2. sent' \in Seq((Stream \cup {"session"}) \X Nat)
    BY <1>5, <2>1, SentGrows DEF SessionLocks, Lock
  <2>3. QED
    BY <1>5, <2>2 DEF SessionLocks, ShapeInv, reader, browser
<1>6. ASSUME NEW c \in Client, Offer(c) PROVE ShapeInv'
  <2>1. Append(chan[c], Events) \in Seq(Nat)
    BY <1>e, AppendProperties DEF ShapeInv
  <2>2. chan' \in [Client -> Seq(Nat)]
    BY <1>6, <2>1 DEF Offer, PutLast, Events, ShapeInv
  <2>3. QED
    BY <1>6, <2>2 DEF Offer, reader, ShapeInv
<1>7. ASSUME NEW c \in Client, Subscribe(c) \/ Unsubscribe(c) PROVE ShapeInv'
  <2>1. chan' = [chan EXCEPT ![c] = <<>>] /\ UNCHANGED <<streams, lastID, base, sent>>
    BY <1>7 DEF Subscribe, Unsubscribe, reader
  <2>2. <<>> \in Seq(Nat)
    OBVIOUS
  <2>3. chan' \in [Client -> Seq(Nat)]
    BY <2>1, <2>2 DEF ShapeInv
  <2>4. QED
    BY <2>1, <2>3 DEF ShapeInv
<1>8. ASSUME NEW c \in Client, Write(c) PROVE ShapeInv'
  <2>1. Tail(chan[c]) \in Seq(Nat)
    BY <1>8, HeadTailProperties DEF Write, ShapeInv
  <2>2. QED
    BY <1>8, <2>1 DEF Write, reader, ShapeInv
<1>9. QED
  BY <1>1, <1>2, <1>3, <1>4, <1>5, <1>6, <1>7, <1>8
  DEF Next, Browser, vars, reader, browser, session, ReadNothing, ReceiveReply, ReplyLost,
      ReaderUnlocks, SessionUnlocks, Ask, Leave

\* The part of TypeOK about Redis and readStreams.
ReaderTypes ==
  /\ \A s \in Stream :
       /\ tail[s] \in 0 .. MaxEntry[s] /\ trimmed[s] \in 0 .. tail[s]
       /\ lastID[s] \in 0 .. tail[s] /\ base[s] \in 0 .. tail[s]
  /\ pc \in {"call", "blocked", "reply", "handle"}
  /\ reply \in Seq(Stream \X Nat) /\ (reply = <<>> <=> pc \in {"call", "blocked"})

\* A reply is there exactly when it is under way or handled, and no id is ahead of its stream.
LEMMA ReaderTypesStep ==
  TypeOK /\ ShapeInv /\ LockInv /\ ReplyInv /\ [Next]_vars => ReaderTypes'
<1> SUFFICES ASSUME TypeOK, ShapeInv, LockInv, ReplyInv, [Next]_vars PROVE ReaderTypes'
  OBVIOUS
<1>a. MaxEntry \in [Stream -> Nat]
  BY HubAssumption
<1>r. ReaderTypes
  BY DEF TypeOK, ReaderTypes
<1>1. CASE UNCHANGED <<streams, reader>>
  BY <1>1, <1>r DEF reader, ReaderTypes
<1>2. ASSUME NEW s \in Stream, Add(s) PROVE ReaderTypes'
  <2>1. \A r \in Stream : tail'[r] \in 0 .. MaxEntry[r] /\ tail[r] <= tail'[r]
    <3>1. tail' = [tail EXCEPT ![s] = tail[s] + 1] /\ tail[s] < MaxEntry[s]
      BY <1>2 DEF Add
    <3>2. tail \in [Stream -> Nat] /\ \A r \in Stream : tail[r] \in 0 .. MaxEntry[r]
      BY <1>r DEF ShapeInv, ReaderTypes
    <3>3. \A r \in Stream : tail'[r] = IF r = s THEN tail[r] + 1 ELSE tail[r]
      BY <3>1, <3>2
    <3>4. QED
      BY <1>a, <3>1, <3>2, <3>3
  <2>t. \A r \in Stream : trimmed'[r] \in 0 .. tail'[r]
    <3>1. \A r \in Stream : tail'[r] \in Nat
      BY <2>1, <1>a
    <3>2. QED
      BY <3>1, TrimmedGrows
  <2>2. \A r \in Stream : lastID'[r] \in 0 .. tail'[r] /\ base'[r] \in 0 .. tail'[r]
    BY <1>2, <2>1, <1>a, <1>r DEF Add, ReaderTypes
  <2>3. /\ reply' \in Seq(Stream \X Nat) /\ pc' \in {"call", "blocked", "reply", "handle"}
        /\ reply' = <<>> <=> pc' \in {"call", "blocked"}
    <3>1. CASE pc = "blocked"
      <4>1. pc' = "reply" /\ reply' = <<<<s, tail[s] + 1>>>>
        BY <1>2, <3>1 DEF Add
      <4>2. <<s, tail[s] + 1>> \in Stream \X Nat
        BY DEF ShapeInv
      <4>3. reply' \in Seq(Stream \X Nat) /\ reply' # <<>>
        BY <4>1, <4>2
      <4>4. QED
        BY <4>1, <4>3
    <3>2. CASE pc # "blocked"
      BY <1>2, <1>r, <3>2 DEF Add, ReaderTypes
    <3>3. QED
      BY <3>1, <3>2
  <2>4. QED
    BY <2>1, <2>2, <2>3, <2>t DEF ReaderTypes
<1>3. CASE Call
  <2>1. /\ base' \in [Stream -> Nat] /\ \A s \in Stream : base'[s] <= tail[s]
        /\ reply' \in Seq(Stream \X Nat)
    BY <1>3, CallReply
  <2>2. /\ pc' = IF reply' = <<>> THEN "blocked" ELSE "reply"
        /\ UNCHANGED <<streams, lastID>>
    BY <1>3 DEF Call
  <2>3. \A s \in Stream : base'[s] \in 0 .. tail[s]
    BY <2>1 DEF ShapeInv
  <2>4. QED
    BY <2>1, <2>2, <2>3, <1>r DEF ReaderTypes
<1>4. CASE ReadNothing \/ ReceiveReply \/ ReplyLost
  <2>1. /\ UNCHANGED <<streams, lastID, base>> /\ pc' \in {"call", "handle"}
        /\ \/ reply' = reply /\ pc = "blocked" /\ pc' = "call"
           \/ reply' = reply /\ pc = "reply" /\ pc' = "handle"
           \/ reply' = <<>> /\ pc' = "call"
    BY <1>4 DEF ReadNothing, ReceiveReply, ReplyLost
  <2>2. /\ reply' \in Seq(Stream \X Nat) /\ (reply' = <<>> <=> pc' \in {"call", "blocked"})
    <3>1. CASE reply' = reply
      BY <2>1, <1>r, <3>1 DEF ReaderTypes
    <3>2. CASE reply' = <<>> /\ pc' = "call"
      <4>1. <<>> \in Seq(Stream \X Nat)
        OBVIOUS
      <4>2. QED
        BY <3>2, <4>1
    <3>3. QED
      BY <2>1, <3>1, <3>2
  <2>3. QED
    BY <2>1, <2>2, <1>r DEF ReaderTypes
<1>5. CASE ReaderLocks
  <2>1. /\ reply # <<>> /\ UNCHANGED <<streams, pc, base, reply>>
        /\ lastID' = [lastID EXCEPT ![Head(reply)[1]] = Head(reply)[2]]
    BY <1>5 DEF ReaderLocks, TypeOK, IdRead
  <2>2. Head(reply)[1] \in Stream /\ Head(reply)[2] \in 1 .. tail[Head(reply)[1]]
    <3>1. Head(reply) = reply[1] /\ 1 \in 1 .. Len(reply) /\ Head(reply) \in Stream \X Nat
      BY <2>1, ReplyHead
    <3>2. reply[1][2] \in 1 .. tail[reply[1][1]]
      BY <3>1 DEF ReplyInv
    <3>3. QED
      BY <3>1, <3>2
  <2>3. ASSUME NEW s \in Stream PROVE lastID'[s] \in 0 .. tail[s]
    <3>1. lastID[s] \in 0 .. tail[s] /\ tail[s] \in Nat /\ lastID \in [Stream -> Nat]
      BY <1>r DEF ShapeInv, ReaderTypes
    <3>2. CASE s = Head(reply)[1]
      BY <2>1, <2>2, <3>1, <3>2
    <3>3. CASE s # Head(reply)[1]
      BY <2>1, <2>2, <3>1, <3>3
    <3>4. QED
      BY <3>2, <3>3
  <2>4. QED
    BY <2>1, <2>3, <1>r DEF ReaderTypes
<1>6. CASE ReaderUnlocks
  <2>1. /\ reply # <<>> /\ reply' = Tail(reply) /\ UNCHANGED <<streams, lastID, base>>
        /\ pc' = IF Len(reply) > 1 THEN "handle" ELSE "call"
    BY <1>6 DEF ReaderUnlocks, TypeOK, LockInv
  <2>2. /\ Len(reply) \in Nat \ {0} /\ reply' \in Seq(Stream \X Nat)
        /\ Len(reply') = Len(reply) - 1
    BY <2>1, ReplyHead
  <2>3. reply' = <<>> <=> ~(Len(reply) > 1)
    <3>1. reply' = <<>> <=> Len(reply') = 0
      BY <2>2, EmptySeq
    <3>2. QED
      BY <2>2, <3>1
  <2>4. QED
    BY <2>1, <2>2, <2>3, <1>r DEF ReaderTypes
<1>7. QED
  BY <1>1, <1>2, <1>3, <1>4, <1>5, <1>6
  DEF Next, Browser, vars, SessionLocks, SessionUnlocks, Ask, Offer, Subscribe, Write, Leave,
      Unsubscribe

\* The part of TypeOK about hub.mu, the session manager and the connections.
HubTypes ==
  /\ told \in 0 .. MaxSession /\ asking \in BOOLEAN
  /\ lock \in {Free} \cup Broadcaster /\ pending \subseteq Client /\ clients \subseteq Client
  /\ visits \in [Client -> 0 .. MaxVisit]
  /\ at \in [Client -> {"away", "listen", "leave"}]

\* hub.mu is held by a broadcaster or free, and only known browsers come and go.
LEMMA HubTypesStep == TypeOK /\ [Next]_vars => HubTypes'
<1> SUFFICES ASSUME TypeOK, [Next]_vars PROVE HubTypes'
  OBVIOUS
<1>a. MaxSession \in Nat /\ MaxVisit \in Nat
  BY HubAssumption
<1>h. HubTypes
  BY DEF TypeOK, HubTypes
<1>1. CASE UNCHANGED <<session, lock, pending, clients, at, visits>>
  BY <1>1, <1>h DEF session, HubTypes
<1>2. CASE Ask
  BY <1>2, <1>a, <1>h DEF Ask, browser, HubTypes
<1>3. CASE ReaderLocks \/ SessionLocks
  BY <1>3, <1>h DEF ReaderLocks, SessionLocks, Lock, session, browser, Broadcaster, HubTypes
<1>4. CASE ReaderUnlocks \/ SessionUnlocks
  BY <1>4, <1>h DEF ReaderUnlocks, SessionUnlocks, session, browser, HubTypes
<1>5. ASSUME NEW c \in Client, Offer(c) \/ Write(c) \/ Leave(c) \/ Unsubscribe(c)
      PROVE  HubTypes'
  BY <1>5, <1>h DEF Offer, Write, Leave, Unsubscribe, session, HubTypes
<1>6. ASSUME NEW c \in Client, Subscribe(c) PROVE HubTypes'
  <2>1. visits' \in [Client -> 0 .. MaxVisit]
    BY <1>6, <1>a, <1>h DEF Subscribe, HubTypes
  <2>2. QED
    BY <1>6, <1>h, <2>1 DEF Subscribe, session, HubTypes
<1>7. QED
  BY <1>1, <1>2, <1>3, <1>4, <1>5, <1>6
  DEF Next, Browser, vars, browser, Add, Call, ReadNothing, ReceiveReply, ReplyLost

\* The part of TypeOK about the channels and what is counted for each browser.
ChannelTypes ==
  /\ \A c \in Client : chan[c] \in Seq(1 .. Events) /\ Len(chan[c]) <= ChanSize
  /\ {since, last, received, missed} \subseteq [Client -> 0 .. Events]

\* A channel is only filled while it has room, and nobody gets or misses more than was broadcast.
LEMMA ChannelTypesStep ==
  TypeOK /\ ShapeInv /\ ChannelInv /\ pending \subseteq clients
         /\ (\A c \in Client : c \in clients <=> at[c] # "away") /\ [Next]_vars => ChannelTypes'
<1> SUFFICES ASSUME TypeOK, ShapeInv, ChannelInv, pending \subseteq clients,
                    \A c \in Client : c \in clients <=> at[c] # "away", [Next]_vars
             PROVE  ChannelTypes'
  OBVIOUS
<1>e. Events \in Nat
  BY LenProperties DEF ShapeInv, Events
<1>a. ChanSize \in Nat \ {0}
  BY HubAssumption
<1>c. ChannelTypes
  BY DEF TypeOK, ChannelTypes
<1>n. \A c \in Client : /\ since[c] \in Nat /\ last[c] \in Nat /\ received[c] \in Nat
                        /\ missed[c] \in Nat /\ Len(chan[c]) \in Nat
  BY <1>c, <1>e, LenProperties DEF ChannelTypes
<1>1. CASE UNCHANGED <<sent, chan, since, last, received, missed>>
  BY <1>1, <1>c DEF ChannelTypes, Events
<1>2. ASSUME NEW e \in (Stream \cup {"session"}) \X Nat, sent' = Append(sent, e), UNCHANGED browser
      PROVE  ChannelTypes'
  <2>1. Events' = Events + 1
    BY <1>2, SentGrows
  <2>2. 1 .. Events \subseteq 1 .. Events' /\ 0 .. Events \subseteq 0 .. Events'
    BY <1>e, <2>1
  <2>3. \A c \in Client : chan[c] \in Seq(1 .. Events')
    <3>1. ASSUME NEW c \in Client PROVE chan[c] \in Seq(1 .. Events')
      <4>1. chan[c] \in Seq(1 .. Events)
        BY <1>c DEF ChannelTypes
      <4>2. Len(chan[c]) \in Nat /\ chan[c] \in [1 .. Len(chan[c]) -> 1 .. Events]
        BY <4>1, LenProperties
      <4>3. chan[c] \in [1 .. Len(chan[c]) -> 1 .. Events']
        BY <2>2, <4>2
      <4>4. QED
        BY <4>2, <4>3, SeqDef, ZenonT(60)
    <3>2. QED
      BY <3>1
  <2>4. {since, last, received, missed} \subseteq [Client -> 0 .. Events']
    BY <2>2, <1>c DEF ChannelTypes
  <2>5. QED
    BY <1>2, <2>3, <2>4, <1>c DEF ChannelTypes, browser
<1>3. CASE ReaderLocks
  <2>1. Head(reply) \in (Stream \cup {"session"}) \X Nat
    BY <1>3, ReplyHead DEF ReaderLocks, TypeOK
  <2>2. QED
    BY <1>2, <1>3, <2>1 DEF ReaderLocks, Lock
<1>4. CASE SessionLocks
  <2>1. <<"session", told>> \in (Stream \cup {"session"}) \X Nat
    BY HubAssumption DEF TypeOK
  <2>2. QED
    BY <1>2, <1>4, <2>1 DEF SessionLocks, Lock
<1>5. ASSUME NEW c \in Client, Offer(c) PROVE ChannelTypes'
  <2>1. /\ c \in clients /\ Unfinished(c) = 1 /\ Events' = Events
        /\ UNCHANGED <<since, last, received>>
    BY <1>5 DEF Offer, Unfinished, Events
  <2>2. /\ last[c] + 1 <= Events
        /\ received[c] + Len(chan[c]) + missed[c] + 1 = Events - since[c]
    BY <2>1 DEF ChannelInv
  <2>3. CASE Room(c)
    <3>1. chan' = [chan EXCEPT ![c] = Append(chan[c], Events)] /\ missed' = missed
      BY <1>5, <2>3 DEF Offer, PutLast, Events
    <3>2. Events \in 1 .. Events
      BY <1>e, <1>n, <2>2, SMTT(30)
    <3>3. /\ Append(chan[c], Events) \in Seq(1 .. Events)
          /\ Len(Append(chan[c], Events)) = Len(chan[c]) + 1
      BY <3>2, <1>c, AppendProperties DEF ChannelTypes
    <3>4. Len(chan[c]) + 1 <= ChanSize
      BY <2>3, <1>n, <1>a DEF Room
    <3>5. \A d \in Client : chan'[d] \in Seq(1 .. Events) /\ Len(chan'[d]) <= ChanSize
      BY <3>1, <3>3, <3>4, <1>c DEF ChannelTypes, ShapeInv
    <3>6. QED
      BY <2>1, <3>1, <3>5, <1>c DEF ChannelTypes
  <2>4. CASE ~Room(c)
    <3>1. missed' = [missed EXCEPT ![c] = missed[c] + 1] /\ chan' = chan
      BY <1>5, <2>4 DEF Offer
    <3>2. missed[c] + 1 \in 0 .. Events
      <4>1. /\ received[c] \in Nat /\ missed[c] \in Nat /\ since[c] \in Nat
            /\ Len(chan[c]) \in Nat
        BY <1>n
      <4>2. QED
        BY <4>1, <2>2, <1>e, SMTT(30)
    <3>3. missed' \in [Client -> 0 .. Events]
      BY <3>1, <3>2, <1>c DEF ChannelTypes
    <3>4. QED
      BY <2>1, <3>1, <3>3, <1>c DEF ChannelTypes
  <2>5. QED
    BY <2>3, <2>4
<1>6. ASSUME NEW c \in Client, Subscribe(c) PROVE ChannelTypes'
  <2>1. /\ chan' = [chan EXCEPT ![c] = <<>>] /\ since' = [since EXCEPT ![c] = Events]
        /\ last' = [last EXCEPT ![c] = 0] /\ received' = [received EXCEPT ![c] = 0]
        /\ missed' = [missed EXCEPT ![c] = 0] /\ Events' = Events
    BY <1>6 DEF Subscribe, Events
  <2>2. Events \in 0 .. Events /\ 0 \in 0 .. Events
    BY <1>e
  <2>3. {since', last', received', missed'} \subseteq [Client -> 0 .. Events]
    BY <2>1, <2>2, <1>c DEF ChannelTypes
  <2>4. <<>> \in Seq(1 .. Events) /\ Len(<<>>) <= ChanSize
    BY <1>a
  <2>5. \A d \in Client : chan'[d] \in Seq(1 .. Events) /\ Len(chan'[d]) <= ChanSize
    BY <2>1, <2>4, <1>c DEF ChannelTypes, ShapeInv
  <2>6. QED
    BY <2>1, <2>3, <2>5 DEF ChannelTypes
<1>7. ASSUME NEW c \in Client, Unsubscribe(c) PROVE ChannelTypes'
  <2>1. /\ chan' = [chan EXCEPT ![c] = <<>>] /\ UNCHANGED <<since, last, received, missed>>
        /\ Events' = Events
    BY <1>7 DEF Unsubscribe, Events
  <2>2. <<>> \in Seq(1 .. Events) /\ Len(<<>>) <= ChanSize
    BY <1>a
  <2>3. \A d \in Client : chan'[d] \in Seq(1 .. Events) /\ Len(chan'[d]) <= ChanSize
    BY <2>1, <2>2, <1>c DEF ChannelTypes, ShapeInv
  <2>4. QED
    BY <2>1, <2>3, <1>c DEF ChannelTypes
<1>8. ASSUME NEW c \in Client, Write(c) PROVE ChannelTypes'
  <2>1. /\ chan[c] # <<>> /\ chan' = [chan EXCEPT ![c] = Tail(chan[c])]
        /\ last' = [last EXCEPT ![c] = Head(chan[c])]
        /\ received' = [received EXCEPT ![c] = received[c] + 1]
        /\ UNCHANGED <<since, missed>> /\ Events' = Events /\ c \in clients
    BY <1>8 DEF Write, Events
  <2>2. chan[c] \in Seq(1 .. Events) /\ Len(chan[c]) <= ChanSize
    BY <1>c DEF ChannelTypes
  <2>3. /\ Head(chan[c]) \in 1 .. Events /\ Tail(chan[c]) \in Seq(1 .. Events)
        /\ Len(Tail(chan[c])) = Len(chan[c]) - 1 /\ Len(chan[c]) \in Nat \ {0}
    BY <2>1, <2>2, HeadTailProperties, EmptySeq
  <2>4. received[c] + 1 \in 0 .. Events
    <3>1. /\ received[c] \in Nat /\ missed[c] \in Nat /\ since[c] \in Nat
          /\ Unfinished(c) \in {0, 1}
      BY <1>n DEF Unfinished
    <3>2. received[c] + Len(chan[c]) + missed[c] + Unfinished(c) = Events - since[c]
      BY <2>1 DEF ChannelInv
    <3>3. Len(chan[c]) \in Nat \ {0}
      BY <2>3
    <3>4. QED
      BY <3>1, <3>2, <3>3, <1>e, RoomForOneMore
  <2>5. received' \in [Client -> 0 .. Events]
    BY <2>1, <2>4, <1>c DEF ChannelTypes
  <2>6. last' \in [Client -> 0 .. Events]
    <3>1. Head(chan[c]) \in 0 .. Events
      BY <2>3
    <3>2. QED
      BY <2>1, <3>1, <1>c DEF ChannelTypes
  <2>7. Len(Tail(chan[c])) <= ChanSize
    BY <2>2, <2>3, <1>a
  <2>8. \A d \in Client : chan'[d] \in Seq(1 .. Events) /\ Len(chan'[d]) <= ChanSize
    BY <2>1, <2>3, <2>7, <1>c DEF ChannelTypes, ShapeInv
  <2>9. QED
    BY <2>1, <2>5, <2>6, <2>8, <1>c DEF ChannelTypes
<1>9. QED
  BY <1>1, <1>3, <1>4, <1>5, <1>6, <1>7, <1>8
  DEF Next, Browser, vars, reader, browser, session, Add, Call, ReadNothing, ReceiveReply,
      ReplyLost, ReaderUnlocks, SessionUnlocks, Ask, Leave

(***************************************************************************)
(* The theorems.                                                           *)
(***************************************************************************)

\* Every state of the hub satisfies the inductive invariant.
THEOREM Invariance == Spec => []IInv
<1>1. IInv /\ [Next]_vars => IInv'
  <2> SUFFICES ASSUME IInv, [Next]_vars PROVE IInv'
    OBVIOUS
  <2> USE DEF IInv
  <2>1. TypeOK /\ pending \subseteq clients /\ \A c \in Client : c \in clients <=> at[c] # "away"
    BY DEF OffersReachOpenChannels
  <2>2. TypeOK'
    <3>1. ReaderTypes' /\ HubTypes' /\ ChannelTypes'
      BY <2>1, ReaderTypesStep, HubTypesStep, ChannelTypesStep
    <3>2. QED
      BY <3>1 DEF ReaderTypes, HubTypes, ChannelTypes, TypeOK
  <2>3. OffersReachOpenChannels'
    <3>1. clients \subseteq Client /\ at \in [Client -> {"away", "listen", "leave"}]
      BY <2>1 DEF TypeOK
    <3>2. pending' \subseteq clients' /\ \A c \in Client : c \in clients' <=> at'[c] # "away"
      BY <2>1, <3>1, SubscribersStep
    <3>3. QED
      BY <2>2, <3>2 DEF OffersReachOpenChannels
  <2>4. QED
    BY <2>1, <2>3, ShapeStep, LockStep, BlockedStep, ReplyStep, SentStep, ChannelStep
<1>2. QED
  BY <1>1, InitIInv, PTL DEF Spec

\* No event is offered to a channel that was closed, which would be a panic: serveSSE removes
\* and closes its channel only while no broadcast has yet to visit it.
THEOREM OffersReachOpenChannelsHolds == Spec => []OffersReachOpenChannels
<1>1. IInv => OffersReachOpenChannels
  BY DEF IInv
<1>2. QED
  BY <1>1, Invariance, PTL

\* A browser is written the events in the order of the broadcasts, none twice, and every event
\* since its subscription was written, is in its channel, or was dropped for it.
THEOREM EventsAccountedForHolds == Spec => []EventsAccountedFor
<1>1. IInv => EventsAccountedFor
  <2> SUFFICES ASSUME IInv, NEW c \in clients
               PROVE  LET held == <<last[c]>> \o chan[c]
                      IN  /\ \A k \in 1 .. Len(held) - 1 : held[k] < held[k + 1]
                          /\ received[c] + Len(chan[c]) + missed[c] + Unfinished(c)
                               = Events - since[c]
    BY DEF EventsAccountedFor
  <2> DEFINE held == <<last[c]>> \o chan[c]
  <2>1. /\ TypeOK /\ c \in Client
        /\ \A k \in 1 .. Len(chan[c]) : last[c] < chan[c][k]
        /\ \A j, k \in 1 .. Len(chan[c]) : j < k => chan[c][j] < chan[c][k]
        /\ received[c] + Len(chan[c]) + missed[c] + Unfinished(c) = Events - since[c]
    BY DEF IInv, ChannelInv, OffersReachOpenChannels, TypeOK
  <2>2. Events \in Nat
    BY LenProperties DEF IInv, ShapeInv, Events
  <2>3. last[c] \in Nat /\ chan[c] \in Seq(Nat) /\ Len(chan[c]) \in Nat
    BY <2>1, <2>2, LenProperties DEF IInv, ShapeInv, TypeOK
  <2>4. <<last[c]>> \in Seq(Nat) /\ Len(<<last[c]>>) = 1 /\ <<last[c]>>[1] = last[c]
    BY <2>3
  <2>5. /\ Len(held) = Len(chan[c]) + 1 /\ held[1] = last[c]
        /\ \A k \in 2 .. Len(held) : held[k] = chan[c][k - 1]
    BY <2>3, <2>4, ConcatProperties
  <2> HIDE DEF held
  <2>6. ASSUME NEW k \in 1 .. Len(held) - 1 PROVE held[k] < held[k + 1]
    <3>1. k \in 1 .. Len(chan[c]) /\ held[k + 1] = chan[c][k]
      BY <2>3, <2>5
    <3>2. CASE k = 1
      BY <2>1, <2>5, <3>1, <3>2
    <3>3. CASE k # 1
      <4>1. k - 1 \in 1 .. Len(chan[c]) /\ k - 1 < k
        BY <2>3, <3>1, <3>3
      <4>2. held[k] = chan[c][k - 1]
        BY <2>5, <3>3
      <4>3. QED
        BY <2>1, <3>1, <4>1, <4>2
    <3>4. QED
      BY <3>2, <3>3
  <2>7. QED
    BY <2>1, <2>6 DEF held
<1>2. QED
  BY <1>1, Invariance, PTL

\* The reader's ids make up for lost replies: once the first entry of a stream has been
\* broadcast, each broadcast of the stream is of the entry after the one before, or everything
\* between the two was trimmed by Redis before the reader came to it.
THEOREM SkipsOnlyTrimmedHolds == Spec => []SkipsOnlyTrimmed
<1>1. IInv => SkipsOnlyTrimmed
  BY DEF IInv, SentInv
<1>2. QED
  BY <1>1, Invariance, PTL
=============================================================================
