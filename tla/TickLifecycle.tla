--------------------------- MODULE TickLifecycle ---------------------------
(***************************************************************************)
(* What the detector group promises about one tick, whatever the number of *)
(* workers and whatever fails: the tick is handed out at most once, the    *)
(* detectors see it at most once and only after it was handed out, and it  *)
(* is settled (acknowledged) only after they did.  A tick may stay in any  *)
(* phase for ever: the contract is at-most-once, not at-least-once.        *)
(***************************************************************************)
EXTENDS Naturals

CONSTANT Tick

Phases == {"unpublished", "queued", "evicted", "claimed", "handled", "settled"}

VARIABLES
  phase,  \* where each tick is in its life
  seen    \* how often the detectors were given each tick

Init ==
  /\ phase = [i \in Tick |-> "unpublished"]
  /\ seen = [i \in Tick |-> 0]

\* Moves the ticks of S from one phase to the next one.
Move(S, from, to) ==
  /\ \A i \in S : phase[i] = from
  /\ phase' = [i \in Tick |-> IF i \in S THEN to ELSE phase[i]]

\* A new tick enters the stream, and old unread ones E may leave it (an unread
\* stream shorter than the new tick itself evicts even that one at once).
Publish ==
  \E i \in Tick, E \in SUBSET Tick :
    /\ phase[i] = "unpublished"
    /\ \A j \in E \ {i} : phase[j] = "queued"
    /\ phase' = [j \in Tick |-> IF j \in E THEN "evicted"
                                ELSE IF j = i THEN "queued" ELSE phase[j]]
    /\ UNCHANGED seen

\* Redis restarts empty: every unread tick is gone.
Evict == \E S \in SUBSET Tick : Move(S, "queued", "evicted") /\ UNCHANGED seen

\* One worker is handed a batch.
Claim == \E S \in SUBSET Tick : Move(S, "queued", "claimed") /\ UNCHANGED seen

\* The detectors see the tick, or its payload turns out not to decode.
Handle ==
  \E i \in Tick :
    /\ Move({i}, "claimed", "handled")
    /\ seen' \in {seen, [seen EXCEPT ![i] = @ + 1]}

Settle == \E i \in Tick : Move({i}, "handled", "settled") /\ UNCHANGED seen

Next == Publish \/ Evict \/ Claim \/ Handle \/ Settle

Spec == Init /\ [][Next]_<<phase, seen>>
=============================================================================
