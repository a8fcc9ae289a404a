------------------------------ MODULE RingBuffer ------------------------------
(***************************************************************************)
(* internal/state/ringbuffer.go: a circular buffer of time-stamped values. *)
(* Slots are numbered from 0 as in the code, and len(r.entries) is the     *)
(* field cap.  Values are integers.                                        *)
(*                                                                         *)
(* An operator marked "bug" is used by no definition: it puts a plausible  *)
(* error in the one below it, to show that a property would notice.        *)
(***************************************************************************)
EXTENDS Integers, Sequences, Functions

EmptySlot == [at |-> 0, value |-> 0]

NewRingBuffer(capacity) ==
  [cap |-> capacity, entries |-> [i \in 0 .. capacity - 1 |-> EmptySlot],
   head |-> 0, count |-> 0]

RingOf(capacity) ==
  [cap : {capacity}, entries : [0 .. capacity - 1 -> [at : Int, value : Int]],
   head : 0 .. capacity - 1, count : 0 .. capacity]

NextSlot(r) == (r.head + 1) % r.cap

Push(r, at, value) ==
  [r EXCEPT !.entries[r.head] = [at |-> at, value |-> value],
            !.head = NextSlot(r),
            !.count = IF @ < r.cap THEN @ + 1 ELSE @]

\* The slot of the n-th entry from the end.
StartUnwrapped(r, n) == IF r.head < n THEN 0 ELSE r.head - n    \* bug: no wrap-around
Start(r, n) == IF r.head < n THEN r.head - n + r.cap ELSE r.head - n

\* The last n entries, or all if there are fewer, oldest first.
Recent(r, n) ==
  LET m == IF n > r.count THEN r.count ELSE n
  IN  [i \in 1 .. m |-> r.entries[(Start(r, m) + i - 1) % r.cap]]

Values(es) == [i \in DOMAIN es |-> es[i].value]

Slice(r, n) == Values(Recent(r, n))

\* The positions of what came after the cutoff.  Every entry is looked at, so entries out
\* of time order do not hide others.
AtOrAfter(e, cutoff) == e.at >= cutoff                          \* bug: not strict
After(e, cutoff) == e.at > cutoff

InWindow(r, cutoff) ==
  LET es == Recent(r, r.count) IN {i \in 1 .. r.count : After(es[i], cutoff)}

SumSince(r, now, window) ==
  SumFunctionOnSet(Slice(r, r.count), InWindow(r, now - window))
=============================================================================
