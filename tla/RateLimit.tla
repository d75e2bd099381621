------------------------------ MODULE RateLimit ------------------------------
(***************************************************************************)
(* One shard of the fixed-window limiter (rate_limit.rs) under concurrent   *)
(* callers: GlobalRateLimit for every request, login for attempts and       *)
(* failures.  A caller takes the time before it waits for the lock of the   *)
(* shard, so callers enter with times out of order, up to MaxWait old.      *)
(* A key is the operation, route and client address of a request.           *)
(***************************************************************************)
EXTENDS Naturals, FiniteSets

CONSTANTS
  Keys,     \* keys that hash to the shard
  Callers,  \* calls of check_and_increment
  Limit,    \* the limit each of them passes, above 0
  Window,   \* length of a window
  MaxKeys,  \* max_keys_per_shard
  MaxWait,  \* bound on the wait for the lock
  MaxClock   \* bound on the clock

VARIABLES
  clock,
  shard,    \* key -> count and start of its window
  call,     \* each caller: its key, its time, and its answer
  evicted   \* keys whose window was removed before its end

vars == <<clock, shard, call, evicted>>

Init ==
  /\ clock = 0
  /\ shard = <<>>
  /\ call = [c \in Callers |-> [pc |-> "new"]]
  /\ evicted = {}

\* `Instant::now()`, before the lock.
Arrive(c, k) ==
  /\ call[c].pc = "new"
  /\ call' = [call EXCEPT ![c] = [pc |-> "waiting", key |-> k, time |-> clock]]
  /\ UNCHANGED <<clock, shard, evicted>>

\* A difference of instants is never negative.
Since(t, start) == IF t < start THEN 0 ELSE t - start

Opened(t) == [count |-> 1, start |-> t]

Answer(c, allowed) == call' = [call EXCEPT ![c].pc = IF allowed THEN "allowed" ELSE "denied"]

\* Mutant: one more than the limit.
KnownInclusive(c) ==
  LET k == call[c].key
      e == shard[k]
      t == call[c].time
      over == Since(t, e.start) >= Window IN
  /\ call[c].pc = "waiting" /\ k \in DOMAIN shard
  /\ Answer(c, over \/ e.count <= Limit)
  /\ shard' = [shard EXCEPT ![k] = IF over THEN Opened(t)
                                   ELSE IF e.count > Limit THEN e ELSE [e EXCEPT !.count = @ + 1]]
  /\ UNCHANGED <<clock, evicted>>

\* The key has an entry: a new window, a refusal, or one more.
Known(c) ==
  LET k == call[c].key
      e == shard[k]
      t == call[c].time
      over == Since(t, e.start) >= Window IN
  /\ call[c].pc = "waiting" /\ k \in DOMAIN shard
  /\ Answer(c, over \/ e.count < Limit)
  /\ shard' = [shard EXCEPT ![k] = IF over THEN Opened(t)
                                   ELSE IF e.count >= Limit THEN e ELSE [e EXCEPT !.count = @ + 1]]
  /\ UNCHANGED <<clock, evicted>>

\* What is left when a key must be added at time t: a full shard loses the
\* windows that are over, and any one key if it is still full.
RoomFor(t) ==
  LET live == {k \in DOMAIN shard : Since(t, shard[k].start) < Window} IN
  IF Cardinality(DOMAIN shard) < MaxKeys THEN {DOMAIN shard}
  ELSE IF Cardinality(live) < MaxKeys THEN {live}
  ELSE {live \ {k} : k \in live}

\* Mutant: only the windows that are over are removed.
RoomIfOver(t) ==
  IF Cardinality(DOMAIN shard) < MaxKeys THEN {DOMAIN shard}
  ELSE {{k \in DOMAIN shard : Since(t, shard[k].start) < Window}}

Unknown(c) ==
  LET k == call[c].key
      t == call[c].time IN
  /\ call[c].pc = "waiting" /\ k \notin DOMAIN shard
  /\ Answer(c, TRUE)
  /\ \E kept \in RoomFor(t) :
       /\ shard' = [x \in kept \cup {k} |-> IF x = k THEN Opened(t) ELSE shard[x]]
       /\ evicted' = evicted \cup {x \in DOMAIN shard \ kept : Since(clock, shard[x].start) < Window}
  /\ UNCHANGED clock

Tick ==
  /\ clock < MaxClock
  /\ \A c \in Callers : call[c].pc = "waiting" => clock - call[c].time < MaxWait
  /\ clock' = clock + 1
  /\ UNCHANGED <<shard, call, evicted>>

Next ==
  \/ \E c \in Callers : Known(c) \/ Unknown(c) \/ \E k \in Keys : Arrive(c, k)
  \/ Tick

Spec == Init /\ [][Next]_vars

----------------------------------------------------------------------------
(* Properties *)

\* The calls for k that were let through with times in a span of one window,
\* less twice what a caller may wait.
Granted(k, from) ==
  {c \in Callers : /\ call[c].pc = "allowed" /\ call[c].key = k
                   /\ call[c].time \in from..from + Window - 2 * MaxWait}

\* rate_limit.rs: a client gets through at most twice the limit in any such
\* span, which two windows may share and a third cannot reach although callers
\* wait with a time taken before, unless the full shard dropped its window; and
\* the shard never outgrows its bound.
BurstBounded ==
  /\ Cardinality(DOMAIN shard) <= MaxKeys
  /\ \A k \in Keys \ evicted : \A from \in 0..MaxClock : Cardinality(Granted(k, from)) <= 2 * Limit

=============================================================================
