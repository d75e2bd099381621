------------------------------ MODULE OutboxProofs ------------------------------
(***************************************************************************)
(* Proofs about Outbox for any number of events, replicas and failures, any *)
(* batch size and any limit of attempts: no two replicas send an event at   *)
(* once, and the outbox implements WebhookDelivery.                         *)
(***************************************************************************)
EXTENDS Outbox, TLAPS, SequenceTheorems

----------------------------------------------------------------------------
(* The strengthening *)

\* What a replica remembers of a row: it was committed, and polled with no
\* more attempts than were made.
Remembered(p) ==
  /\ status[p.id] # "absent"
  /\ p.id \notin torn => p.attempts <= posts[p.id]

\* The column attempts keeps up with the POSTs, unless a claim's commit failed.
Counted ==
  /\ \A w \in Workers : \A i \in 1..Len(batch[w]) : Remembered(batch[w][i])
  /\ \A e \in torn : status[e] # "absent"
  /\ \A e \in Events \ torn : status[e] \in {"absent", "pending"} => attempts[e] <= posts[e]
  /\ \A w \in Workers, e \in Events \ torn : Sends(w, e) => attempts[e] = Current(w).attempts + 1

\* Before the result is written the POST was made, and taken if it was answered.
Answered ==
  \A w \in Workers : pc[w] = "settle" =>
    /\ answer[w] = "ok" => Current(w).id \in received
    /\ Current(w).id \notin torn => Current(w).attempts < posts[Current(w).id]

Inductive == OneSender /\ Counted /\ Answered

----------------------------------------------------------------------------
(* Type correctness *)

LEMMA CurrentType ==
  ASSUME TypeOK, NEW w \in Workers, pc[w] # "idle"
  PROVE  /\ Current(w) \in Polled /\ Current(w).id \in Events /\ Current(w).attempts \in Nat
         /\ Len(batch[w]) \in Nat /\ 1 \in 1..Len(batch[w]) /\ Current(w) = batch[w][1]
  <1>1. batch[w] \in Seq(Polled) /\ batch[w] # <<>>
    BY DEF TypeOK
  <1>2. Current(w) \in Polled /\ Len(batch[w]) \in Nat \ {0} /\ Current(w) = batch[w][1]
    BY <1>1, EmptySeq, HeadTailProperties DEF Current
  <1>3. QED
    BY <1>2 DEF Polled

LEMMA BatchType ==
  ASSUME TypeOK, NEW w \in Workers, NEW i \in 1..Len(batch[w])
  PROVE  batch[w][i] \in Polled /\ batch[w][i].id \in Events /\ batch[w][i].attempts \in Nat
  <1>1. batch[w] \in Seq(Polled)
    BY DEF TypeOK
  <1>2. batch[w][i] \in Polled
    BY <1>1, ElementOfSeq
  <1>3. QED
    BY <1>2 DEF Polled

\* A worker that goes on sends nothing, and remembers no row it did not remember.
LEMMA AdvanceFacts ==
  ASSUME TypeOK, NEW w \in Workers, pc[w] # "idle", Advance(w)
  PROVE  /\ \A v \in Workers : v # w => batch'[v] = batch[v] /\ pc'[v] = pc[v] /\ answer'[v] = answer[v]
         /\ pc'[w] \in {"idle", "claim"} /\ answer'[w] = "none"
         /\ batch'[w] \in Seq(Polled) /\ (pc'[w] = "idle" <=> batch'[w] = <<>>)
         /\ \A i \in 1..Len(batch'[w]) : \E j \in 1..Len(batch[w]) : batch'[w][i] = batch[w][j]
         /\ batch' \in [Workers -> Seq(Polled)]
         /\ pc' \in [Workers -> {"idle", "claim", "post", "settle"}]
         /\ answer' \in [Workers -> {"none", "ok", "error"}]
  <1>1. batch[w] \in Seq(Polled) /\ batch[w] # <<>> /\ Len(batch[w]) \in Nat \ {0}
    BY CurrentType, EmptySeq DEF TypeOK
  <1> DEFINE t == Tail(batch[w])
  <1>2. t \in Seq(Polled) /\ Len(t) = Len(batch[w]) - 1
    BY <1>1, HeadTailProperties
  <1>3. \A i \in 1..Len(t) : t[i] = batch[w][i + 1] /\ i + 1 \in 1..Len(batch[w])
    BY <1>1, <1>2
  <1>4. Len(batch[w]) = 1 <=> t = <<>>
    <2>1. t # <<>> => Len(t) \in Nat \ {0}
      BY <1>2, EmptySeq
    <2>2. t = <<>> => Len(t) = 0
      BY EmptySeq
    <2> HIDE DEF t
    <2>3. QED
      BY <1>1, <1>2, <2>1, <2>2
  <1>5. /\ batch'[w] = t /\ pc'[w] = IF Len(batch[w]) = 1 THEN "idle" ELSE "claim"
        /\ answer'[w] = "none"
        /\ \A v \in Workers : v # w => batch'[v] = batch[v] /\ pc'[v] = pc[v] /\ answer'[v] = answer[v]
    BY DEF Advance, TypeOK
  <1>6. /\ batch' \in [Workers -> Seq(Polled)]
        /\ pc' \in [Workers -> {"idle", "claim", "post", "settle"}]
        /\ answer' \in [Workers -> {"none", "ok", "error"}]
    BY <1>2 DEF Advance, TypeOK
  <1>7. QED
    BY <1>2, <1>3, <1>4, <1>5, <1>6

\* What SELECT returns is a sequence of rows of the table.
LEMMA PollFacts ==
  ASSUME TypeOK, NEW w \in Workers, Poll(w)
  PROVE  /\ UNCHANGED <<status, attempts, due, answer, posts, received, torn, faults>>
         /\ \A v \in Workers : v # w => batch'[v] = batch[v] /\ pc'[v] = pc[v]
         /\ pc[w] = "idle" /\ pc'[w] \in {"idle", "claim"}
         /\ batch' \in [Workers -> Seq(Polled)]
         /\ pc' \in [Workers -> {"idle", "claim", "post", "settle"}]
         /\ pc'[w] = "idle" <=> batch'[w] = <<>>
         /\ \A i \in 1..Len(batch'[w]) :
              /\ batch'[w][i].id \in Events /\ DueRow(batch'[w][i].id)
              /\ batch'[w][i].attempts = attempts[batch'[w][i].id]
  <1>0. PICK n \in 0..Batch : \E ids \in [1..n -> Events] :
          /\ pc[w] = "idle" /\ FirstDue(ids)
          /\ batch' = [batch EXCEPT ![w] = [i \in 1..n |-> [id |-> ids[i], attempts |-> attempts[ids[i]]]]]
          /\ pc' = [pc EXCEPT ![w] = IF n = 0 THEN "idle" ELSE "claim"]
          /\ UNCHANGED <<status, attempts, due, answer, posts, received, torn, faults>>
    BY DEF Poll
  <1>1. PICK ids \in [1..n -> Events] :
          /\ pc[w] = "idle" /\ FirstDue(ids)
          /\ batch' = [batch EXCEPT ![w] = [i \in 1..n |-> [id |-> ids[i], attempts |-> attempts[ids[i]]]]]
          /\ pc' = [pc EXCEPT ![w] = IF n = 0 THEN "idle" ELSE "claim"]
          /\ UNCHANGED <<status, attempts, due, answer, posts, received, torn, faults>>
    BY <1>0
  <1> DEFINE b == [i \in 1..n |-> [id |-> ids[i], attempts |-> attempts[ids[i]]]]
  <1>2. n \in Nat
    BY OutboxAssumption
  <1>3. \A i \in 1..n : [id |-> ids[i], attempts |-> attempts[ids[i]]] \in Polled
    BY DEF Polled, TypeOK
  <1>4. b \in [1..n -> Polled]
    BY <1>3
  <1>5. b \in Seq(Polled)
    BY <1>2, <1>4, SeqDef
  <1>6. Len(b) = n /\ (n = 0 <=> b = <<>>)
    BY <1>2, <1>5, EmptySeq, LenProperties
  <1>7. \A i \in 1..n : b[i].id = ids[i] /\ b[i].attempts = attempts[ids[i]] /\ ids[i] \in Events /\ DueRow(ids[i])
    BY <1>1 DEF FirstDue
  <1>8. batch'[w] = b /\ \A v \in Workers : v # w => batch'[v] = batch[v] /\ pc'[v] = pc[v]
    BY <1>1 DEF TypeOK
  <1>9. batch' \in [Workers -> Seq(Polled)] /\ pc' \in [Workers -> {"idle", "claim", "post", "settle"}]
    BY <1>1, <1>5 DEF TypeOK
  <1>10. pc'[w] = IF n = 0 THEN "idle" ELSE "claim"
    BY <1>1 DEF TypeOK
  <1> HIDE DEF b
  <1>11. QED
    BY <1>1, <1>6, <1>7, <1>8, <1>9, <1>10

LEMMA FaultType == ASSUME TypeOK, Fault PROVE faults' \in 0..MaxFaults
  BY OutboxAssumption DEF TypeOK, Fault

LEMMA TypeStep ==
  ASSUME TypeOK, [Next]_vars
  PROVE  TypeOK'
  <1>1. ASSUME NEW e \in Events, Record(e) \/ BecomeDue(e) PROVE TypeOK'
    BY <1>1 DEF Record, BecomeDue, TypeOK
  <1>2. ASSUME NEW w \in Workers, Poll(w) PROVE TypeOK'
    <2>1. /\ UNCHANGED <<status, attempts, due, answer, posts, received, torn, faults>>
          /\ batch' \in [Workers -> Seq(Polled)]
          /\ pc' \in [Workers -> {"idle", "claim", "post", "settle"}]
      BY <1>2, PollFacts
    <2>2. ASSUME NEW v \in Workers PROVE pc'[v] = "idle" <=> batch'[v] = <<>>
      <3>1. CASE v = w
        BY <1>2, <3>1, PollFacts
      <3>2. CASE v # w
        BY <1>2, <3>2, PollFacts DEF TypeOK
      <3>3. QED
        BY <3>1, <3>2
    <2>3. QED
      BY <2>1, <2>2 DEF TypeOK
  <1>3. ASSUME NEW w \in Workers, Claim(w) \/ ClaimUncommitted(w) PROVE TypeOK'
    <2>1. pc[w] = "claim" /\ Current(w).id \in Events /\ Current(w).attempts \in Nat
      BY <1>3, CurrentType DEF Claim, ClaimUncommitted
    <2>2. /\ status' \in [Events -> {"absent", "pending", "sending", "sent", "failed"}]
          /\ attempts' \in [Events -> Nat] /\ torn' \subseteq Events
      <3>1. CASE Claim(w)
        BY <2>1, <3>1 DEF Claim, TypeOK
      <3>2. CASE ClaimUncommitted(w)
        BY <2>1, <3>2 DEF ClaimUncommitted, TypeOK
      <3>3. QED
        BY <1>3, <3>1, <3>2
    <2>3. pc' = [pc EXCEPT ![w] = "post"] /\ UNCHANGED <<due, batch, answer, posts, received>>
      BY <1>3 DEF Claim, ClaimUncommitted
    <2>4. faults' \in 0..MaxFaults
      BY <1>3, FaultType DEF Claim, ClaimUncommitted, TypeOK
    <2>5. QED
      BY <2>1, <2>2, <2>3, <2>4 DEF TypeOK
  <1>4. ASSUME NEW w \in Workers, Deliver(w) PROVE TypeOK'
    <2>1. Current(w).id \in Events
      BY <1>4, CurrentType DEF Deliver
    <2>2. received' \subseteq Events /\ answer' \in [Workers -> {"none", "ok", "error"}]
      BY <1>4, <2>1 DEF Deliver, TypeOK
    <2>3. posts' \in [Events -> Nat] /\ pc' \in [Workers -> {"idle", "claim", "post", "settle"}]
      BY <1>4, <2>1 DEF Deliver, TypeOK
    <2>4. \A v \in Workers : pc'[v] = "idle" <=> batch'[v] = <<>>
      BY <1>4 DEF Deliver, TypeOK
    <2>5. QED
      BY <1>4, <2>2, <2>3, <2>4 DEF Deliver, TypeOK
  <1>5. ASSUME NEW w \in Workers, Advance(w), pc[w] # "idle",
               status' \in [Events -> {"absent", "pending", "sending", "sent", "failed"}],
               due' \in [Events -> BOOLEAN], faults' \in 0..MaxFaults,
               UNCHANGED <<attempts, posts, received, torn>>
        PROVE  TypeOK'
    BY <1>5, AdvanceFacts DEF TypeOK
  <1>6. ASSUME NEW w \in Workers, ClaimMisses(w) \/ ClaimFails(w) \/ SettleFails(w) PROVE TypeOK'
    BY <1>5, <1>6, FaultType DEF ClaimMisses, ClaimFails, SettleFails, TypeOK
  <1>7. ASSUME NEW w \in Workers, Settle(w) PROVE TypeOK'
    <2>1. Current(w).id \in Events /\ Verdict(w) \in {"sent", "failed", "pending"}
      BY <1>7, CurrentType DEF Settle, Verdict
    <2>2. /\ status' \in [Events -> {"absent", "pending", "sending", "sent", "failed"}]
          /\ due' \in [Events -> BOOLEAN]
      BY <1>7, <2>1 DEF Settle, TypeOK
    <2>3. QED
      BY <1>5, <1>7, <2>2 DEF Settle, TypeOK
  <1>8. ASSUME NEW w \in Workers, Crash(w) PROVE TypeOK'
    <2>1. <<>> \in Seq(Polled)
      BY EmptySeq
    <2>2. QED
      BY <1>8, <2>1, FaultType DEF Crash, TypeOK
  <1>9. CASE UNCHANGED vars
    BY <1>9 DEF vars, TypeOK
  <1>10. QED
    BY <1>1, <1>2, <1>3, <1>4, <1>6, <1>7, <1>8, <1>9 DEF Next, Work

\* Every variable of the outbox keeps its type.
THEOREM TypeCorrect == Spec => []TypeOK
  <1>1. Init => TypeOK
    BY OutboxAssumption, EmptySeq DEF Init, TypeOK
  <1>2. QED
    BY <1>1, TypeStep, PTL DEF Spec

----------------------------------------------------------------------------
(* The invariant *)

\* Whether a worker sends an event depends on where it is and what it holds.
LEMMA SendsFrame ==
  ASSUME NEW w \in Workers, pc'[w] = pc[w], batch'[w] = batch[w]
  PROVE  /\ Current(w)' = Current(w)
         /\ \A e : Sends(w, e)' <=> Sends(w, e)
  BY DEF Sends, Current

LEMMA RecordInductive ==
  ASSUME TypeOK, Inductive, NEW e \in Events, Record(e) \/ BecomeDue(e)
  PROVE  Inductive'
  <1>1. /\ UNCHANGED <<attempts, pc, batch, answer, posts, received, torn>>
        /\ \A x \in Events : status'[x] = IF x = e /\ status[e] = "absent" THEN "pending" ELSE status[x]
    BY DEF Record, BecomeDue, TypeOK
  <1>2. \A w \in Workers : Current(w)' = Current(w) /\ \A x : Sends(w, x)' <=> Sends(w, x)
    BY <1>1, SendsFrame
  <1>3. \A w \in Workers : \A i \in 1..Len(batch[w]) : batch[w][i].id \in Events
    BY BatchType
  <1>4. OneSender'
    BY <1>1, <1>2 DEF Inductive, OneSender
  <1>5. Counted'
    BY <1>1, <1>2, <1>3 DEF Inductive, Counted, Remembered, TypeOK
  <1>6. Answered'
    BY <1>1, <1>2 DEF Inductive, Answered
  <1>7. QED
    BY <1>4, <1>5, <1>6 DEF Inductive

LEMMA PollInductive ==
  ASSUME TypeOK, Inductive, NEW w \in Workers, Poll(w)
  PROVE  Inductive'
  <1>1. /\ UNCHANGED <<status, attempts, answer, posts, received, torn>>
        /\ \A v \in Workers : v # w => batch'[v] = batch[v] /\ pc'[v] = pc[v]
        /\ pc[w] = "idle" /\ pc'[w] \in {"idle", "claim"}
        /\ \A i \in 1..Len(batch'[w]) :
             /\ batch'[w][i].id \in Events /\ DueRow(batch'[w][i].id)
             /\ batch'[w][i].attempts = attempts[batch'[w][i].id]
    BY PollFacts
  <1>2. \A v \in Workers : v # w => Current(v)' = Current(v) /\ \A x : Sends(v, x)' <=> Sends(v, x)
    BY <1>1, SendsFrame
  <1>3. \A x : ~Sends(w, x) /\ ~Sends(w, x)'
    BY <1>1 DEF Sends
  <1>4. OneSender'
    BY <1>1, <1>2, <1>3 DEF Inductive, OneSender
  <1>5. Counted'
    <2>1. ASSUME NEW i \in 1..Len(batch'[w]) PROVE Remembered(batch'[w][i])
      BY <1>1 DEF Inductive, Counted, Remembered, DueRow
    <2>2. QED
      BY <1>1, <1>2, <1>3, <2>1 DEF Inductive, Counted, Remembered
  <1>6. Answered'
    BY <1>1, <1>2 DEF Inductive, Answered
  <1>7. QED
    BY <1>4, <1>5, <1>6 DEF Inductive

LEMMA ClaimInductive ==
  ASSUME TypeOK, Inductive, NEW w \in Workers, Claim(w)
  PROVE  Inductive'
  <1> DEFINE h == Current(w)
  <1>1. /\ pc[w] = "claim" /\ h.id \in Events /\ h.attempts \in Nat
        /\ 1 \in 1..Len(batch[w]) /\ h = batch[w][1]
    BY CurrentType DEF Claim
  <1>2. /\ status[h.id] = "pending" /\ status'[h.id] = "sending" /\ attempts'[h.id] = h.attempts + 1
        /\ \A x \in Events : x # h.id => status'[x] = status[x] /\ attempts'[x] = attempts[x]
        /\ pc'[w] = "post" /\ \A v \in Workers : v # w => pc'[v] = pc[v]
        /\ UNCHANGED <<batch, answer, posts, received, torn>>
    BY <1>1 DEF Claim, Claimable, TypeOK
  <1>3. \A v \in Workers : v # w => Current(v)' = Current(v) /\ \A x : Sends(v, x)' <=> Sends(v, x)
    BY <1>2, SendsFrame
  <1>4. Current(w)' = h /\ \A x : Sends(w, x)' <=> x = h.id
    BY <1>2 DEF Sends, Current
  <1>5. \A v \in Workers : h.id \notin torn => ~Sends(v, h.id)
    BY <1>1, <1>2 DEF Inductive, OneSender
  <1>6. OneSender'
    BY <1>1, <1>2, <1>3, <1>4, <1>5 DEF Inductive, OneSender
  <1>7. Counted'
    <2>1. \A v \in Workers : \A i \in 1..Len(batch[v]) : batch[v][i].id \in Events
      BY BatchType
    <2>2. torn \subseteq Events
      BY DEF TypeOK
    <2>3. \A v \in Workers : \A i \in 1..Len(batch[v]) : Remembered(batch[v][i])'
      BY <1>2, <2>1 DEF Inductive, Counted, Remembered
    <2>4. \A e \in torn : status'[e] # "absent"
      BY <1>2, <2>2 DEF Inductive, Counted
    <2>5. \A e \in Events \ torn : status'[e] \in {"absent", "pending"} => attempts'[e] <= posts[e]
      BY <1>2 DEF Inductive, Counted
    <2>6. ASSUME NEW v \in Workers, NEW e \in Events \ torn, Sends(v, e)'
          PROVE  attempts'[e] = Current(v)'.attempts + 1
      BY <1>2, <1>3, <1>4, <1>5, <2>6 DEF Inductive, Counted
    <2>7. QED
      BY <1>2, <2>3, <2>4, <2>5, <2>6 DEF Counted
  <1>8. Answered'
    BY <1>2, <1>3 DEF Inductive, Answered
  <1>9. QED
    BY <1>6, <1>7, <1>8 DEF Inductive

LEMMA ClaimUncommittedInductive ==
  ASSUME TypeOK, Inductive, NEW w \in Workers, ClaimUncommitted(w)
  PROVE  Inductive'
  <1> DEFINE h == Current(w)
  <1>1. pc[w] = "claim" /\ h.id \in Events
    BY CurrentType DEF ClaimUncommitted
  <1>2. /\ status[h.id] = "pending" /\ torn' = torn \cup {h.id}
        /\ pc'[w] = "post" /\ \A v \in Workers : v # w => pc'[v] = pc[v]
        /\ UNCHANGED <<status, attempts, batch, answer, posts, received>>
    BY <1>1 DEF ClaimUncommitted, Claimable, TypeOK
  <1>3. \A v \in Workers : v # w => Current(v)' = Current(v) /\ \A x : Sends(v, x)' <=> Sends(v, x)
    BY <1>2, SendsFrame
  <1>4. Current(w)' = h /\ \A x : Sends(w, x)' <=> x = h.id
    BY <1>2 DEF Sends, Current
  <1>5. OneSender'
    BY <1>2, <1>3, <1>4 DEF Inductive, OneSender
  <1>6. Counted'
    BY <1>2, <1>3, <1>4 DEF Inductive, Counted, Remembered
  <1>7. Answered'
    BY <1>2, <1>3 DEF Inductive, Answered
  <1>8. QED
    BY <1>5, <1>6, <1>7 DEF Inductive

\* A POST counts for whoever remembers the row.
LEMMA DeliverInductive ==
  ASSUME TypeOK, Inductive, NEW w \in Workers, Deliver(w)
  PROVE  Inductive'
  <1> DEFINE h == Current(w)
  <1>1. /\ pc[w] = "post" /\ h.id \in Events /\ h.attempts \in Nat
        /\ 1 \in 1..Len(batch[w]) /\ h = batch[w][1]
    BY CurrentType DEF Deliver
  <1>2. /\ posts'[h.id] = posts[h.id] + 1 /\ \A x \in Events : x # h.id => posts'[x] = posts[x]
        /\ \A x \in Events : posts[x] \in Nat /\ posts'[x] \in Nat /\ posts[x] <= posts'[x]
        /\ pc'[w] = "settle" /\ \A v \in Workers : v # w => pc'[v] = pc[v] /\ answer'[v] = answer[v]
        /\ received \subseteq received' /\ (answer'[w] = "ok" => h.id \in received')
        /\ UNCHANGED <<status, attempts, batch, torn>>
    BY <1>1 DEF Deliver, TypeOK
  <1>3. \A v \in Workers : v # w => Current(v)' = Current(v) /\ \A x : Sends(v, x)' <=> Sends(v, x)
    BY <1>2, SendsFrame
  <1>4. Current(w)' = h /\ \A x : Sends(w, x)' <=> Sends(w, x)
    BY <1>1, <1>2 DEF Sends, Current
  <1>5. OneSender'
    BY <1>2, <1>3, <1>4 DEF Inductive, OneSender
  <1>6. Counted'
    <2>1. ASSUME NEW v \in Workers, NEW i \in 1..Len(batch[v]) PROVE Remembered(batch[v][i])'
      <3>1. Remembered(batch[v][i])
        BY DEF Inductive, Counted
      <3>2. QED
        BY <1>2, <3>1, BatchType DEF Remembered
    <2>2. ASSUME NEW e \in Events \ torn, status[e] \in {"absent", "pending"} PROVE attempts[e] <= posts'[e]
      <3>1. attempts[e] \in Nat /\ attempts[e] <= posts[e]
        BY <2>2 DEF Inductive, Counted, TypeOK
      <3>2. QED
        BY <1>2, <3>1
    <2>3. QED
      BY <1>2, <1>3, <1>4, <2>1, <2>2 DEF Inductive, Counted
  <1>7. Answered'
    <2>1. ASSUME NEW v \in Workers, v # w, pc[v] = "settle"
          PROVE  /\ answer[v] = "ok" => Current(v).id \in received'
                 /\ Current(v).id \notin torn => Current(v).attempts < posts'[Current(v).id]
      BY <1>2, <2>1, CurrentType DEF Inductive, Answered
    <2>2. h.id \notin torn => h.attempts <= posts[h.id]
      BY <1>1 DEF Inductive, Counted, Remembered
    <2>3. h.id \notin torn => h.attempts < posts'[h.id]
      BY <1>1, <1>2, <2>2
    <2>4. QED
      BY <1>2, <1>3, <1>4, <2>1, <2>3 DEF Answered
  <1>8. QED
    BY <1>5, <1>6, <1>7 DEF Inductive

\* A worker that lets go of its row, or of all, leaves the others as they are.
LEMMA LetGoInductive ==
  ASSUME TypeOK, Inductive, NEW w \in Workers,
         \A v \in Workers : v # w => batch'[v] = batch[v] /\ pc'[v] = pc[v] /\ answer'[v] = answer[v],
         pc'[w] \in {"idle", "claim"},
         \A i \in 1..Len(batch'[w]) : \E j \in 1..Len(batch[w]) : batch'[w][i] = batch[w][j],
         UNCHANGED <<attempts, posts, received, torn>>,
         \A e \in Events : status'[e] = status[e] \/ (Sends(w, e) /\ status'[e] # "absent"),
         \A e \in Events \ torn : status'[e] = "pending" => attempts[e] <= posts[e]
  PROVE  Inductive'
  <1>1. \A v \in Workers : v # w => Current(v)' = Current(v) /\ \A x : Sends(v, x)' <=> Sends(v, x)
    BY SendsFrame
  <1>2. \A x : ~Sends(w, x)'
    BY DEF Sends
  <1>3. OneSender'
    BY <1>1, <1>2 DEF Inductive, OneSender
  <1>4. Counted'
    <2>1. \A v \in Workers : \A i \in 1..Len(batch[v]) : batch[v][i].id \in Events
      BY BatchType
    <2> DEFINE Kept(q) == status'[q.id] # "absent" /\ (q.id \notin torn => q.attempts <= posts[q.id])
    <2>2. \A v \in Workers : \A i \in 1..Len(batch[v]) : Kept(batch[v][i])
      BY <2>1 DEF Inductive, Counted, Remembered
    <2> HIDE DEF Kept
    <2>3. ASSUME NEW v \in Workers, NEW i \in 1..Len(batch'[v]) PROVE Kept(batch'[v][i])
      <3>1. CASE v = w
        BY <2>2, <3>1
      <3>2. CASE v # w
        BY <2>2, <3>2
      <3>3. QED
        BY <3>1, <3>2
    <2> USE DEF Kept
    <2>4. \A e \in torn : status'[e] # "absent"
      BY DEF Inductive, Counted, TypeOK
    <2>5. \A e \in Events \ torn : status'[e] = "absent" => attempts[e] <= posts[e]
      BY DEF Inductive, Counted
    <2>6. QED
      BY <1>1, <1>2, <2>3, <2>4, <2>5 DEF Inductive, Counted, Remembered
  <1>5. Answered'
    BY <1>1 DEF Inductive, Answered
  <1>6. QED
    BY <1>3, <1>4, <1>5 DEF Inductive

LEMMA InductiveStep ==
  ASSUME TypeOK, Inductive, [Next]_vars
  PROVE  Inductive'
  <1>1. ASSUME NEW w \in Workers, Advance(w), pc[w] # "idle", UNCHANGED <<attempts, posts, received, torn>>,
               \A e \in Events : status'[e] = status[e] \/ (Sends(w, e) /\ status'[e] # "absent"),
               \A e \in Events \ torn : status'[e] = "pending" => attempts[e] <= posts[e]
        PROVE  Inductive'
    BY <1>1, AdvanceFacts, LetGoInductive
  <1>2. \A e \in Events \ torn : status[e] = "pending" => attempts[e] <= posts[e]
    BY DEF Inductive, Counted
  <1>3. ASSUME NEW w \in Workers, ClaimMisses(w) \/ ClaimFails(w) \/ SettleFails(w) PROVE Inductive'
    BY <1>1, <1>2, <1>3 DEF ClaimMisses, ClaimFails, SettleFails
  <1>4. ASSUME NEW w \in Workers, Settle(w) PROVE Inductive'
    <2> DEFINE h == Current(w)
    <2>1. /\ h.id \in Events /\ h.attempts \in Nat /\ pc[w] = "settle"
          /\ Advance(w) /\ UNCHANGED <<attempts, posts, received, torn>> /\ Sends(w, h.id)
      BY <1>4, CurrentType DEF Settle, Sends
    <2>2. Verdict(w) \in {"sent", "failed", "pending"}
      BY DEF Verdict
    <2>3. status'[h.id] = Verdict(w) /\ \A e \in Events : e # h.id => status'[e] = status[e]
      BY <1>4, <2>1 DEF Settle, TypeOK
    <2>4. h.id \notin torn => attempts[h.id] <= posts[h.id]
      <3>1. h.id \notin torn => attempts[h.id] = h.attempts + 1 /\ h.attempts < posts[h.id]
        BY <2>1 DEF Inductive, Counted, Answered
      <3>2. posts[h.id] \in Nat
        BY <2>1 DEF TypeOK
      <3>3. QED
        BY <2>1, <3>1, <3>2
    <2>5. \A e \in Events : status'[e] = status[e] \/ (Sends(w, e) /\ status'[e] # "absent")
      BY <2>1, <2>2, <2>3
    <2>6. \A e \in Events \ torn : status'[e] = "pending" => attempts[e] <= posts[e]
      BY <1>2, <2>3, <2>4
    <2>7. QED
      BY <1>1, <2>1, <2>5, <2>6
  <1>5. ASSUME NEW w \in Workers, Crash(w) PROVE Inductive'
    <2>1. /\ \A v \in Workers : v # w => batch'[v] = batch[v] /\ pc'[v] = pc[v] /\ answer'[v] = answer[v]
          /\ pc'[w] = "idle" /\ batch'[w] = <<>>
          /\ UNCHANGED <<status, attempts, posts, received, torn>>
      BY <1>5 DEF Crash, TypeOK
    <2>2. 1..Len(batch'[w]) = {}
      BY <2>1
    <2>3. QED
      BY <1>2, <2>1, <2>2, LetGoInductive
  <1>6. CASE UNCHANGED vars
    BY <1>6 DEF vars, Inductive, OneSender, Counted, Answered, Remembered, Sends, Current
  <1>7. QED
    BY <1>3, <1>4, <1>5, <1>6, RecordInductive, PollInductive, ClaimInductive, ClaimUncommittedInductive,
       DeliverInductive DEF Next, Work

\* What replicas send, remember and were answered fits what the table says.
THEOREM InductiveInvariant == Spec => [](TypeOK /\ Inductive)
  <1>1. Init => Inductive
    BY DEF Init, Inductive, OneSender, Counted, Answered, Sends
  <1>2. TypeOK /\ Inductive /\ [Next]_vars => Inductive'
    BY InductiveStep
  <1>3. QED
    BY <1>1, <1>2, TypeCorrect, PTL DEF Spec

\* As long as commits succeed, no two replicas send an event at the same time.
THEOREM NeverTwoSenders == Spec => []OneSender
  BY InductiveInvariant, PTL DEF Inductive

----------------------------------------------------------------------------
(* The outbox implements WebhookDelivery *)

\* The fate of an event depends on its status, its claims and its senders.
LEMMA FateFrame ==
  ASSUME TypeOK, NEW e \in Events, status'[e] = status[e], e \in torn' <=> e \in torn,
         \A w \in Workers : Sends(w, e)' <=> Sends(w, e)
  PROVE  Fate(e)' = Fate(e)
  <1>1. Orphaned(e)' <=> Orphaned(e)
    BY DEF Orphaned
  <1>2. status[e] \in {"absent", "pending", "sending", "sent", "failed"}
    BY DEF TypeOK
  <1>3. QED
    BY <1>1, <1>2 DEF Fate

\* What a step that changes the fate of one event, or of none, means to the promise.
LEMMA FateChanges ==
  ASSUME NEW e \in Events, NEW f, Fate(e)' = f, UNCHANGED <<posts, received>>,
         \A x \in Events : x # e => Fate(x)' = Fate(x)
  PROVE  /\ Promise!Becomes(e, f)
         /\ f = Fate(e) => UNCHANGED Promise!vars
  BY DEF Promise!Becomes, Promise!vars

\* A worker lets go of the event it was to send, before or after the POST, and the
\* table does not say so.
LEMMA StrandedKeepsPromise ==
  ASSUME TypeOK, Inductive, NEW w \in Workers, pc[w] \in {"claim", "post", "settle"},
         UNCHANGED <<status, posts, received, torn>>,
         \A v \in Workers : v # w => \A x : Sends(v, x)' <=> Sends(v, x),
         \A x : ~Sends(w, x)'
  PROVE  [Promise!Next]_Promise!vars
  <1>1. PICK e \in Events : e = Current(w).id
    BY CurrentType
  <1>2. \A x : Sends(w, x) => x = e
    BY <1>1 DEF Sends
  <1>3. \A x \in Events : x # e => Fate(x)' = Fate(x)
    BY <1>2, FateFrame
  <1>4. CASE Sends(w, e) /\ e \notin torn
    <2>1. status[e] = "sending" /\ \A v \in Workers : ~Sends(v, e)'
      BY <1>1, <1>4 DEF Inductive, OneSender
    <2>2. Fate(e)' = "astray"
      BY <2>1 DEF Fate, Orphaned
    <2>3. Fate(e) = "pending"
      BY <1>4, <2>1 DEF Fate, Orphaned
    <2>4. Promise!Becomes(e, "astray")
      BY <1>1, <1>3, <2>2, FateChanges
    <2>5. QED
      BY <1>1, <2>3, <2>4 DEF Promise!Next, Promise!GoAstray
  <1>5. CASE ~(Sends(w, e) /\ e \notin torn)
    <2>1. Fate(e)' = Fate(e)
      <3>1. CASE e \in torn
        BY <3>1 DEF Fate
      <3>2. CASE ~Sends(w, e)
        BY <3>2, FateFrame
      <3>3. QED
        BY <1>5, <3>1, <3>2
    <2>2. QED
      BY <1>1, <1>3, <2>1, FateChanges
  <1>6. QED
    BY <1>4, <1>5

LEMMA RecordKeepsPromise ==
  ASSUME TypeOK, Inductive, NEW e \in Events, Record(e) \/ BecomeDue(e)
  PROVE  [Promise!Next]_Promise!vars
  <1>1. UNCHANGED <<pc, batch, posts, received, torn>>
    BY DEF Record, BecomeDue
  <1>2. \A w \in Workers : \A x : Sends(w, x)' <=> Sends(w, x)
    BY <1>1, SendsFrame
  <1>3. CASE BecomeDue(e)
    <2>1. UNCHANGED status
      BY <1>3 DEF BecomeDue
    <2>2. \A x \in Events : Fate(x)' = Fate(x)
      BY <1>1, <1>2, <2>1, FateFrame
    <2>3. QED
      BY <1>1, <2>2, FateChanges
  <1>4. CASE Record(e)
    <2>1. /\ status[e] = "absent" /\ status'[e] = "pending"
          /\ \A x \in Events : x # e => status'[x] = status[x]
      BY <1>4 DEF Record, TypeOK
    <2>2. \A x \in Events : x # e => Fate(x)' = Fate(x)
      BY <1>1, <1>2, <2>1, FateFrame
    <2>3. e \notin torn
      BY <2>1 DEF Inductive, Counted
    <2>4. Fate(e) = "none" /\ Fate(e)' = "pending"
      BY <1>1, <2>1, <2>3 DEF Fate, Orphaned
    <2>5. Promise!Becomes(e, "pending")
      BY <1>1, <2>2, <2>4, FateChanges
    <2>6. QED
      BY <2>4, <2>5 DEF Promise!Next, Promise!Record
  <1>5. QED
    BY <1>3, <1>4

LEMMA ClaimKeepsPromise ==
  ASSUME TypeOK, Inductive, NEW w \in Workers, Claim(w) \/ ClaimUncommitted(w)
  PROVE  [Promise!Next]_Promise!vars
  <1>0. PICK e \in Events : e = Current(w).id
    BY CurrentType DEF Claim, ClaimUncommitted
  <1>1. pc[w] = "claim" /\ e \in Events /\ status[e] = "pending"
    BY <1>0, CurrentType DEF Claim, ClaimUncommitted, Claimable
  <1>2. /\ \A v \in Workers : v # w => pc'[v] = pc[v]
        /\ pc'[w] = "post" /\ UNCHANGED <<batch, posts, received>>
    BY DEF Claim, ClaimUncommitted, TypeOK
  <1>3. \A v \in Workers : v # w => \A x : Sends(v, x)' <=> Sends(v, x)
    BY <1>2, SendsFrame
  <1>4. (\A x : ~Sends(w, x)) /\ \A x : Sends(w, x)' <=> x = e
    BY <1>0, <1>1, <1>2 DEF Sends, Current
  <1>5. CASE Claim(w)
    <2>1. /\ status'[e] = "sending" /\ \A x \in Events : x # e => status'[x] = status[x]
          /\ UNCHANGED torn
      BY <1>0, <1>1, <1>5 DEF Claim, TypeOK
    <2>2. \A x \in Events : x # e => Fate(x)' = Fate(x)
      BY <1>3, <1>4, <2>1, FateFrame
    <2>3. Fate(e)' = Fate(e)
      BY <1>1, <1>4, <2>1 DEF Fate, Orphaned
    <2>4. QED
      BY <1>1, <1>2, <2>2, <2>3, FateChanges
  <1>6. CASE ClaimUncommitted(w)
    <2>1. torn' = torn \cup {e} /\ UNCHANGED status
      BY <1>0, <1>6 DEF ClaimUncommitted
    <2>2. \A x \in Events : x # e => Fate(x)' = Fate(x)
      BY <1>3, <1>4, <2>1, FateFrame
    <2>3. Fate(e)' = "astray" /\ Fate(e) \in {"astray", "pending"}
      BY <1>1, <2>1 DEF Fate, Orphaned
    <2>4. Promise!Becomes(e, "astray") /\ ("astray" = Fate(e) => UNCHANGED Promise!vars)
      BY <1>1, <1>2, <2>2, <2>3, FateChanges
    <2>5. QED
      BY <1>1, <2>3, <2>4 DEF Promise!Next, Promise!GoAstray
  <1>7. QED
    BY <1>5, <1>6

LEMMA DeliverKeepsPromise ==
  ASSUME TypeOK, Inductive, NEW w \in Workers, Deliver(w)
  PROVE  [Promise!Next]_Promise!vars
  <1>0. PICK e \in Events : e = Current(w).id
    BY CurrentType DEF Deliver
  <1>1. pc[w] = "post" /\ e \in Events /\ Sends(w, e)
    BY <1>0, CurrentType DEF Deliver, Sends
  <1>2. /\ posts' = [posts EXCEPT ![e] = @ + 1]
        /\ received' \in {received, received \cup {e}}
        /\ \A v \in Workers : v # w => pc'[v] = pc[v]
        /\ pc'[w] = "settle" /\ UNCHANGED <<status, batch, torn>>
    BY <1>0, <1>1 DEF Deliver, TypeOK
  <1>3. \A v \in Workers : \A x : Sends(v, x)' <=> Sends(v, x)
    BY <1>1, <1>2, SendsFrame DEF Sends, Current
  <1>4. \A x \in Events : Fate(x)' = Fate(x)
    BY <1>2, <1>3, FateFrame
  <1>5. Fate(e) \in {"pending", "astray"}
    BY <1>1 DEF Inductive, OneSender, Fate, Orphaned
  <1>6. QED
    BY <1>1, <1>2, <1>4, <1>5 DEF Promise!Next, Promise!Try

LEMMA SettleKeepsPromise ==
  ASSUME TypeOK, Inductive, NEW w \in Workers, Settle(w)
  PROVE  [Promise!Next]_Promise!vars
  <1>0. PICK e \in Events : e = Current(w).id
    BY CurrentType DEF Settle
  <1>1. pc[w] = "settle" /\ e \in Events /\ Current(w).attempts \in Nat /\ Sends(w, e) /\ Advance(w)
    BY <1>0, CurrentType DEF Settle, Sends
  <1>2. /\ \A v \in Workers : v # w => batch'[v] = batch[v] /\ pc'[v] = pc[v]
        /\ pc'[w] \in {"idle", "claim"}
    BY <1>1, AdvanceFacts
  <1>3. \A v \in Workers : v # w => \A x : Sends(v, x)' <=> Sends(v, x)
    BY <1>2, SendsFrame
  <1>4. (\A x : Sends(w, x) => x = e) /\ \A x : ~Sends(w, x)'
    BY <1>0, <1>2 DEF Sends
  <1>5. /\ status'[e] = Verdict(w) /\ \A x \in Events : x # e => status'[x] = status[x]
        /\ UNCHANGED <<posts, received, torn>>
    BY <1>0, <1>1 DEF Settle, TypeOK
  <1>6. \A x \in Events : x # e => Fate(x)' = Fate(x)
    BY <1>3, <1>4, <1>5, FateFrame
  <1>7. CASE e \in torn
    <2>1. Fate(e)' = Fate(e)
      BY <1>5, <1>7 DEF Fate
    <2>2. QED
      BY <1>1, <1>5, <1>6, <2>1, FateChanges
  <1>8. CASE e \notin torn
    <2>1. status[e] = "sending"
      BY <1>1, <1>8 DEF Inductive, OneSender
    <2>2. Fate(e) = "pending"
      BY <1>1, <1>8, <2>1 DEF Fate, Orphaned
    <2>3. CASE Verdict(w) = "sent"
      <3>1. e \in received
        BY <1>0, <1>1, <2>3 DEF Inductive, Answered, Verdict
      <3>2. Fate(e)' = "delivered"
        BY <1>5, <1>8, <2>3 DEF Fate, Orphaned
      <3>3. Promise!Becomes(e, "delivered")
        BY <1>1, <1>5, <1>6, <3>2, FateChanges
      <3>4. QED
        BY <1>1, <2>2, <3>1, <3>3 DEF Promise!Next, Promise!Deliver
    <2>4. CASE Verdict(w) = "failed"
      <3>1. Current(w).attempts + 1 >= MaxAttempts
        BY <2>4 DEF Verdict, GivesUp
      <3>2. posts[e] >= MaxAttempts
        <4>1. Current(w).attempts < posts[e] /\ posts[e] \in Nat
          BY <1>0, <1>1, <1>8 DEF Inductive, Answered, TypeOK
        <4>2. QED
          BY <1>1, <3>1, <4>1, OutboxAssumption
      <3>3. Fate(e)' = "abandoned"
        BY <1>5, <1>8, <2>4 DEF Fate, Orphaned
      <3>4. Promise!Becomes(e, "abandoned")
        BY <1>1, <1>5, <1>6, <3>3, FateChanges
      <3>5. QED
        BY <1>1, <2>2, <3>2, <3>4 DEF Promise!Next, Promise!Abandon
    <2>5. CASE Verdict(w) = "pending"
      <3>1. Fate(e)' = "pending"
        BY <1>5, <1>8, <2>5 DEF Fate, Orphaned
      <3>2. QED
        BY <1>1, <1>5, <1>6, <2>2, <3>1, FateChanges
    <2>6. QED
      BY <2>3, <2>4, <2>5 DEF Verdict
  <1>9. QED
    BY <1>7, <1>8

LEMMA StepKeepsPromise ==
  ASSUME TypeOK, Inductive, [Next]_vars
  PROVE  [Promise!Next]_Promise!vars
  <1>1. ASSUME NEW w \in Workers, Poll(w) PROVE [Promise!Next]_Promise!vars
    <2>1. /\ UNCHANGED <<status, posts, received, torn>>
          /\ \A v \in Workers : v # w => batch'[v] = batch[v] /\ pc'[v] = pc[v]
          /\ pc[w] = "idle" /\ pc'[w] \in {"idle", "claim"}
      BY <1>1, PollFacts
    <2>2. \A v \in Workers : \A x : Sends(v, x)' <=> Sends(v, x)
      BY <2>1, SendsFrame DEF Sends
    <2>3. \A x \in Events : Fate(x)' = Fate(x)
      BY <2>1, <2>2, FateFrame
    <2>4. QED
      BY <2>1, <2>3 DEF Promise!vars
  <1>2. ASSUME NEW w \in Workers, ClaimMisses(w) \/ ClaimFails(w) \/ SettleFails(w)
        PROVE  [Promise!Next]_Promise!vars
    <2>1. pc[w] \in {"claim", "settle"} /\ Advance(w) /\ UNCHANGED <<status, posts, received, torn>>
      BY <1>2 DEF ClaimMisses, ClaimFails, SettleFails
    <2>2. /\ \A v \in Workers : v # w => batch'[v] = batch[v] /\ pc'[v] = pc[v]
          /\ pc'[w] \in {"idle", "claim"}
      BY <2>1, AdvanceFacts
    <2>3. \A v \in Workers : v # w => \A x : Sends(v, x)' <=> Sends(v, x)
      BY <2>2, SendsFrame
    <2>4. \A x : ~Sends(w, x)'
      BY <2>2 DEF Sends
    <2>5. QED
      BY <2>1, <2>3, <2>4, StrandedKeepsPromise
  <1>3. ASSUME NEW w \in Workers, Crash(w) PROVE [Promise!Next]_Promise!vars
    <2>1. /\ pc[w] \in {"claim", "post", "settle"} /\ pc'[w] = "idle"
          /\ UNCHANGED <<status, posts, received, torn>>
          /\ \A v \in Workers : v # w => batch'[v] = batch[v] /\ pc'[v] = pc[v]
      BY <1>3 DEF Crash, TypeOK
    <2>2. \A v \in Workers : v # w => \A x : Sends(v, x)' <=> Sends(v, x)
      BY <2>1, SendsFrame
    <2>3. \A x : ~Sends(w, x)'
      BY <2>1 DEF Sends
    <2>4. QED
      BY <2>1, <2>2, <2>3, StrandedKeepsPromise
  <1>4. CASE UNCHANGED vars
    <2>1. UNCHANGED <<status, pc, batch, posts, received, torn>>
      BY <1>4 DEF vars
    <2>2. \A v \in Workers : \A x : Sends(v, x)' <=> Sends(v, x)
      BY <2>1, SendsFrame
    <2>3. \A x \in Events : Fate(x)' = Fate(x)
      BY <2>1, <2>2, FateFrame
    <2>4. QED
      BY <2>1, <2>3 DEF Promise!vars
  <1>5. QED
    BY <1>1, <1>2, <1>3, <1>4, RecordKeepsPromise, ClaimKeepsPromise, DeliverKeepsPromise,
       SettleKeepsPromise DEF Next, Work

\* Every behaviour of the outbox is one that WebhookDelivery promises.
THEOREM PromiseKept == Spec => KeepsPromise
  <1>1. Init => Promise!Init
    <2> SUFFICES ASSUME Init PROVE Promise!Init
      OBVIOUS
    <2>1. \A e \in Events : Fate(e) = "none"
      BY DEF Init, Fate, Orphaned
    <2>2. QED
      BY <2>1 DEF Init, Promise!Init
  <1>2. TypeOK /\ Inductive /\ [Next]_vars => [Promise!Next]_Promise!vars
    BY StepKeepsPromise
  <1>3. QED
    BY <1>1, <1>2, InductiveInvariant, PTL DEF Spec, KeepsPromise, Promise!Spec

===============================================================================
