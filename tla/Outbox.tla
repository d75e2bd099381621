-------------------------------- MODULE Outbox --------------------------------
(***************************************************************************)
(* The webhook outbox (outbox.rs): committed writes leave rows in          *)
(* flx_outbox, and the worker of each API replica polls the table, claims  *)
(* due rows with a conditional UPDATE, POSTs them and records the result.  *)
(* A worker is one replica; replicas share the table only.  The clock is   *)
(* abstracted: a row whose next_attempt_at lies ahead becomes due at some  *)
(* point.                                                                   *)
(***************************************************************************)
EXTENDS Naturals, Sequences

CONSTANTS
  NumEvents,    \* rows committed, with ids 1..NumEvents
  Workers,
  Batch,        \* OUTBOX_BATCH
  MaxAttempts,  \* OUTBOX_MAX_ATTEMPTS
  MaxFaults     \* bound on crashes and failed statements

ASSUME OutboxAssumption ==
  /\ NumEvents \in Nat /\ MaxFaults \in Nat
  /\ Batch \in Nat \ {0} /\ MaxAttempts \in Nat \ {0}

Events == 1..NumEvents

VARIABLES
  status,    \* column status; "absent" before the row is committed
  attempts,  \* column attempts
  due,       \* whether next_attempt_at has passed
  pc,        \* where each worker is in its loop
  batch,     \* the rows it polled and has yet to process, as it read them
  answer,    \* what deliver returned to it
  posts,     \* POSTs sent for each event
  received,  \* events the receiver took at least once
  torn,      \* events POSTed on a claim whose commit failed
  faults

vars == <<status, attempts, due, pc, batch, answer, posts, received, torn, faults>>

Polled == [id : Events, attempts : Nat]

\* The row worker w is at, as polled.
Current(w) == Head(batch[w])

Sends(w, e) == pc[w] \in {"post", "settle"} /\ Current(w).id = e

----------------------------------------------------------------------------

Init ==
  /\ status = [e \in Events |-> "absent"]
  /\ attempts = [e \in Events |-> 0]
  /\ due = [e \in Events |-> FALSE]
  /\ pc = [w \in Workers |-> "idle"]
  /\ batch = [w \in Workers |-> <<>>]
  /\ answer = [w \in Workers |-> "none"]
  /\ posts = [e \in Events |-> 0]
  /\ received = {}
  /\ torn = {}
  /\ faults = 0

Fault == faults < MaxFaults /\ faults' = faults + 1

\* The transaction that called enqueue_in_tx commits.
Record(e) ==
  /\ status[e] = "absent"
  /\ status' = [status EXCEPT ![e] = "pending"]
  /\ due' = [due EXCEPT ![e] = TRUE]
  /\ UNCHANGED <<attempts, pc, batch, answer, posts, received, torn, faults>>

\* next_attempt_at passes.
BecomeDue(e) ==
  /\ status[e] = "pending" /\ ~due[e]
  /\ due' = [due EXCEPT ![e] = TRUE]
  /\ UNCHANGED <<status, attempts, pc, batch, answer, posts, received, torn, faults>>

\* Mutant: rows that failed once are not polled again.
FreshRow(e) == status[e] = "pending" /\ attempts[e] = 0

DueRow(e) == status[e] = "pending" /\ due[e]

\* SELECT the due rows, in id order, up to Batch of them.
FirstDue(ids) ==
  /\ \A i \in DOMAIN ids : DueRow(ids[i])
  /\ \A i, j \in DOMAIN ids : i < j => ids[i] < ids[j]
  /\ \A e \in Events : DueRow(e) /\ (\A i \in DOMAIN ids : ids[i] # e) =>
       Len(ids) = Batch /\ \A i \in DOMAIN ids : ids[i] < e

Poll(w) ==
  \E n \in 0..Batch : \E ids \in [1..n -> Events] :
     /\ pc[w] = "idle" /\ FirstDue(ids)
     /\ batch' = [batch EXCEPT ![w] = [i \in 1..n |-> [id |-> ids[i], attempts |-> attempts[ids[i]]]]]
     /\ pc' = [pc EXCEPT ![w] = IF n = 0 THEN "idle" ELSE "claim"]
     /\ UNCHANGED <<status, attempts, due, answer, posts, received, torn, faults>>

\* The row at the head is done with; the loop goes on with the rest.
Advance(w) ==
  /\ batch' = [batch EXCEPT ![w] = Tail(@)]
  /\ pc' = [pc EXCEPT ![w] = IF Len(batch[w]) = 1 THEN "idle" ELSE "claim"]
  /\ answer' = [answer EXCEPT ![w] = "none"]

\* Mutant: the claim does not look at the status.
ClaimAnyway(w) == status[Current(w).id] # "absent"

\* WHERE id = ... AND status = 'pending'; next_attempt_at is not looked at again.
Claimable(w) == status[Current(w).id] = "pending"

\* UPDATE ... SET status = 'sending', attempts = <polled attempts> + 1 -> 1 row.
Claim(w) ==
  LET h == Current(w) IN
  /\ pc[w] = "claim"
  /\ Claimable(w)
  /\ status' = [status EXCEPT ![h.id] = "sending"]
  /\ attempts' = [attempts EXCEPT ![h.id] = h.attempts + 1]
  /\ pc' = [pc EXCEPT ![w] = "post"]
  /\ UNCHANGED <<due, batch, answer, posts, received, torn, faults>>

\* The result of the commit is ignored: the row is sent all the same.
ClaimUncommitted(w) ==
  /\ pc[w] = "claim" /\ Fault
  /\ Claimable(w)
  /\ torn' = torn \cup {Current(w).id}
  /\ pc' = [pc EXCEPT ![w] = "post"]
  /\ UNCHANGED <<status, attempts, due, batch, answer, posts, received>>

\* 0 rows: another worker has it.
ClaimMisses(w) ==
  /\ pc[w] = "claim"
  /\ ~Claimable(w)
  /\ Advance(w)
  /\ UNCHANGED <<status, attempts, due, posts, received, torn, faults>>

\* begin_tx or the UPDATE fails, which counts as 0 rows.
ClaimFails(w) ==
  /\ pc[w] = "claim" /\ Fault
  /\ Advance(w)
  /\ UNCHANGED <<status, attempts, due, posts, received, torn>>

\* The POST: taken and answered, taken with the answer lost or bad, or not taken.
Deliver(w) ==
  /\ pc[w] = "post"
  /\ \E taken, ok \in BOOLEAN :
       /\ ok => taken
       /\ received' = IF taken THEN received \cup {Current(w).id} ELSE received
       /\ answer' = [answer EXCEPT ![w] = IF ok THEN "ok" ELSE "error"]
  /\ posts' = [posts EXCEPT ![Current(w).id] = @ + 1]
  /\ pc' = [pc EXCEPT ![w] = "settle"]
  /\ UNCHANGED <<status, attempts, due, batch, torn, faults>>

\* Mutant: the polled attempt is counted as made already.
GivesUpEarly(w) == Current(w).attempts + 2 >= MaxAttempts

GivesUp(w) == Current(w).attempts + 1 >= MaxAttempts

Verdict(w) ==
  IF answer[w] = "ok" THEN "sent" ELSE IF GivesUp(w) THEN "failed" ELSE "pending"

\* The result is written by id alone; a retry waits for its backoff.
Settle(w) ==
  LET e == Current(w).id IN
  /\ pc[w] = "settle"
  /\ status' = [status EXCEPT ![e] = Verdict(w)]
  /\ due' = [due EXCEPT ![e] = IF Verdict(w) = "pending" THEN FALSE ELSE @]
  /\ Advance(w)
  /\ UNCHANGED <<attempts, posts, received, torn, faults>>

\* That UPDATE fails, and nobody looks.
SettleFails(w) ==
  /\ pc[w] = "settle" /\ Fault
  /\ Advance(w)
  /\ UNCHANGED <<status, attempts, due, posts, received, torn>>

\* The process dies, or exits at the end of the shutdown drain, and starts anew.
Crash(w) ==
  /\ pc[w] # "idle" /\ Fault
  /\ pc' = [pc EXCEPT ![w] = "idle"]
  /\ batch' = [batch EXCEPT ![w] = <<>>]
  /\ answer' = [answer EXCEPT ![w] = "none"]
  /\ UNCHANGED <<status, attempts, due, posts, received, torn>>

Work(w) == Poll(w) \/ Claim(w) \/ ClaimMisses(w) \/ Deliver(w) \/ Settle(w)

Next ==
  \/ \E e \in Events : Record(e) \/ BecomeDue(e)
  \/ \E w \in Workers :
       Work(w) \/ ClaimUncommitted(w) \/ ClaimFails(w) \/ SettleFails(w) \/ Crash(w)

\* The poll loop of each process goes on, a request in flight ends (HTTP
\* timeout), and time passes.
Fairness ==
  /\ \A w \in Workers : WF_vars(Work(w))
  /\ \A e \in Events : WF_vars(BecomeDue(e))

Spec == Init /\ [][Next]_vars /\ Fairness

----------------------------------------------------------------------------
(* Properties *)

TypeOK ==
  /\ status \in [Events -> {"absent", "pending", "sending", "sent", "failed"}]
  /\ attempts \in [Events -> Nat]
  /\ due \in [Events -> BOOLEAN]
  /\ pc \in [Workers -> {"idle", "claim", "post", "settle"}]
  /\ batch \in [Workers -> Seq(Polled)]
  /\ answer \in [Workers -> {"none", "ok", "error"}]
  /\ posts \in [Events -> Nat]
  /\ received \subseteq Events
  /\ torn \subseteq Events
  /\ faults \in 0..MaxFaults
  /\ \A w \in Workers : pc[w] = "idle" <=> batch[w] = <<>>

\* Marked as being sent, by nobody.
Orphaned(e) == status[e] = "sending" /\ \A w \in Workers : ~Sends(w, e)

\* "Only one worker/replica wins the conditional update": as long as commits
\* succeed, no two replicas send the same event at the same time, and the row
\* says that it is being sent.
OneSender ==
  \A e \in Events \ torn, v, w \in Workers :
    Sends(v, e) => status[e] = "sending" /\ (Sends(w, e) => v = w)

\* The outbox keeps the promise of WebhookDelivery.
Fate(e) ==
  IF e \in torn \/ Orphaned(e) THEN "astray"
  ELSE CASE status[e] = "absent" -> "none"
         [] status[e] \in {"pending", "sending"} -> "pending"
         [] status[e] = "sent" -> "delivered"
         [] status[e] = "failed" -> "abandoned"

Promise == INSTANCE WebhookDelivery
  WITH fate <- [e \in Events |-> Fate(e)], tries <- posts, got <- received

KeepsPromise == Promise!Spec

\* A pending event is, in the end, sent or given up, unless the process sending
\* it died or lost the result: stale batches of several replicas, which set the
\* attempts back, cannot keep it going for ever.
EventuallyDecided ==
  \A e \in Events :
    status[e] = "pending" ~> (status[e] \in {"sent", "failed"} \/ Orphaned(e))

\* README, "Webhooks via transactional outbox": a background worker POSTs the
\* event with exponential backoff, OUTBOX_MAX_ATTEMPTS times, then it is failed.
EventuallySentOrFailed ==
  \A e \in Events : status[e] = "pending" ~> status[e] \in {"sent", "failed"}

=============================================================================
