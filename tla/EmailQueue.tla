------------------------------ MODULE EmailQueue ------------------------------
(***************************************************************************)
(* Outgoing mail (email_queue.rs, email_handler.rs): POST /email/send adds  *)
(* jobs to a Redis stream, workers read them in batches, send them over     *)
(* SMTP with retries, bury what cannot be sent and acknowledge.  The stream *)
(* operations are those of WriteQueue; here it is what the mail server and  *)
(* the reader of a mail see that counts.                                    *)
(***************************************************************************)
EXTENDS Naturals, Sequences, FiniteSets, SequencesExt

CONSTANTS
  Mails,    \* requests to send a mail
  Invalid,  \* mails with an address that build_message refuses
  Workers,  \* tasks of start_email_consumer
  Batch,    \* entries of one XREADGROUP, 8
  RetryMax, \* EMAIL_EXEC_RETRY_MAX
  MaxFaults \* bound on lost answers, crashes and refusals of the mail server

VARIABLES
  asked,    \* requests: new, retrying, answered
  stream,   \* entries in the order of XADD: the mail each one carries
  group,    \* how many of them the group has delivered
  pending,  \* entry -> the worker that holds it
  hands,    \* the batch of each worker
  tries,    \* SMTP attempts of the entry a worker is at
  outcome,  \* ... and what became of it: "", sent, failed, buried
  acked,    \* entries acknowledged
  inbox,    \* entry -> copies the mail server took
  dlq,      \* entries in the dead-letter stream
  causes,   \* entry -> reasons to be sent once more
  faults

vars == <<asked, stream, group, pending, hands, tries, outcome, acked, inbox, dlq, causes, faults>>

Entries == DOMAIN stream

Fault == faults < MaxFaults /\ faults' = faults + 1

\* The group exists when the first mail is asked for.
Init ==
  /\ asked = [m \in Mails |-> "new"]
  /\ stream = <<>> /\ group = 0
  /\ pending = <<>> /\ acked = {} /\ dlq = {} /\ inbox = <<>> /\ causes = <<>>
  /\ hands = [w \in Workers |-> <<>>]
  /\ tries = [w \in Workers |-> 0]
  /\ outcome = [w \in Workers |-> ""]
  /\ faults = 0

redis == <<group, pending, acked, dlq>>
work == <<hands, tries, outcome>>

----------------------------------------------------------------------------
(* enqueue_email *)

\* A job on the stream, with its mail and attachments.
Added(m) ==
  /\ stream' = Append(stream, m)
  /\ inbox' = Append(inbox, 0) /\ causes' = Append(causes, 0)

Enqueue(m) ==
  /\ asked[m] \in {"new", "retrying"}
  /\ asked' = [asked EXCEPT ![m] = "answered"]
  /\ Added(m)
  /\ UNCHANGED <<redis, work, faults>>

\* The XADD fails, or its answer is lost; the loop adds the job again.
EnqueueFails(m) ==
  /\ asked[m] = "new" /\ Fault
  /\ asked' = [asked EXCEPT ![m] = "retrying"]
  /\ Added(m) \/ UNCHANGED <<stream, inbox, causes>>
  /\ UNCHANGED <<redis, work>>

----------------------------------------------------------------------------
(* A worker *)

Idle(w) == hands[w] = <<>>

Hold(w, batch) ==
  /\ hands' = [hands EXCEPT ![w] = batch]
  /\ tries' = [tries EXCEPT ![w] = 0]
  /\ outcome' = [outcome EXCEPT ![w] = ""]

\* XREADGROUP: the next entries become pending.
ReadBatch(w) ==
  LET n == IF Len(stream) - group < Batch THEN Len(stream) - group ELSE Batch
      batch == [i \in 1..n |-> group + i] IN
  /\ Idle(w) /\ n > 0
  /\ group' = group + n
  /\ pending' = [e \in DOMAIN pending \cup ToSet(batch) |-> IF e > group THEN w ELSE pending[e]]
  /\ Hold(w, batch)
  /\ UNCHANGED <<asked, stream, acked, dlq, inbox, causes, faults>>

\* XAUTOCLAIM of what nobody acknowledged for two minutes: its worker died, or
\* is still busy with the batch.
ClaimStale(w, e) ==
  /\ Idle(w) /\ e \in DOMAIN pending
  /\ pending[e] # w
  /\ hands[pending[e]] # <<>> => Fault
  /\ hands[pending[e]] = <<>> => UNCHANGED faults
  /\ pending' = [pending EXCEPT ![e] = w]
  /\ causes' = [causes EXCEPT ![e] = @ + 1]
  /\ Hold(w, <<e>>)
  /\ UNCHANGED <<asked, stream, group, acked, dlq, inbox>>

\* Mutant: the entry is claimed and not handled.
ClaimOnly(w, e) ==
  /\ Idle(w) /\ e \in DOMAIN pending /\ pending[e] = w
  /\ causes' = [causes EXCEPT ![e] = 1]
  /\ UNCHANGED <<asked, stream, redis, work, inbox, faults>>

\* Its own entries come back to a worker that restarted.
ClaimOwn(w, e) ==
  /\ Idle(w) /\ e \in DOMAIN pending /\ pending[e] = w
  /\ causes' = [causes EXCEPT ![e] = @ + 1]
  /\ Hold(w, <<e>>)
  /\ UNCHANGED <<asked, stream, redis, inbox, faults>>

\* send_with_retry: the server takes the mail.
Send(w) ==
  LET e == Head(hands[w]) IN
  /\ ~Idle(w) /\ outcome[w] = "" /\ stream[e] \notin Invalid
  /\ inbox' = [inbox EXCEPT ![e] = @ + 1]
  /\ outcome' = [outcome EXCEPT ![w] = "sent"]
  /\ UNCHANGED <<asked, stream, redis, hands, tries, causes, faults>>

\* The server refuses, or takes the mail and its answer is lost.
SendFails(w) ==
  LET e == Head(hands[w]) IN
  /\ ~Idle(w) /\ outcome[w] = "" /\ stream[e] \notin Invalid /\ Fault
  /\ \/ UNCHANGED <<inbox, causes>>
     \/ inbox' = [inbox EXCEPT ![e] = @ + 1] /\ causes' = [causes EXCEPT ![e] = @ + 1]
  /\ tries' = [tries EXCEPT ![w] = @ + 1]
  /\ outcome' = [outcome EXCEPT ![w] = IF tries[w] = RetryMax THEN "failed" ELSE ""]
  /\ UNCHANGED <<asked, stream, redis, hands>>

\* build_message: no attempt is made.
BuildFails(w) ==
  /\ ~Idle(w) /\ outcome[w] = "" /\ stream[Head(hands[w])] \in Invalid
  /\ outcome' = [outcome EXCEPT ![w] = "failed"]
  /\ UNCHANGED <<asked, stream, redis, hands, tries, inbox, causes, faults>>

Bury(w) ==
  /\ outcome[w] = "failed"
  /\ dlq' = dlq \cup {Head(hands[w])}
  /\ outcome' = [outcome EXCEPT ![w] = "buried"]
  /\ UNCHANGED <<asked, stream, group, pending, acked, hands, tries, inbox, causes, faults>>

\* The dead-letter XADD fails: the entry is kept pending.
BuryFails(w) ==
  /\ outcome[w] = "failed" /\ Fault
  /\ Hold(w, Tail(hands[w]))
  /\ UNCHANGED <<asked, stream, redis, inbox, causes>>

\* Mutant: what could not be buried is acknowledged all the same.
AckAnyway(w) ==
  /\ outcome[w] \in {"sent", "failed", "buried"}
  /\ acked' = acked \cup {Head(hands[w])}
  /\ pending' = [e \in DOMAIN pending \ {Head(hands[w])} |-> pending[e]]
  /\ Hold(w, Tail(hands[w]))
  /\ UNCHANGED <<asked, stream, group, dlq, inbox, causes, faults>>

Ack(w) ==
  /\ outcome[w] \in {"sent", "buried"}
  /\ acked' = acked \cup {Head(hands[w])}
  /\ pending' = [e \in DOMAIN pending \ {Head(hands[w])} |-> pending[e]]
  /\ Hold(w, Tail(hands[w]))
  /\ UNCHANGED <<asked, stream, group, dlq, inbox, causes, faults>>

AckFails(w) ==
  /\ outcome[w] \in {"sent", "buried"} /\ Fault
  /\ Hold(w, Tail(hands[w]))
  /\ UNCHANGED <<asked, stream, redis, inbox, causes>>

\* The process dies and its successor takes the worker's name.
Crash(w) ==
  /\ ~Idle(w) /\ Fault
  /\ Hold(w, <<>>)
  /\ UNCHANGED <<asked, stream, redis, inbox, causes>>

\* The loop of a worker that is not stopped.
Loop(w) ==
  \/ ReadBatch(w) \/ Send(w) \/ BuildFails(w) \/ Bury(w) \/ Ack(w)
  \/ \E e \in Entries : ClaimOwn(w, e)

Next ==
  \/ \E m \in Mails : Enqueue(m) \/ EnqueueFails(m)
  \/ \E w \in Workers :
       \/ Loop(w) \/ SendFails(w) \/ BuryFails(w) \/ AckFails(w) \/ Crash(w)
       \/ \E e \in Entries : ClaimStale(w, e)

\* SMTP is configured, so the workers run.
Fairness == \A w \in Workers : WF_vars(Loop(w))

Spec == Init /\ [][Next]_vars /\ Fairness

----------------------------------------------------------------------------
(* Properties *)

AckedIsSettled == \A e \in acked : inbox[e] > 0 \/ e \in dlq

CopiesHaveCauses == \A e \in Entries : inbox[e] <= 1 + causes[e]

\* email_queue.rs:377 and 312: nothing is acknowledged that was neither taken by
\* the mail server nor stored in the dead-letter stream, and a recipient gets a
\* copy more than one only for a lost answer of the server or because the entry
\* changed hands.
MailsAccounted == AckedIsSettled /\ CopiesHaveCauses

\* email_handler.rs:92, "Email queued": every mail that was accepted is in the end sent or buried.
EveryMailSettled ==
  \A m \in Mails : (asked[m] = "answered") ~> \E e \in acked : stream[e] = m

==============================================================================
