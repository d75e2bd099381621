------------------------------ MODULE WriteQueue ------------------------------
(***************************************************************************)
(* Queued writes (`?isqueue=true`): HTTP handlers publish jobs to a Redis  *)
(* stream (enqueue_job), and workers of a consumer group read, execute,    *)
(* dead-letter and acknowledge them (consumer.rs over stream_queue.rs).    *)
(* The stream, its group and the Pending Entries List are Redis' own and   *)
(* survive every process.  A worker stands for a replica with one queue    *)
(* thread: threads share the stream, the boot and the shutdown only.       *)
(***************************************************************************)
EXTENDS Integers, Sequences, FiniteSets

CONSTANTS
  Jobs,          \* HTTP requests that enqueue
  LegacyJobs,    \* jobs left in the lists used before the stream
  Malformed,     \* legacy payloads that do not parse
  Workers,
  Batch,         \* WRITE_BATCH_SIZE
  MaxLen,        \* WRITE_QUEUE_MAX_LEN, 0 for no limit
  EnqueueRetry,  \* WRITE_QUEUE_ENQUEUE_RETRY
  ExecRetry,     \* WRITE_EXEC_RETRY_MAX
  MaxFaults,     \* bound on crashes and lost Redis calls
  Nobody

ASSUME WriteQueueAssumption ==
  /\ Batch \in Nat \ {0} /\ MaxLen \in Nat /\ MaxFaults \in Nat
  /\ EnqueueRetry \in Nat /\ ExecRetry \in Nat
  /\ Jobs \cap LegacyJobs = {} /\ Jobs \cap Workers = {} /\ Malformed \subseteq LegacyJobs
  /\ Nobody \notin Workers \cup Jobs \cup LegacyJobs

VARIABLES
  stream,    \* the job of every entry ever added
  group,     \* whether the consumer group exists
  last,      \* the group's last-delivered entry
  owner,     \* the Pending Entries List: entry |-> consumer
  stale,     \* pending entries idle for WRITE_CLAIM_IDLE_MS
  acked,     \* entries acknowledged
  dlq,       \* entries in the dead-letter stream
  applied,   \* times each entry's write took effect
  answer,    \* progress, then reply, of each HTTP request
  attempt,   \* failed attempts to enqueue, or to execute
  lists,     \* jobs still in the legacy lists
  hand,      \* the job a booting worker popped from them
  pc, batch, \* where each worker is, and the entries it has to handle
  skipped,   \* entries older than the group
  reclaimed, \* entries delivered a second time
  faults

queue == <<stream, group, last, owner, stale, acked>>
client == <<answer, lists>>
work == <<hand, pc, batch>>
ghosts == <<skipped, reclaimed>>

vars == <<queue, client, work, ghosts, dlq, applied, attempt, faults>>

Entries == 1..Len(stream)

Current(w) == Head(batch[w])

Fault == faults < MaxFaults /\ faults' = faults + 1

----------------------------------------------------------------------------

Init ==
  /\ stream = <<>> /\ group = FALSE /\ last = 0
  /\ owner = <<>> /\ stale = {} /\ acked = {}
  /\ dlq = {} /\ applied = <<>>
  /\ answer = [j \in Jobs |-> "new"]
  /\ attempt = [x \in Jobs \cup Workers |-> 0]
  /\ lists = LegacyJobs
  /\ hand = [w \in Workers |-> Nobody]
  /\ pc = [w \in Workers |-> "down"]
  /\ batch = [w \in Workers |-> <<>>]
  /\ skipped = {} /\ reclaimed = {}
  /\ faults = 0

\* XADD
Add(j) == stream' = Append(stream, j) /\ applied' = Append(applied, 0)

----------------------------------------------------------------------------
(* enqueue_job *)

\* XLEN counts every entry of the stream, those acknowledged too.
Full(j) == MaxLen > 0 /\ Len(stream) >= MaxLen

CheckLen(j) ==
  /\ answer[j] = "new"
  /\ answer' = [answer EXCEPT ![j] = IF Full(j) THEN "refused" ELSE "checked"]
  /\ UNCHANGED <<queue, lists, work, ghosts, dlq, applied, attempt, faults>>

\* Redis cannot be asked.
CheckFails(j) ==
  /\ answer[j] = "new" /\ (MaxLen > 0 \/ attempt[j] = 0) /\ Fault
  /\ answer' = [answer EXCEPT ![j] = "error"]
  /\ UNCHANGED <<queue, lists, work, ghosts, dlq, applied, attempt>>

Publish(j) ==
  /\ answer[j] = "checked"
  /\ Add(j)
  /\ answer' = [answer EXCEPT ![j] = "accepted"]
  /\ UNCHANGED <<group, last, owner, stale, acked, lists, work, ghosts, dlq, attempt, faults>>

\* XADD returns an error, having added the entry or not; the loop tries again.
PublishFails(j) ==
  /\ answer[j] = "checked" /\ Fault
  /\ Add(j) \/ UNCHANGED <<stream, applied>>
  /\ IF attempt[j] < EnqueueRetry
     THEN /\ answer' = [answer EXCEPT ![j] = "new"]
          /\ attempt' = [attempt EXCEPT ![j] = @ + 1]
     ELSE /\ answer' = [answer EXCEPT ![j] = "error"]
          /\ UNCHANGED attempt
  /\ UNCHANGED <<group, last, owner, stale, acked, lists, work, ghosts, dlq>>

----------------------------------------------------------------------------
(* start_consumer *)

\* XGROUP CREATE ... $: a new group starts after the entries there are.
EnsureGroup ==
  /\ group' = TRUE
  /\ last' = IF group THEN last ELSE Len(stream)
  /\ skipped' = IF group THEN skipped ELSE Entries

Start(w) ==
  /\ pc[w] = "down"
  /\ EnsureGroup
  /\ pc' = [pc EXCEPT ![w] = "migrate"]
  /\ UNCHANGED <<stream, owner, stale, acked, client, hand, batch, reclaimed, dlq, applied, attempt, faults>>

\* Creating the group fails: logged, and the boot goes on.
StartWithoutGroup(w) ==
  /\ pc[w] = "down" /\ Fault
  /\ pc' = [pc EXCEPT ![w] = "migrate"]
  /\ UNCHANGED <<queue, client, hand, batch, ghosts, dlq, applied, attempt>>

\* migrate_legacy_lists: RPOP, then XADD, one job at a time.
Pop(w) ==
  /\ pc[w] = "migrate" /\ hand[w] = Nobody
  /\ IF lists = {} THEN /\ pc' = [pc EXCEPT ![w] = "ready"]
                        /\ UNCHANGED <<lists, hand>>
     ELSE \E j \in lists : /\ lists' = lists \ {j}
                           /\ hand' = [hand EXCEPT ![w] = j]
                           /\ UNCHANGED pc
  /\ UNCHANGED <<queue, answer, batch, ghosts, dlq, applied, attempt, faults>>

Push(w) ==
  /\ pc[w] = "migrate" /\ hand[w] # Nobody
  /\ Add(hand[w])
  /\ hand' = [hand EXCEPT ![w] = Nobody]
  /\ UNCHANGED <<group, last, owner, stale, acked, client, pc, batch, ghosts, dlq, attempt, faults>>

\* XADD fails: the migration ends there, without the job it popped.
PushFails(w) ==
  /\ pc[w] = "migrate" /\ hand[w] # Nobody /\ Fault
  /\ hand' = [hand EXCEPT ![w] = Nobody]
  /\ pc' = [pc EXCEPT ![w] = "ready"]
  /\ UNCHANGED <<queue, client, batch, ghosts, dlq, applied, attempt>>

----------------------------------------------------------------------------
(* The worker loop *)

\* XREADGROUP answers NOGROUP; the worker reconnects and makes the group.
ReadNoGroup(w) ==
  /\ pc[w] = "ready" /\ ~group
  /\ EnsureGroup
  /\ UNCHANGED <<stream, owner, stale, acked, client, work, reclaimed, dlq, applied, attempt, faults>>

\* A worker begins to handle the entries es, in order.
Handle(w, es) ==
  /\ batch' = [batch EXCEPT ![w] = es]
  /\ pc' = [pc EXCEPT ![w] = "execute"]
  /\ attempt' = [attempt EXCEPT ![w] = 0]

\* Mutant: XREADGROUP with NOACK, which leaves nothing pending.
DeliveredNoAck(w, es) == owner

Delivered(w, es) == [e \in DOMAIN owner \cup es |-> IF e \in es THEN w ELSE owner[e]]

NextEntries ==
  LET n == IF Len(stream) - last < Batch THEN Len(stream) - last ELSE Batch
  IN [i \in 1..n |-> last + i]

\* XREADGROUP ... >
ReadBatch(w) ==
  LET es == NextEntries IN
  /\ pc[w] = "ready" /\ group /\ es # <<>>
  /\ owner' = Delivered(w, {es[i] : i \in DOMAIN es})
  /\ last' = last + Len(es)
  /\ Handle(w, es)
  /\ UNCHANGED <<stream, group, stale, acked, client, hand, ghosts, dlq, applied, faults>>

\* Nothing new within the block time.
IdleTick(w) == pc[w] = "ready" /\ group /\ NextEntries = <<>> /\ UNCHANGED vars

\* The reply is lost: the entries are pending under w, which never saw them.
ReadLost(w) ==
  LET es == NextEntries IN
  /\ pc[w] = "ready" /\ group /\ es # <<>> /\ Fault
  /\ owner' = Delivered(w, {es[i] : i \in DOMAIN es})
  /\ last' = last + Len(es)
  /\ UNCHANGED <<stream, group, stale, acked, client, work, ghosts, dlq, applied, attempt>>

\* WRITE_CLAIM_IDLE_MS passes since an entry was delivered, whether or not the
\* worker that holds it is alive, or busy with the entries before it.
Expire(e) ==
  /\ e \in DOMAIN owner \ stale
  /\ stale' = stale \cup {e}
  /\ UNCHANGED <<stream, group, last, owner, acked, client, work, ghosts, dlq, applied, attempt, faults>>

\* Mutant: the entries XAUTOCLAIM returns are not handled.
ClaimOnly(w) ==
  /\ pc[w] = "ready" /\ group /\ stale # {}
  /\ owner' = Delivered(w, stale)
  /\ stale' = {}
  /\ UNCHANGED <<stream, group, last, acked, client, work, ghosts, dlq, applied, attempt, faults>>

\* The oldest stale entries in order, up to Batch of them.
FirstStale(es) ==
  /\ \A i, j \in DOMAIN es : i < j => es[i] < es[j]
  /\ \A e \in stale : (\A i \in DOMAIN es : es[i] # e) =>
       Len(es) = Batch /\ \A i \in DOMAIN es : es[i] < e

\* XAUTOCLAIM, every 30 s and between batches.
ClaimStale(w) ==
  \E n \in 1..Batch : \E es \in [1..n -> stale] :
     LET claimed == {es[i] : i \in 1..n} IN
     /\ pc[w] = "ready" /\ group /\ FirstStale(es)
     /\ owner' = Delivered(w, claimed)
     /\ stale' = stale \ claimed
     /\ reclaimed' = reclaimed \cup claimed
     /\ Handle(w, es)
     /\ UNCHANGED <<stream, group, last, acked, client, hand, skipped, dlq, applied, faults>>

\* handle_entry returns; the loop goes on with the rest of the batch.
Advance(w) ==
  /\ batch' = [batch EXCEPT ![w] = Tail(@)]
  /\ pc' = [pc EXCEPT ![w] = IF Len(batch[w]) = 1 THEN "ready" ELSE "execute"]
  /\ attempt' = [attempt EXCEPT ![w] = 0]

Goto(w, where) == pc' = [pc EXCEPT ![w] = where] /\ UNCHANGED attempt

\* execute_job succeeds.
Execute(w) ==
  /\ pc[w] = "execute" /\ stream[Current(w)] \notin Malformed
  /\ applied' = [applied EXCEPT ![Current(w)] = @ + 1]
  /\ Goto(w, "ack")
  /\ UNCHANGED <<queue, client, hand, batch, ghosts, dlq, faults>>

\* Mutant: the last failure is acknowledged like a success.
AfterLastFailure == "ack"

AfterFailures == "bury"

\* execute_job fails, in rare cases after its transaction took effect; after
\* ExecRetry retries the job is given up.
ExecuteFails(w) ==
  /\ pc[w] = "execute" /\ stream[Current(w)] \notin Malformed
  /\ \/ UNCHANGED <<applied, faults>>
     \/ Fault /\ applied' = [applied EXCEPT ![Current(w)] = @ + 1]
  /\ IF attempt[w] < ExecRetry
     THEN attempt' = [attempt EXCEPT ![w] = @ + 1] /\ UNCHANGED pc
     ELSE Goto(w, AfterFailures)
  /\ UNCHANGED <<queue, client, hand, batch, ghosts, dlq>>

ParseFails(w) ==
  /\ pc[w] = "execute" /\ stream[Current(w)] \in Malformed
  /\ Goto(w, "bury")
  /\ UNCHANGED <<queue, client, hand, batch, ghosts, dlq, applied, faults>>

\* push_dlq
Bury(w) ==
  /\ pc[w] = "bury"
  /\ dlq' = dlq \cup {Current(w)}
  /\ Goto(w, "ack")
  /\ UNCHANGED <<queue, client, hand, batch, ghosts, applied, faults>>

\* XADD, or the XLEN after it, fails: the entry is kept pending.
BuryFails(w) ==
  /\ pc[w] = "bury" /\ Fault
  /\ dlq' \in {dlq, dlq \cup {Current(w)}}
  /\ Advance(w)
  /\ UNCHANGED <<queue, client, hand, ghosts, applied>>

\* XACK takes the entry off the list, whoever holds it now.
Ack(w) ==
  LET e == Current(w) IN
  /\ pc[w] = "ack"
  /\ acked' = acked \cup {e}
  /\ owner' = [x \in DOMAIN owner \ {e} |-> owner[x]]
  /\ stale' = stale \ {e}
  /\ Advance(w)
  /\ UNCHANGED <<stream, group, last, client, hand, ghosts, dlq, applied, faults>>

AckFails(w) ==
  /\ pc[w] = "ack" /\ Fault
  /\ Advance(w)
  /\ UNCHANGED <<queue, client, hand, ghosts, dlq, applied>>

\* The process dies, or exits between two entries of a batch (drain sees nothing
\* in flight) or at the end of the drain; it may start again.
Crash(w) ==
  /\ pc[w] # "down" /\ Fault
  /\ pc' = [pc EXCEPT ![w] = "down"]
  /\ batch' = [batch EXCEPT ![w] = <<>>]
  /\ hand' = [hand EXCEPT ![w] = Nobody]
  /\ attempt' = [attempt EXCEPT ![w] = 0]
  /\ UNCHANGED <<queue, client, ghosts, dlq, applied>>

Enqueue(j) == CheckLen(j) \/ CheckFails(j) \/ Publish(j) \/ PublishFails(j)

Work(w) ==
  \/ Start(w) \/ Pop(w) \/ Push(w) \/ ReadNoGroup(w) \/ ReadBatch(w) \/ IdleTick(w)
  \/ ClaimStale(w) \/ Execute(w) \/ ExecuteFails(w) \/ ParseFails(w) \/ Bury(w) \/ Ack(w)

Trouble(w) ==
  \/ StartWithoutGroup(w) \/ PushFails(w) \/ ReadLost(w) \/ BuryFails(w) \/ AckFails(w)
  \/ Crash(w)

Next ==
  \/ \E j \in Jobs : Enqueue(j)
  \/ \E w \in Workers : Work(w) \/ Trouble(w)
  \/ \E e \in Entries : Expire(e)

\* What the stream can grow to: every attempt may add an entry.
MaxEntries == Cardinality(LegacyJobs) + Cardinality(Jobs) * (EnqueueRetry + 1)

\* Worker threads keep running, processes are restarted, and time passes.
Fairness ==
  /\ \A w \in Workers : WF_vars(Work(w))
  /\ \A e \in 1..MaxEntries : WF_vars(e \in Entries /\ Expire(e))

Spec == Init /\ [][Next]_vars /\ Fairness

----------------------------------------------------------------------------
(* Properties *)

TypeOK ==
  /\ stream \in Seq(Jobs \cup LegacyJobs)
  /\ group \in BOOLEAN /\ last \in 0..Len(stream)
  /\ owner \in [DOMAIN owner -> Workers]
  /\ DOMAIN owner \subseteq 1..last
  /\ stale \subseteq DOMAIN owner
  /\ acked \subseteq Entries /\ dlq \subseteq Entries
  /\ applied \in Seq(Nat) /\ Len(applied) = Len(stream)
  /\ answer \in [Jobs -> {"new", "checked", "accepted", "refused", "error"}]
  /\ attempt \in [Jobs \cup Workers -> Nat]
  /\ \A j \in Jobs : attempt[j] \in 0..EnqueueRetry
  /\ \A w \in Workers : attempt[w] \in 0..ExecRetry
  /\ lists \subseteq LegacyJobs
  /\ hand \in [Workers -> LegacyJobs \cup {Nobody}]
  /\ pc \in [Workers -> {"down", "migrate", "ready", "execute", "bury", "ack"}]
  /\ batch \in [Workers -> Seq(Entries)]
  /\ \A w \in Workers : batch[w] # <<>> <=> pc[w] \in {"execute", "bury", "ack"}
  /\ skipped \subseteq Entries /\ reclaimed \subseteq Entries
  /\ faults \in 0..MaxFaults

Done(e) == e \in Entries /\ (applied[e] > 0 \/ e \in dlq)

\* "Nothing is acknowledged before it is either applied to the database or
\* safely stored in the DLQ", with entries handled by several workers at once.
AckedIsDone == \A e \in acked : Done(e)

\* Every entry the group has passed is acknowledged, pending, or older than the
\* group: what a crash, a lost reply or a lost XACK leaves is claimable.
NothingForgotten ==
  /\ 1..last = acked \cup DOMAIN owner \cup skipped
  /\ acked \cap DOMAIN owner = {}
  /\ \A w \in Workers : \A i \in DOMAIN batch[w] :
       batch[w][i] \in acked \cup DOMAIN owner

\* A job whose request was told "Enqueued", or that an earlier version left in a
\* list and the migration moved, is in the end applied or dead-lettered, whatever
\* crashes, unless its entry is older than the group.
EventuallyDone ==
  \A e \in 1..MaxEntries :
    e \in Entries ~> (Done(e) \/ e \in skipped)

=============================================================================
