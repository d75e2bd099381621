---------------------------- MODULE WriteQueueProofs ----------------------------
(***************************************************************************)
(* Proofs about WriteQueue for any jobs, workers, batch size, limits and    *)
(* number of failures: nothing is acknowledged before it is applied or      *)
(* dead-lettered, and no entry the group has passed is forgotten.           *)
(***************************************************************************)
EXTENDS WriteQueue, TLAPS, SequenceTheorems

----------------------------------------------------------------------------
(* The strengthening *)

\* Without a group nothing was delivered.
GroupFirst == ~group => last = 0

\* A worker acknowledges what is done.
HandledIsDone == \A w \in Workers : pc[w] = "ack" => Done(Current(w))

Inductive == GroupFirst /\ HandledIsDone /\ AckedIsDone /\ NothingForgotten

----------------------------------------------------------------------------
(* Sequences *)

LEMMA SeqWidens ==
  ASSUME NEW S, NEW T, S \subseteq T, NEW s \in Seq(S)
  PROVE  s \in Seq(T)
  <1>1. Len(s) \in Nat /\ s \in [1..Len(s) -> S]
    BY LenProperties
  <1>2. s \in [1..Len(s) -> T]
    BY <1>1
  <1>3. QED
    BY <1>1, <1>2, SeqDef

LEMMA AddFacts ==
  ASSUME TypeOK, NEW j \in Jobs \cup LegacyJobs, Add(j)
  PROVE  /\ stream' \in Seq(Jobs \cup LegacyJobs) /\ applied' \in Seq(Nat)
         /\ Len(stream) \in Nat /\ Len(stream') = Len(stream) + 1 /\ Len(applied') = Len(stream')
         /\ \A e \in Entries : stream'[e] = stream[e] /\ applied'[e] = applied[e]
         /\ Entries \subseteq Entries'
  <1>1. /\ Len(stream') = Len(stream) + 1 /\ stream' \in Seq(Jobs \cup LegacyJobs)
        /\ \A e \in 1..Len(stream) : stream'[e] = stream[e]
    BY AppendProperties DEF TypeOK, Add
  <1>2. /\ Len(applied') = Len(applied) + 1 /\ applied' \in Seq(Nat)
        /\ \A e \in 1..Len(applied) : applied'[e] = applied[e]
    BY AppendProperties DEF TypeOK, Add
  <1>3. Len(stream) \in Nat /\ Len(applied) = Len(stream)
    BY LenProperties DEF TypeOK
  <1>4. QED
    BY <1>1, <1>2, <1>3 DEF Entries

\* A worker with a batch is at one of its entries.
LEMMA CurrentType ==
  ASSUME TypeOK, NEW w \in Workers, pc[w] \in {"execute", "bury", "ack"}
  PROVE  /\ Current(w) \in Entries /\ Len(batch[w]) \in Nat \ {0}
         /\ 1 \in DOMAIN batch[w] /\ Current(w) = batch[w][1]
  <1>1. batch[w] \in Seq(Entries) /\ batch[w] # <<>>
    BY DEF TypeOK
  <1>2. Len(batch[w]) \in Nat \ {0} /\ DOMAIN batch[w] = 1..Len(batch[w])
    BY <1>1, EmptySeq, LenProperties
  <1>3. Current(w) \in Entries /\ Current(w) = batch[w][1]
    BY <1>1, HeadTailProperties DEF Current
  <1>4. QED
    BY <1>2, <1>3

LEMMA AdvanceFacts ==
  ASSUME TypeOK, NEW w \in Workers, pc[w] \in {"execute", "bury", "ack"}, Advance(w)
  PROVE  /\ batch' \in [Workers -> Seq(Entries)]
         /\ pc' \in [Workers -> {"down", "migrate", "ready", "execute", "bury", "ack"}]
         /\ \A v \in Workers : v # w => batch'[v] = batch[v] /\ pc'[v] = pc[v]
         /\ pc'[w] \in {"ready", "execute"} /\ (batch'[w] # <<>> <=> pc'[w] = "execute")
         /\ \A i \in DOMAIN batch'[w] : \E k \in DOMAIN batch[w] : batch'[w][i] = batch[w][k]
         /\ attempt' \in [Jobs \cup Workers -> Nat]
         /\ \A j \in Jobs : attempt'[j] = attempt[j]
         /\ \A v \in Workers : attempt'[v] \in 0..ExecRetry
  <1> DEFINE t == Tail(batch[w])
  <1>1. batch[w] \in Seq(Entries) /\ batch[w] # <<>> /\ Len(batch[w]) \in Nat \ {0}
    BY CurrentType, EmptySeq DEF TypeOK
  <1>2. t \in Seq(Entries) /\ Len(t) = Len(batch[w]) - 1
    BY <1>1, HeadTailProperties
  <1>3. DOMAIN t = 1..Len(t) /\ DOMAIN batch[w] = 1..Len(batch[w])
    BY <1>1, <1>2, LenProperties
  <1>4. \A i \in DOMAIN t : t[i] = batch[w][i + 1] /\ i + 1 \in DOMAIN batch[w]
    BY <1>1, <1>2, <1>3
  <1>5. Len(batch[w]) = 1 <=> t = <<>>
    <2>1. t # <<>> => Len(t) \in Nat \ {0}
      BY <1>2, EmptySeq
    <2>2. t = <<>> => Len(t) = 0
      BY EmptySeq
    <2> HIDE DEF t
    <2>3. QED
      BY <1>1, <1>2, <2>1, <2>2
  <1>6. /\ batch'[w] = t /\ pc'[w] = IF Len(batch[w]) = 1 THEN "ready" ELSE "execute"
        /\ \A v \in Workers : v # w => batch'[v] = batch[v] /\ pc'[v] = pc[v]
    BY DEF Advance, TypeOK
  <1>7. /\ batch' \in [Workers -> Seq(Entries)]
        /\ pc' \in [Workers -> {"down", "migrate", "ready", "execute", "bury", "ack"}]
    BY <1>2 DEF Advance, TypeOK
  <1>8. /\ attempt' \in [Jobs \cup Workers -> Nat]
        /\ \A j \in Jobs : attempt'[j] = attempt[j]
        /\ \A v \in Workers : attempt'[v] \in 0..ExecRetry
    BY WriteQueueAssumption DEF Advance, TypeOK
  <1> HIDE DEF t
  <1>9. QED
    BY <1>4, <1>5, <1>6, <1>7, <1>8

\* One more attempt is counted, within the limit.
LEMMA AttemptTyped ==
  ASSUME TypeOK, NEW x \in Jobs \cup Workers, attempt' = [attempt EXCEPT ![x] = @ + 1],
         x \in Jobs => attempt[x] < EnqueueRetry, x \in Workers => attempt[x] < ExecRetry
  PROVE  /\ attempt' \in [Jobs \cup Workers -> Nat]
         /\ \A j \in Jobs : attempt'[j] \in 0..EnqueueRetry
         /\ \A v \in Workers : attempt'[v] \in 0..ExecRetry
  <1>1. attempt[x] \in Nat /\ attempt \in [Jobs \cup Workers -> Nat]
    BY DEF TypeOK
  <1>2. attempt'[x] = attempt[x] + 1 /\ \A y \in Jobs \cup Workers : y # x => attempt'[y] = attempt[y]
    BY <1>1
  <1>3. x \in Jobs => attempt'[x] \in 0..EnqueueRetry
    BY <1>1, <1>2, WriteQueueAssumption
  <1>4. x \in Workers => attempt'[x] \in 0..ExecRetry
    BY <1>1, <1>2, WriteQueueAssumption
  <1>5. attempt' \in [Jobs \cup Workers -> Nat]
    BY <1>1
  <1>6. QED
    BY <1>2, <1>3, <1>4, <1>5 DEF TypeOK

\* What a worker that begins a batch of entries gets.
LEMMA HandleFacts ==
  ASSUME TypeOK, NEW w \in Workers, NEW n \in Nat \ {0}, NEW es \in [1..n -> Entries],
         Handle(w, es)
  PROVE  /\ batch' \in [Workers -> Seq(Entries)]
         /\ pc' \in [Workers -> {"down", "migrate", "ready", "execute", "bury", "ack"}]
         /\ \A v \in Workers : v # w => batch'[v] = batch[v] /\ pc'[v] = pc[v]
         /\ pc'[w] = "execute" /\ batch'[w] = es /\ batch'[w] # <<>> /\ DOMAIN es = 1..n
         /\ attempt' \in [Jobs \cup Workers -> Nat]
         /\ \A j \in Jobs : attempt'[j] = attempt[j]
         /\ \A v \in Workers : attempt'[v] \in 0..ExecRetry
  <1>1. es \in Seq(Entries)
    BY SeqDef
  <1>2. es # <<>>
    BY <1>1, EmptySeq
  <1>3. batch' \in [Workers -> Seq(Entries)] /\ batch'[w] = es
    BY <1>1 DEF Handle, TypeOK
  <1>4. /\ pc' \in [Workers -> {"down", "migrate", "ready", "execute", "bury", "ack"}]
        /\ pc'[w] = "execute" /\ \A v \in Workers : v # w => batch'[v] = batch[v] /\ pc'[v] = pc[v]
    BY DEF Handle, TypeOK
  <1>5. /\ attempt' \in [Jobs \cup Workers -> Nat]
        /\ \A j \in Jobs : attempt'[j] = attempt[j]
        /\ \A v \in Workers : attempt'[v] \in 0..ExecRetry
    BY WriteQueueAssumption DEF Handle, TypeOK
  <1>6. QED
    BY <1>2, <1>3, <1>4, <1>5

\* What XREADGROUP returns are the entries after the last one delivered.
LEMMA NextFacts ==
  ASSUME TypeOK
  PROVE  \E n \in Nat : /\ NextEntries \in [1..n -> Entries] /\ last + n \in 0..Len(stream)
                        /\ Len(NextEntries) = n /\ (NextEntries # <<>> <=> n # 0)
                        /\ {NextEntries[i] : i \in DOMAIN NextEntries} = (last + 1)..(last + n)
  <1> DEFINE n == IF Len(stream) - last < Batch THEN Len(stream) - last ELSE Batch
             es == [i \in 1..n |-> last + i]
  <1>1. last \in Nat /\ Len(stream) \in Nat /\ last <= Len(stream) /\ Batch \in Nat
    BY WriteQueueAssumption, LenProperties DEF TypeOK
  <1>2. n \in Nat /\ last + n <= Len(stream)
    BY <1>1
  <1>3. NextEntries = es
    BY DEF NextEntries
  <1> HIDE DEF n
  <1>4. es \in [1..n -> Entries]
    BY <1>1, <1>2 DEF Entries
  <1>5. es \in Seq(Entries)
    BY <1>2, <1>4, SeqDef
  <1>6. Len(es) = n /\ (es # <<>> <=> n # 0)
    BY <1>2, <1>5, EmptySeq, LenProperties
  <1>7. {es[i] : i \in DOMAIN es} = (last + 1)..(last + n)
    <2>1. \A e \in (last + 1)..(last + n) : e - last \in 1..n /\ es[e - last] = e
      BY <1>1, <1>2
    <2>2. \A i \in 1..n : es[i] \in (last + 1)..(last + n)
      BY <1>1, <1>2
    <2>3. DOMAIN es = 1..n
      OBVIOUS
    <2> HIDE DEF es
    <2>4. QED
      BY <2>1, <2>2, <2>3
  <1> HIDE DEF es
  <1>8. last + n \in 0..Len(stream)
    BY <1>1, <1>2
  <1>9. QED
    BY <1>2, <1>3, <1>4, <1>6, <1>7, <1>8

LEMMA DeliveredFacts ==
  ASSUME TypeOK, NEW w \in Workers, NEW es, owner' = Delivered(w, es)
  PROVE  /\ DOMAIN owner' = DOMAIN owner \cup es
         /\ owner' \in [DOMAIN owner' -> Workers]
  BY DEF Delivered, TypeOK

----------------------------------------------------------------------------
(* Type correctness *)

\* The part of TypeOK about workers and requests.
WorkersTyped ==
  /\ answer \in [Jobs -> {"new", "checked", "accepted", "refused", "error"}]
  /\ attempt \in [Jobs \cup Workers -> Nat]
  /\ \A j \in Jobs : attempt[j] \in 0..EnqueueRetry
  /\ \A w \in Workers : attempt[w] \in 0..ExecRetry
  /\ lists \subseteq LegacyJobs
  /\ hand \in [Workers -> LegacyJobs \cup {Nobody}]
  /\ pc \in [Workers -> {"down", "migrate", "ready", "execute", "bury", "ack"}]
  /\ batch \in [Workers -> Seq(Entries)]
  /\ \A w \in Workers : batch[w] # <<>> <=> pc[w] \in {"execute", "bury", "ack"}

\* The part of TypeOK about the stream and what happened to its entries.
StreamTyped ==
  /\ stream \in Seq(Jobs \cup LegacyJobs)
  /\ group \in BOOLEAN /\ last \in 0..Len(stream)
  /\ owner \in [DOMAIN owner -> Workers]
  /\ DOMAIN owner \subseteq 1..last
  /\ stale \subseteq DOMAIN owner
  /\ acked \subseteq Entries /\ dlq \subseteq Entries
  /\ applied \in Seq(Nat) /\ Len(applied) = Len(stream)
  /\ skipped \subseteq Entries /\ reclaimed \subseteq Entries
  /\ faults \in 0..MaxFaults

LEMMA TypeParts == TypeOK <=> StreamTyped /\ WorkersTyped
  BY DEF TypeOK, StreamTyped, WorkersTyped

LEMMA TypePartsPrimed == TypeOK' <=> StreamTyped' /\ WorkersTyped'
  BY DEF TypeOK, StreamTyped, WorkersTyped

LEMMA FaultType == ASSUME TypeOK, Fault PROVE faults' \in 0..MaxFaults
  BY WriteQueueAssumption DEF TypeOK, Fault

\* An entry is added; whatever the request or the booting worker does with it.
LEMMA AddTyped ==
  ASSUME TypeOK, NEW j \in Jobs \cup LegacyJobs, Add(j), faults' \in 0..MaxFaults,
         UNCHANGED <<group, last, owner, stale, acked, dlq, ghosts, batch>>
  PROVE  StreamTyped' /\ batch' \in [Workers -> Seq(Entries')]
  <1>1. /\ stream' \in Seq(Jobs \cup LegacyJobs) /\ applied' \in Seq(Nat)
        /\ Len(stream) \in Nat /\ Len(stream') = Len(stream) + 1 /\ Len(applied') = Len(stream')
        /\ Entries \subseteq Entries'
    BY AddFacts
  <1>2. \A w \in Workers : batch[w] \in Seq(Entries')
    BY <1>1, SeqWidens DEF TypeOK
  <1>3. batch' \in [Workers -> Seq(Entries')]
    BY <1>2 DEF TypeOK
  <1>4. last' \in 0..Len(stream')
    BY <1>1 DEF TypeOK
  <1>5. StreamTyped'
    BY <1>1, <1>4 DEF StreamTyped, TypeOK, ghosts
  <1>6. QED
    BY <1>3, <1>5

LEMMA EnqueueTyped ==
  ASSUME TypeOK, NEW j \in Jobs, Enqueue(j)
  PROVE  TypeOK'
  <1>1. faults' \in 0..MaxFaults
    BY FaultType DEF Enqueue, CheckLen, CheckFails, Publish, PublishFails, TypeOK
  <1>2. UNCHANGED <<group, last, owner, stale, acked, dlq, ghosts, work, lists>>
    BY DEF Enqueue, CheckLen, CheckFails, Publish, PublishFails, queue, work, ghosts
  <1>3. /\ answer' \in [Jobs -> {"new", "checked", "accepted", "refused", "error"}]
        /\ attempt' \in [Jobs \cup Workers -> Nat]
        /\ \A k \in Jobs : attempt'[k] \in 0..EnqueueRetry
        /\ \A w \in Workers : attempt'[w] \in 0..ExecRetry
    <2>1. answer' \in [Jobs -> {"new", "checked", "accepted", "refused", "error"}]
      BY DEF Enqueue, CheckLen, CheckFails, Publish, PublishFails, TypeOK
    <2>2. \/ UNCHANGED attempt
          \/ attempt[j] < EnqueueRetry /\ attempt' = [attempt EXCEPT ![j] = @ + 1]
      BY DEF Enqueue, CheckLen, CheckFails, Publish, PublishFails
    <2>3. j \notin Workers
      BY WriteQueueAssumption
    <2>4. QED
      BY <2>1, <2>2, <2>3, AttemptTyped DEF TypeOK
  <1>4. StreamTyped' /\ batch' \in [Workers -> Seq(Entries')]
    <2>1. CASE Add(j)
      BY <1>1, <1>2, <2>1, AddTyped DEF work
    <2>2. CASE UNCHANGED <<stream, applied>>
      BY <1>1, <1>2, <2>2 DEF StreamTyped, TypeOK, ghosts, work, Entries
    <2>3. QED
      BY <2>1, <2>2 DEF Enqueue, CheckLen, CheckFails, Publish, PublishFails, queue
  <1>5. WorkersTyped'
    BY <1>2, <1>3, <1>4 DEF WorkersTyped, TypeOK, work
  <1>6. QED
    BY <1>4, <1>5, TypePartsPrimed

LEMMA BootTyped ==
  ASSUME TypeOK, NEW w \in Workers,
         \/ Start(w) \/ StartWithoutGroup(w) \/ Pop(w) \/ Push(w) \/ PushFails(w) \/ ReadNoGroup(w)
  PROVE  TypeOK'
  <1>1. faults' \in 0..MaxFaults
    BY FaultType DEF Start, StartWithoutGroup, Pop, Push, PushFails, ReadNoGroup, TypeOK
  <1>2. UNCHANGED <<owner, stale, acked, answer, batch, reclaimed, dlq, attempt>>
    BY DEF Start, StartWithoutGroup, Pop, Push, PushFails, ReadNoGroup, queue, client, work, ghosts
  <1>3. /\ lists' \subseteq LegacyJobs /\ hand' \in [Workers -> LegacyJobs \cup {Nobody}]
        /\ pc' \in [Workers -> {"down", "migrate", "ready", "execute", "bury", "ack"}]
        /\ \A v \in Workers : pc'[v] \in {"execute", "bury", "ack"} <=> pc[v] \in {"execute", "bury", "ack"}
    BY DEF Start, StartWithoutGroup, Pop, Push, PushFails, ReadNoGroup, queue, client, work, TypeOK
  <1>4. StreamTyped' /\ batch' \in [Workers -> Seq(Entries')]
    <2>1. CASE Push(w)
      <3>1. hand[w] \in LegacyJobs
        BY <2>1 DEF Push, TypeOK
      <3>2. QED
        BY <1>1, <2>1, <3>1, AddTyped DEF Push
    <2>2. CASE EnsureGroup /\ UNCHANGED <<stream, applied>>
      <3>1. Len(stream) \in Nat
        BY LenProperties DEF TypeOK
      <3>2. last' \in 0..Len(stream) /\ last <= last' /\ skipped' \subseteq Entries
        BY <2>2, <3>1 DEF EnsureGroup, TypeOK
      <3>3. DOMAIN owner \subseteq 1..last'
        BY <3>1, <3>2 DEF TypeOK
      <3>4. QED
        BY <1>1, <1>2, <2>2, <3>2, <3>3 DEF StreamTyped, TypeOK, EnsureGroup, Entries
    <2>3. CASE UNCHANGED <<stream, applied, group, last, skipped>>
      BY <1>1, <1>2, <2>3 DEF StreamTyped, TypeOK, Entries
    <2>4. QED
      BY <2>1, <2>2, <2>3 DEF Start, StartWithoutGroup, Pop, PushFails, ReadNoGroup, queue, ghosts
  <1>5. WorkersTyped'
    BY <1>2, <1>3, <1>4 DEF WorkersTyped, TypeOK
  <1>6. QED
    BY <1>4, <1>5, TypePartsPrimed

\* A worker is handed entries it may claim, or they are noted under its name.
LEMMA ReadTyped ==
  ASSUME TypeOK, NEW w \in Workers, ReadBatch(w) \/ ReadLost(w)
  PROVE  TypeOK'
  <1>1. PICK n \in Nat : /\ NextEntries \in [1..n -> Entries] /\ last + n \in 0..Len(stream)
                         /\ Len(NextEntries) = n /\ (NextEntries # <<>> <=> n # 0)
                         /\ {NextEntries[i] : i \in DOMAIN NextEntries} = (last + 1)..(last + n)
    BY NextFacts
  <1>2. /\ NextEntries # <<>> /\ owner' = Delivered(w, (last + 1)..(last + n)) /\ last' = last + n
        /\ UNCHANGED <<stream, group, stale, acked, client, hand, ghosts, dlq, applied>>
    BY <1>1 DEF ReadBatch, ReadLost, work
  <1>3. faults' \in 0..MaxFaults
    BY FaultType DEF ReadBatch, ReadLost, TypeOK
  <1>4. StreamTyped'
    <2>1. DOMAIN owner' = DOMAIN owner \cup (last + 1)..(last + n) /\ owner' \in [DOMAIN owner' -> Workers]
      BY <1>2, DeliveredFacts
    <2>2. DOMAIN owner' \subseteq 1..last'
      BY <1>1, <1>2, <2>1 DEF TypeOK
    <2>3. stale' \subseteq DOMAIN owner' /\ last' \in 0..Len(stream)
      BY <1>1, <1>2, <2>1 DEF TypeOK
    <2>4. QED
      BY <1>2, <1>3, <2>1, <2>2, <2>3 DEF StreamTyped, TypeOK, Entries, ghosts
  <1>5. WorkersTyped'
    <2>1. CASE ReadBatch(w)
      BY <1>1, <1>2, <2>1, HandleFacts DEF ReadBatch, WorkersTyped, TypeOK, client, Entries
    <2>2. CASE ReadLost(w)
      BY <1>2, <2>2 DEF ReadLost, WorkersTyped, TypeOK, client, work, Entries
    <2>3. QED
      BY <2>1, <2>2
  <1>6. QED
    BY <1>4, <1>5, TypePartsPrimed

LEMMA ClaimTyped ==
  ASSUME TypeOK, NEW w \in Workers, ClaimStale(w)
  PROVE  TypeOK'
  <1>1. PICK n \in 1..Batch : \E es \in [1..n -> stale] :
          /\ owner' = Delivered(w, {es[i] : i \in 1..n})
          /\ stale' = stale \ {es[i] : i \in 1..n}
          /\ reclaimed' = reclaimed \cup {es[i] : i \in 1..n}
          /\ Handle(w, es)
          /\ UNCHANGED <<stream, group, last, acked, client, hand, skipped, dlq, applied, faults>>
    BY DEF ClaimStale
  <1>2. PICK es \in [1..n -> stale] :
          /\ owner' = Delivered(w, {es[i] : i \in 1..n})
          /\ stale' = stale \ {es[i] : i \in 1..n}
          /\ reclaimed' = reclaimed \cup {es[i] : i \in 1..n}
          /\ Handle(w, es)
          /\ UNCHANGED <<stream, group, last, acked, client, hand, skipped, dlq, applied, faults>>
    BY <1>1
  <1> DEFINE claimed == {es[i] : i \in 1..n}
  <1>3. n \in Nat \ {0} /\ stale \subseteq Entries
    BY WriteQueueAssumption, LenProperties DEF TypeOK, Entries
  <1>4. claimed \subseteq stale
    OBVIOUS
  <1>5. es \in [1..n -> Entries]
    BY <1>3
  <1>6. StreamTyped'
    <2> HIDE DEF claimed
    <2>1. DOMAIN owner' = DOMAIN owner \cup claimed /\ owner' \in [DOMAIN owner' -> Workers]
      BY <1>2, DeliveredFacts DEF claimed
    <2>2. DOMAIN owner' = DOMAIN owner
      BY <1>4, <2>1 DEF TypeOK
    <2>3. stale' \subseteq DOMAIN owner' /\ reclaimed' \subseteq Entries
      BY <1>2, <1>3, <1>4, <2>2 DEF TypeOK, claimed
    <2>4. QED
      BY <1>2, <2>1, <2>2, <2>3 DEF StreamTyped, TypeOK, Entries
  <1>7. WorkersTyped'
    BY <1>2, <1>3, <1>5, HandleFacts DEF WorkersTyped, TypeOK, client, Entries
  <1>8. QED
    BY <1>6, <1>7, TypePartsPrimed

\* A worker goes on within its entry: the job is executed, or buried.
LEMMA ProgressTyped ==
  ASSUME TypeOK, NEW w \in Workers, Execute(w) \/ ExecuteFails(w) \/ ParseFails(w) \/ Bury(w)
  PROVE  TypeOK'
  <1>1. faults' \in 0..MaxFaults
    BY FaultType DEF Execute, ExecuteFails, ParseFails, Bury, TypeOK
  <1>2. Current(w) \in Entries /\ Len(stream) \in Nat /\ pc[w] \in {"execute", "bury"}
    BY CurrentType, LenProperties DEF Execute, ExecuteFails, ParseFails, Bury, TypeOK
  <1>3. applied' \in Seq(Nat) /\ Len(applied') = Len(stream)
    <2> DEFINE e == Current(w)
    <2>1. e \in 1..Len(applied) /\ applied[e] + 1 \in Nat
      BY <1>2, ElementOfSeq DEF TypeOK, Entries
    <2>2. /\ [applied EXCEPT ![e] = @ + 1] \in Seq(Nat)
          /\ Len([applied EXCEPT ![e] = @ + 1]) = Len(applied)
      BY <2>1, ExceptSeq DEF TypeOK
    <2>3. applied' \in {applied, [applied EXCEPT ![e] = @ + 1]}
      BY DEF Execute, ExecuteFails, ParseFails, Bury
    <2>4. QED
      BY <2>2, <2>3 DEF TypeOK
  <1>4. /\ UNCHANGED <<queue, client, hand, batch, ghosts>>
        /\ dlq' \subseteq Entries
    BY <1>2 DEF Execute, ExecuteFails, ParseFails, Bury, TypeOK
  <1>5. /\ pc' \in [Workers -> {"down", "migrate", "ready", "execute", "bury", "ack"}]
        /\ pc'[w] \in {"execute", "bury", "ack"} /\ \A v \in Workers : v # w => pc'[v] = pc[v]
    BY <1>2 DEF Execute, ExecuteFails, ParseFails, Bury, Goto, AfterFailures, TypeOK
  <1>6. /\ attempt' \in [Jobs \cup Workers -> Nat]
        /\ \A j \in Jobs : attempt'[j] = attempt[j]
        /\ \A v \in Workers : attempt'[v] \in 0..ExecRetry
    <2>1. \/ UNCHANGED attempt
          \/ attempt[w] < ExecRetry /\ attempt' = [attempt EXCEPT ![w] = @ + 1]
      BY DEF Execute, ExecuteFails, ParseFails, Bury, Goto
    <2>2. w \notin Jobs
      BY WriteQueueAssumption
    <2>3. CASE UNCHANGED attempt
      BY <2>3 DEF TypeOK
    <2>4. CASE attempt[w] < ExecRetry /\ attempt' = [attempt EXCEPT ![w] = @ + 1]
      BY <2>2, <2>4, AttemptTyped DEF TypeOK
    <2>5. QED
      BY <2>1, <2>3, <2>4
  <1>7. StreamTyped'
    BY <1>1, <1>3, <1>4 DEF StreamTyped, TypeOK, Entries, queue, ghosts
  <1>8. WorkersTyped'
    BY <1>2, <1>4, <1>5, <1>6 DEF WorkersTyped, TypeOK, client, queue, Entries
  <1>9. QED
    BY <1>7, <1>8, TypePartsPrimed

\* A worker lets go of its entry, acknowledged or not.
LEMMA LetGoTyped ==
  ASSUME TypeOK, NEW w \in Workers, BuryFails(w) \/ Ack(w) \/ AckFails(w)
  PROVE  TypeOK'
  <1>1. faults' \in 0..MaxFaults
    BY FaultType DEF BuryFails, Ack, AckFails, TypeOK
  <1>2. Current(w) \in Entries /\ pc[w] \in {"bury", "ack"} /\ Advance(w)
    BY CurrentType DEF BuryFails, Ack, AckFails
  <1>3. /\ UNCHANGED <<stream, group, last, client, hand, ghosts, applied>>
        /\ dlq' \subseteq Entries /\ acked' \subseteq Entries
    BY <1>2 DEF BuryFails, Ack, AckFails, TypeOK, queue
  <1>4. /\ owner' \in [DOMAIN owner' -> Workers] /\ DOMAIN owner' \subseteq DOMAIN owner
        /\ stale' \subseteq DOMAIN owner'
    BY DEF BuryFails, Ack, AckFails, TypeOK, queue
  <1>5. StreamTyped'
    BY <1>1, <1>3, <1>4 DEF StreamTyped, TypeOK, Entries, ghosts
  <1>6. WorkersTyped'
    BY <1>2, <1>3, AdvanceFacts DEF WorkersTyped, TypeOK, client, Entries
  <1>7. QED
    BY <1>5, <1>6, TypePartsPrimed

LEMMA TypeStep ==
  ASSUME TypeOK, [Next]_vars
  PROVE  TypeOK'
  <1>1. ASSUME NEW w \in Workers, Crash(w) PROVE TypeOK'
    <2>1. <<>> \in Seq(Entries)
      BY EmptySeq
    <2>2. faults' \in 0..MaxFaults
      BY <1>1, FaultType DEF Crash
    <2>3. StreamTyped'
      BY <1>1, <2>2 DEF Crash, StreamTyped, TypeOK, Entries, queue, ghosts
    <2>4. WorkersTyped'
      BY <1>1, <2>1, WriteQueueAssumption DEF Crash, WorkersTyped, TypeOK, Entries, queue, client
    <2>5. QED
      BY <2>3, <2>4, TypePartsPrimed
  <1>2. ASSUME NEW e \in Entries, Expire(e) PROVE TypeOK'
    BY <1>2 DEF Expire, TypeOK, client, work, ghosts, Entries
  <1>3. CASE UNCHANGED vars
    BY <1>3 DEF vars, TypeOK, queue, client, work, ghosts, Entries
  <1>4. QED
    BY <1>1, <1>2, <1>3, EnqueueTyped, BootTyped, ReadTyped, ClaimTyped, ProgressTyped, LetGoTyped
    DEF Next, Work, Trouble, IdleTick

\* Every variable of the queue keeps its type.
THEOREM TypeCorrect == Spec => []TypeOK
  <1>1. Init => TypeOK
    <2> SUFFICES ASSUME Init PROVE StreamTyped /\ WorkersTyped
      BY TypeParts
    <2>1. <<>> \in Seq(Jobs \cup LegacyJobs) /\ <<>> \in Seq(Nat) /\ <<>> \in Seq(Entries)
      BY EmptySeq
    <2>2. owner = <<>> /\ DOMAIN owner = {} /\ owner \in [DOMAIN owner -> Workers]
      BY EmptySeq DEF Init
    <2>3. StreamTyped
      <3>1. stream \in Seq(Jobs \cup LegacyJobs) /\ applied \in Seq(Nat) /\ Len(stream) = 0 /\ Len(applied) = 0
        BY <2>1, EmptySeq DEF Init
      <3>2. last \in 0..Len(stream) /\ faults \in 0..MaxFaults /\ Len(applied) = Len(stream)
        BY <3>1, WriteQueueAssumption DEF Init
      <3>3. DOMAIN owner \subseteq 1..last /\ stale \subseteq DOMAIN owner
        BY <2>2 DEF Init
      <3>4. group \in BOOLEAN /\ acked = {} /\ dlq = {} /\ skipped = {} /\ reclaimed = {}
        BY DEF Init
      <3>5. QED
        BY <2>2, <3>1, <3>2, <3>3, <3>4 DEF StreamTyped
    <2>4. WorkersTyped
      BY <2>1, WriteQueueAssumption DEF Init, WorkersTyped
    <2>5. QED
      BY <2>3, <2>4
  <1>2. QED
    BY <1>1, TypeStep, PTL DEF Spec

----------------------------------------------------------------------------
(* The invariant *)

\* What is done stays done.
LEMMA DoneStays ==
  ASSUME NEW e, Done(e), Entries \subseteq Entries', dlq \subseteq dlq',
         \A x \in Entries : applied[x] > 0 => applied'[x] > 0
  PROVE  Done(e)'
  BY DEF Done

\* Steps that handle no entry.
LEMMA AddInductive ==
  ASSUME TypeOK, Inductive, NEW j \in Jobs \cup LegacyJobs, Add(j),
         UNCHANGED <<group, last, owner, acked, dlq, skipped, batch>>,
         \A w \in Workers : pc'[w] = "ack" <=> pc[w] = "ack"
  PROVE  Inductive'
  <1>1. /\ Entries \subseteq Entries' /\ \A e \in Entries : applied'[e] = applied[e]
    BY AddFacts
  <1>2. \A e : Done(e) => Done(e)'
    BY <1>1, DoneStays
  <1>3. \A w \in Workers : Current(w)' = Current(w)
    BY DEF Current
  <1>4. QED
    BY <1>2, <1>3 DEF Inductive, GroupFirst, HandledIsDone, AckedIsDone, NothingForgotten

LEMMA EnqueueInductive ==
  ASSUME TypeOK, Inductive, NEW j \in Jobs, Enqueue(j)
  PROVE  Inductive'
  <1>1. UNCHANGED <<group, last, owner, acked, dlq, skipped, batch, pc>>
    BY DEF Enqueue, CheckLen, CheckFails, Publish, PublishFails, queue, work, ghosts
  <1>2. CASE Add(j)
    BY <1>1, <1>2, AddInductive
  <1>3. CASE UNCHANGED <<stream, applied>>
    BY <1>1, <1>3 DEF Inductive, GroupFirst, HandledIsDone, AckedIsDone, NothingForgotten, Done, Current, Entries
  <1>4. QED
    BY <1>2, <1>3 DEF Enqueue, CheckLen, CheckFails, Publish, PublishFails, queue

LEMMA BootInductive ==
  ASSUME TypeOK, Inductive, NEW w \in Workers,
         \/ Start(w) \/ StartWithoutGroup(w) \/ Pop(w) \/ Push(w) \/ PushFails(w) \/ ReadNoGroup(w)
  PROVE  Inductive'
  <1>1. UNCHANGED <<owner, acked, dlq, batch>>
    BY DEF Start, StartWithoutGroup, Pop, Push, PushFails, ReadNoGroup, queue, work
  <1>2. \A v \in Workers : pc'[v] = "ack" <=> pc[v] = "ack"
    BY DEF Start, StartWithoutGroup, Pop, Push, PushFails, ReadNoGroup, work, TypeOK
  <1>3. CASE Push(w)
    <2>1. hand[w] \in LegacyJobs
      BY <1>3 DEF Push, TypeOK
    <2>2. QED
      BY <1>1, <1>2, <1>3, <2>1, AddInductive DEF Push, ghosts
  <1>4. CASE EnsureGroup /\ UNCHANGED <<stream, applied>>
    <2>1. NothingForgotten'
      <3>1. CASE group
        BY <1>1, <1>4, <3>1 DEF EnsureGroup, Inductive, NothingForgotten
      <3>2. CASE ~group
        <4>1. acked = {} /\ DOMAIN owner = {}
          BY <3>2 DEF Inductive, GroupFirst, NothingForgotten
        <4>2. last' = Len(stream) /\ skipped' = 1..Len(stream)
          BY <1>4, <3>2 DEF EnsureGroup, Entries
        <4>3. QED
          BY <1>1, <4>1, <4>2 DEF Inductive, NothingForgotten
      <3>3. QED
        BY <3>1, <3>2
    <2>2. QED
      BY <1>1, <1>2, <1>4, <2>1 DEF EnsureGroup, Inductive, GroupFirst, HandledIsDone, AckedIsDone,
         Done, Current, Entries
  <1>5. CASE UNCHANGED <<stream, applied, group, last, skipped>>
    BY <1>1, <1>2, <1>5 DEF Inductive, GroupFirst, HandledIsDone, AckedIsDone, NothingForgotten, Done, Current, Entries
  <1>6. QED
    BY <1>3, <1>4, <1>5 DEF Start, StartWithoutGroup, Pop, PushFails, ReadNoGroup, queue, ghosts

\* Entries handed to a worker are pending under its name.
LEMMA ReadInductive ==
  ASSUME TypeOK, Inductive, NEW w \in Workers, ReadBatch(w) \/ ReadLost(w)
  PROVE  Inductive'
  <1>1. PICK n \in Nat : /\ NextEntries \in [1..n -> Entries] /\ last + n \in 0..Len(stream)
                         /\ Len(NextEntries) = n /\ (NextEntries # <<>> <=> n # 0)
                         /\ {NextEntries[i] : i \in DOMAIN NextEntries} = (last + 1)..(last + n)
    BY NextFacts
  <1>2. /\ NextEntries # <<>> /\ owner' = Delivered(w, (last + 1)..(last + n)) /\ last' = last + n
        /\ UNCHANGED <<stream, group, acked, dlq, applied, skipped>> /\ group
    BY <1>1 DEF ReadBatch, ReadLost, ghosts
  <1>3. DOMAIN owner' = DOMAIN owner \cup (last + 1)..(last + n)
    BY <1>2, DeliveredFacts
  <1>4. /\ \A v \in Workers : v # w => batch'[v] = batch[v] /\ pc'[v] = pc[v]
        /\ pc'[w] # "ack"
        /\ \A i \in DOMAIN batch'[w] : batch'[w][i] \in DOMAIN owner'
    <2>1. CASE ReadBatch(w)
      <3>1. /\ \A v \in Workers : v # w => batch'[v] = batch[v] /\ pc'[v] = pc[v]
            /\ pc'[w] = "execute" /\ batch'[w] = NextEntries
        BY <1>1, <1>2, <2>1, HandleFacts DEF ReadBatch
      <3>2. QED
        BY <1>1, <1>3, <3>1
    <2>2. CASE ReadLost(w)
      <3>1. pc[w] = "ready" /\ UNCHANGED <<pc, batch>>
        BY <2>2 DEF ReadLost, work
      <3>2. batch[w] = <<>>
        BY <3>1 DEF TypeOK
      <3>3. DOMAIN batch[w] = {}
        BY <3>2, EmptySeq
      <3>4. QED
        BY <3>1, <3>3
    <2>3. QED
      BY <2>1, <2>2
  <1>5. NothingForgotten'
    <2>1. last \in Nat /\ 1..last = acked \cup DOMAIN owner \cup skipped
      BY DEF TypeOK, Inductive, NothingForgotten
    <2>2. 1..last' = acked' \cup DOMAIN owner' \cup skipped'
      BY <1>2, <1>3, <2>1
    <2>3. acked' \cap DOMAIN owner' = {}
      BY <1>2, <1>3, <2>1 DEF Inductive, NothingForgotten
    <2>4. \A v \in Workers : \A i \in DOMAIN batch'[v] : batch'[v][i] \in acked' \cup DOMAIN owner'
      BY <1>2, <1>3, <1>4 DEF Inductive, NothingForgotten
    <2>5. QED
      BY <2>2, <2>3, <2>4 DEF NothingForgotten
  <1>6. \A v \in Workers : pc'[v] = "ack" => pc[v] = "ack" /\ Current(v)' = Current(v)
    BY <1>4 DEF Current
  <1>7. QED
    BY <1>2, <1>5, <1>6 DEF Inductive, GroupFirst, HandledIsDone, AckedIsDone, Done, Entries

LEMMA ClaimInductive ==
  ASSUME TypeOK, Inductive, NEW w \in Workers, ClaimStale(w)
  PROVE  Inductive'
  <1>1. PICK n \in 1..Batch : \E es \in [1..n -> stale] :
          /\ owner' = Delivered(w, {es[i] : i \in 1..n})
          /\ Handle(w, es) /\ group
          /\ UNCHANGED <<stream, group, last, acked, skipped, dlq, applied>>
    BY DEF ClaimStale
  <1>2. PICK es \in [1..n -> stale] :
          /\ owner' = Delivered(w, {es[i] : i \in 1..n})
          /\ Handle(w, es) /\ group
          /\ UNCHANGED <<stream, group, last, acked, skipped, dlq, applied>>
    BY <1>1
  <1>3. n \in Nat \ {0} /\ stale \subseteq DOMAIN owner /\ stale \subseteq Entries
    BY WriteQueueAssumption, LenProperties DEF TypeOK, Entries
  <1>4. DOMAIN owner' = DOMAIN owner
    <2> DEFINE claimed == {es[i] : i \in 1..n}
    <2>1. claimed \subseteq DOMAIN owner
      BY <1>3
    <2>2. owner' = Delivered(w, claimed)
      BY <1>2
    <2> HIDE DEF claimed
    <2>3. DOMAIN owner' = DOMAIN owner \cup claimed
      BY <2>2, DeliveredFacts
    <2>4. QED
      BY <2>1, <2>3
  <1>5. es \in [1..n -> Entries]
    BY <1>3
  <1>6. /\ \A v \in Workers : v # w => batch'[v] = batch[v] /\ pc'[v] = pc[v]
        /\ pc'[w] = "execute" /\ batch'[w] = es /\ DOMAIN es = 1..n
    BY <1>2, <1>3, <1>5, HandleFacts
  <1>7. \A v \in Workers : \A i \in DOMAIN batch'[v] : batch'[v][i] \in acked \cup DOMAIN owner
    BY <1>3, <1>6 DEF Inductive, NothingForgotten
  <1>8. \A v \in Workers : pc'[v] = "ack" => pc[v] = "ack" /\ Current(v)' = Current(v)
    BY <1>6 DEF Current
  <1>9. QED
    BY <1>2, <1>4, <1>7, <1>8 DEF Inductive, GroupFirst, HandledIsDone, AckedIsDone, NothingForgotten, Done, Entries

\* A worker gets to the acknowledgement with an entry that is done.
LEMMA ProgressInductive ==
  ASSUME TypeOK, Inductive, NEW w \in Workers, Execute(w) \/ ExecuteFails(w) \/ ParseFails(w) \/ Bury(w)
  PROVE  Inductive'
  <1> DEFINE e == Current(w)
  <1>1. e \in Entries /\ pc[w] \in {"execute", "bury"}
    BY CurrentType DEF Execute, ExecuteFails, ParseFails, Bury
  <1>2. /\ UNCHANGED <<stream, group, last, owner, acked, skipped, batch>>
        /\ \A v \in Workers : v # w => pc'[v] = pc[v]
    BY DEF Execute, ExecuteFails, ParseFails, Bury, Goto, AfterFailures, queue, ghosts, TypeOK
  <1>3. /\ dlq \subseteq dlq' /\ \A x \in Entries : applied[x] \in Nat
        /\ \A x \in Entries : applied[x] > 0 => applied'[x] > 0
    <2>1. \A x \in Entries : applied[x] \in Nat /\ x \in DOMAIN applied
      BY ElementOfSeq, LenProperties DEF TypeOK, Entries
    <2>2. applied' \in {applied, [applied EXCEPT ![e] = @ + 1]} /\ dlq \subseteq dlq'
      BY DEF Execute, ExecuteFails, ParseFails, Bury
    <2>3. \A x \in Entries : applied[x] > 0 => applied'[x] > 0
      BY <2>1, <2>2
    <2>4. QED
      BY <2>1, <2>2, <2>3
  <1>4. \A x : Done(x) => Done(x)'
    BY <1>2, <1>3, DoneStays DEF Entries
  <1>5. \A v \in Workers : Current(v)' = Current(v)
    BY <1>2 DEF Current
  <1>6. pc'[w] = "ack" => Done(Current(w))'
    <2>1. CASE Execute(w)
      <3>1. e \in DOMAIN applied
        BY <1>1, LenProperties DEF TypeOK, Entries
      <3>2. applied'[e] = applied[e] + 1
        BY <2>1, <3>1 DEF Execute
      <3>3. QED
        BY <1>1, <1>2, <1>3, <1>5, <3>2 DEF Done, Entries
    <2>2. CASE Bury(w)
      BY <1>1, <1>2, <1>5, <2>2 DEF Bury, Done, Entries
    <2>3. CASE ExecuteFails(w) \/ ParseFails(w)
      BY <1>1, <2>3 DEF ExecuteFails, ParseFails, Goto, AfterFailures, TypeOK
    <2>4. QED
      BY <2>1, <2>2, <2>3
  <1>7. HandledIsDone'
    BY <1>2, <1>4, <1>5, <1>6 DEF Inductive, HandledIsDone
  <1>8. QED
    BY <1>2, <1>4, <1>7 DEF Inductive, GroupFirst, AckedIsDone, NothingForgotten

\* What a worker acknowledges is done, and leaves the pending list for good.
LEMMA LetGoInductive ==
  ASSUME TypeOK, Inductive, NEW w \in Workers, BuryFails(w) \/ Ack(w) \/ AckFails(w)
  PROVE  Inductive'
  <1> DEFINE e == Current(w)
  <1>1. /\ pc[w] \in {"bury", "ack"} /\ Advance(w)
        /\ e \in Entries /\ 1 \in DOMAIN batch[w] /\ e = batch[w][1]
    BY CurrentType DEF BuryFails, Ack, AckFails
  <1>2. /\ UNCHANGED <<stream, group, last, skipped, applied>> /\ dlq \subseteq dlq'
    BY DEF BuryFails, Ack, AckFails, queue, ghosts
  <1>3. /\ \A v \in Workers : v # w => batch'[v] = batch[v] /\ pc'[v] = pc[v]
        /\ pc'[w] \in {"ready", "execute"}
        /\ \A i \in DOMAIN batch'[w] : \E k \in DOMAIN batch[w] : batch'[w][i] = batch[w][k]
    BY <1>1, AdvanceFacts
  <1>4. \A x : Done(x) => Done(x)'
    BY <1>2 DEF Done, Entries
  <1>5. \A v \in Workers : pc'[v] = "ack" => pc[v] = "ack" /\ Current(v)' = Current(v)
    BY <1>3 DEF Current
  <1>6. \/ UNCHANGED <<acked, owner>>
        \/ pc[w] = "ack" /\ acked' = acked \cup {e} /\ DOMAIN owner' = DOMAIN owner \ {e}
    BY DEF BuryFails, Ack, AckFails, queue
  <1>7. e \in acked \cup DOMAIN owner /\ (pc[w] = "ack" => Done(e))
    BY <1>1 DEF Inductive, NothingForgotten, HandledIsDone
  <1>8. acked' \cup DOMAIN owner' = acked \cup DOMAIN owner /\ acked' \cap DOMAIN owner' = {}
    BY <1>6, <1>7 DEF Inductive, NothingForgotten
  <1>9. \A x \in acked' : Done(x)
    BY <1>6, <1>7 DEF Inductive, AckedIsDone
  <1>10. \A v \in Workers : \A i \in DOMAIN batch'[v] : batch'[v][i] \in acked \cup DOMAIN owner
    BY <1>3 DEF Inductive, NothingForgotten
  <1>11. NothingForgotten'
    BY <1>2, <1>8, <1>10 DEF Inductive, NothingForgotten
  <1>12. QED
    BY <1>2, <1>4, <1>5, <1>9, <1>11 DEF Inductive, GroupFirst, HandledIsDone, AckedIsDone

LEMMA InductiveStep ==
  ASSUME TypeOK, Inductive, [Next]_vars
  PROVE  Inductive'
  <1>1. ASSUME NEW w \in Workers, Crash(w) PROVE Inductive'
    <2>1. /\ \A v \in Workers : v # w => batch'[v] = batch[v] /\ pc'[v] = pc[v]
          /\ pc'[w] = "down" /\ batch'[w] = <<>>
          /\ UNCHANGED <<stream, group, last, owner, acked, skipped, dlq, applied>>
      BY <1>1 DEF Crash, TypeOK, queue, ghosts
    <2>2. \A v \in Workers : pc'[v] = "ack" => pc[v] = "ack" /\ Current(v)' = Current(v)
      BY <2>1 DEF Current
    <2>3. DOMAIN batch'[w] = {}
      BY <2>1, EmptySeq
    <2>4. QED
      BY <2>1, <2>2, <2>3 DEF Inductive, GroupFirst, HandledIsDone, AckedIsDone, NothingForgotten, Done, Entries
  <1>2. ASSUME NEW e \in Entries, Expire(e) PROVE Inductive'
    BY <1>2 DEF Expire, work, ghosts, Inductive, GroupFirst, HandledIsDone, AckedIsDone, NothingForgotten,
       Done, Current, Entries
  <1>3. CASE UNCHANGED vars
    BY <1>3 DEF vars, queue, work, ghosts, Inductive, GroupFirst, HandledIsDone, AckedIsDone, NothingForgotten,
       Done, Current, Entries
  <1>4. QED
    BY <1>1, <1>2, <1>3, EnqueueInductive, BootInductive, ReadInductive, ClaimInductive, ProgressInductive,
       LetGoInductive DEF Next, Work, Trouble, IdleTick

\* Workers acknowledge what is done, and every entry the group has passed is accounted for.
THEOREM InductiveInvariant == Spec => [](TypeOK /\ Inductive)
  <1>1. Init => Inductive
    <2> SUFFICES ASSUME Init PROVE Inductive
      OBVIOUS
    <2>1. last = 0 /\ acked = {} /\ skipped = {} /\ DOMAIN owner = {} /\ \A w \in Workers : DOMAIN batch[w] = {}
      BY EmptySeq DEF Init
    <2>2. QED
      BY <2>1 DEF Init, Inductive, GroupFirst, HandledIsDone, AckedIsDone, NothingForgotten
  <1>2. TypeOK /\ Inductive /\ [Next]_vars => Inductive'
    BY InductiveStep
  <1>3. QED
    BY <1>1, <1>2, TypeCorrect, PTL DEF Spec

\* "Nothing is acknowledged before it is either applied to the database or safely
\* stored in the DLQ."
THEOREM NothingLost == Spec => []AckedIsDone
  BY InductiveInvariant, PTL DEF Inductive

\* What a crash, a lost reply or a lost XACK leaves behind can be claimed.
THEOREM AllClaimable == Spec => []NothingForgotten
  BY InductiveInvariant, PTL DEF Inductive

===============================================================================
