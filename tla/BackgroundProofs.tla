----------------------------- MODULE BackgroundProofs -----------------------------
(***************************************************************************)
(* Proofs about what runs behind the requests, for any mails, workers and   *)
(* number of failures: what became of a mail that was acknowledged, and     *)
(* that no copy is without its cause.  Of the audit trail, for any jobs and *)
(* any capacity: what is on disk.                                           *)
(***************************************************************************)
EXTENDS Background, TLAPS, SequenceTheorems, FiniteSetTheorems

----------------------------------------------------------------------------
(* Mail: the strengthening *)

Outcomes == {"", "sent", "failed", "buried"}

MailTyped ==
  /\ stream \in Seq(Mails) /\ inbox \in Seq(Nat) /\ causes \in Seq(Nat)
  /\ Len(inbox) = Len(stream) /\ Len(causes) = Len(stream)
  /\ group \in 0..Len(stream)
  /\ DOMAIN pending \subseteq 1..group
  /\ hands \in [Workers -> Seq(1..group)] /\ tries \in [Workers -> Nat] /\ outcome \in [Workers -> Outcomes]
  /\ asked \in [Mails -> {"new", "retrying", "answered"}]
  /\ acked \subseteq 1..group /\ dlq \subseteq 1..group

\* No entry is twice in a batch, and only the first one has an outcome.
Batches ==
  \A w \in Workers :
    /\ hands[w] = <<>> => outcome[w] = ""
    /\ \A i, j \in DOMAIN hands[w] : hands[w][i] = hands[w][j] => i = j

\* What an outcome stands for.
Outcome ==
  \A w \in Workers :
    /\ outcome[w] = "sent" => inbox[Head(hands[w])] > 0
    /\ outcome[w] = "buried" => Head(hands[w]) \in dlq

Settled == \A e \in acked : inbox[e] > 0 \/ e \in dlq

\* The workers that may still send an entry.
Open(e) == {w \in Workers : \E i \in DOMAIN hands[w] : hands[w][i] = e /\ (i = 1 => outcome[w] = "")}

\* The copies there are and those that may come have their causes.
Owed(e) == IsFiniteSet(Open(e)) /\ inbox[e] + Cardinality(Open(e)) <= 1 + causes[e]

Copies ==
  /\ \A e \in 1..group : Owed(e)
  /\ \A e \in DOMAIN stream : e > group => inbox[e] = 0

MailInv == MailTyped /\ Batches /\ Outcome /\ Settled /\ Copies

LEMMA HeldFacts ==
  ASSUME MailInv, NEW w \in Workers, hands[w] # <<>>
  PROVE  /\ Head(hands[w]) = hands[w][1] /\ 1 \in DOMAIN hands[w]
         /\ Head(hands[w]) \in 1..group /\ Head(hands[w]) \in DOMAIN stream
         /\ Tail(hands[w]) \in Seq(1..group)
         /\ Len(Tail(hands[w])) = Len(hands[w]) - 1
         /\ \A i \in 1..Len(Tail(hands[w])) : Tail(hands[w])[i] = hands[w][i + 1]
  <1>1. hands[w] \in Seq(1..group) /\ stream \in Seq(Mails) /\ group \in 0..Len(stream)
    BY DEF MailInv, MailTyped
  <1>2. Len(hands[w]) \in Nat \ {0} /\ DOMAIN hands[w] = 1..Len(hands[w]) /\ DOMAIN stream = 1..Len(stream)
    BY <1>1, EmptySeq, LenProperties
  <1>3. /\ Tail(hands[w]) \in Seq(1..group)
        /\ Len(Tail(hands[w])) = Len(hands[w]) - 1
        /\ \A i \in 1..Len(Tail(hands[w])) : Tail(hands[w])[i] = hands[w][i + 1]
    BY <1>1, HeadTailProperties
  <1>4. hands[w][1] \in 1..group
    BY <1>1, <1>2, ElementOfSeq
  <1>5. Head(hands[w]) = hands[w][1]
    BY <1>1
  <1>6. QED
    BY <1>1, <1>2, <1>3, <1>4, <1>5

\* Copies and causes are counted for every entry.
LEMMA Counted ==
  ASSUME MailTyped, NEW e \in 1..group
  PROVE  e \in DOMAIN stream /\ e \in DOMAIN inbox /\ e \in DOMAIN causes /\ inbox[e] \in Nat /\ causes[e] \in Nat
  <1>1. e \in 1..Len(stream) /\ e \in 1..Len(inbox) /\ e \in 1..Len(causes)
    BY LenProperties DEF MailTyped
  <1>2. QED
    BY <1>1, ElementOfSeq, LenProperties DEF MailTyped

LEMMA CountedNext ==
  ASSUME MailTyped', NEW e \in 1..group'
  PROVE  e \in DOMAIN stream' /\ inbox'[e] \in Nat /\ causes'[e] \in Nat
  <1>1. e \in 1..Len(stream') /\ e \in 1..Len(inbox') /\ e \in 1..Len(causes')
    BY LenProperties DEF MailTyped
  <1>2. QED
    BY <1>1, ElementOfSeq, LenProperties DEF MailTyped

\* One of the counts goes up.
LEMMA Incremented ==
  ASSUME NEW s \in Seq(Nat), NEW t, NEW e \in 1..Len(s), t = [s EXCEPT ![e] = @ + 1]
  PROVE  /\ t \in Seq(Nat) /\ Len(t) = Len(s) /\ t[e] = s[e] + 1
         /\ \A j \in 1..Len(s) : j # e => t[j] = s[j]
  <1>1. s[e] \in Nat
    BY ElementOfSeq
  <1>2. s[e] + 1 \in Nat
    BY <1>1
  <1>3. t = [s EXCEPT ![e] = s[e] + 1]
    OBVIOUS
  <1>4. QED
    BY <1>2, <1>3, ExceptSeq

\* With no more workers and no more copies than causes, an entry stays owed.
LEMMA OwedStays ==
  ASSUME MailTyped, MailTyped', NEW e \in 1..group, e \in 1..group', Owed(e), Open(e)' \subseteq Open(e),
         inbox'[e] + causes[e] <= inbox[e] + causes'[e]
  PROVE  Owed(e)'
  <1>1. IsFiniteSet(Open(e)') /\ Cardinality(Open(e)') <= Cardinality(Open(e))
    BY FS_Subset DEF Owed
  <1>2. Cardinality(Open(e)') \in Nat /\ Cardinality(Open(e)) \in Nat
    BY <1>1, FS_CardinalityType DEF Owed
  <1>3. inbox[e] \in Nat /\ causes[e] \in Nat
    BY Counted
  <1>4. inbox'[e] \in Nat /\ causes'[e] \in Nat
    BY CountedNext
  <1>5. QED
    BY <1>1, <1>2, <1>3, <1>4 DEF Owed

\* One worker less may send, one copy more is there.
LEMMA OwedSent ==
  ASSUME MailTyped, NEW e \in 1..group, Owed(e), NEW w \in Open(e), Open(e)' \subseteq Open(e) \ {w},
         inbox'[e] = inbox[e] + 1, causes'[e] = causes[e]
  PROVE  Owed(e)'
  <1>1. IsFiniteSet(Open(e) \ {w}) /\ Cardinality(Open(e) \ {w}) = Cardinality(Open(e)) - 1
    BY FS_RemoveElement DEF Owed
  <1>2. IsFiniteSet(Open(e)') /\ Cardinality(Open(e)') <= Cardinality(Open(e) \ {w})
    BY <1>1, FS_Subset
  <1>3. Cardinality(Open(e)') \in Nat /\ Cardinality(Open(e)) \in Nat
    BY <1>2, FS_CardinalityType DEF Owed
  <1>4. inbox[e] \in Nat /\ causes[e] \in Nat
    BY Counted
  <1>5. QED
    BY <1>1, <1>2, <1>3, <1>4 DEF Owed

\* One worker more may send, and there is a cause.
LEMMA OwedClaimed ==
  ASSUME MailTyped, NEW e \in 1..group, Owed(e), NEW w, Open(e)' \subseteq Open(e) \cup {w},
         inbox'[e] = inbox[e], causes'[e] = causes[e] + 1
  PROVE  Owed(e)'
  <1>1. IsFiniteSet(Open(e) \cup {w}) /\ Cardinality(Open(e) \cup {w}) <= Cardinality(Open(e)) + 1
    <2>1. CASE w \in Open(e)
      <3>1. Open(e) \cup {w} = Open(e)
        BY <2>1
      <3>2. Cardinality(Open(e)) \in Nat
        BY FS_CardinalityType DEF Owed
      <3>3. QED
        BY <3>1, <3>2 DEF Owed
    <2>2. CASE w \notin Open(e)
      <3>1. IsFiniteSet(Open(e) \cup {w}) /\ Cardinality(Open(e) \cup {w}) = Cardinality(Open(e)) + 1
        BY <2>2, FS_AddElement DEF Owed
      <3>2. Cardinality(Open(e)) \in Nat
        BY FS_CardinalityType DEF Owed
      <3>3. QED
        BY <3>1, <3>2
    <2>3. QED
      BY <2>1, <2>2
  <1>2. IsFiniteSet(Open(e)') /\ Cardinality(Open(e)') <= Cardinality(Open(e) \cup {w})
    BY <1>1, FS_Subset
  <1>3. /\ Cardinality(Open(e)') \in Nat /\ Cardinality(Open(e)) \in Nat
        /\ Cardinality(Open(e) \cup {w}) \in Nat
    BY <1>1, <1>2, FS_CardinalityType DEF Owed
  <1>4. inbox[e] \in Nat /\ causes[e] \in Nat
    BY Counted
  <1>5. QED
    BY <1>1, <1>2, <1>3, <1>4 DEF Owed

\* A step of one worker leaves the others alone.
LEMMA OpenOfOthers ==
  ASSUME NEW w \in Workers, NEW e,
         \A v \in Workers : v # w => hands'[v] = hands[v] /\ outcome'[v] = outcome[v]
  PROVE  /\ Open(e)' \subseteq Open(e) \cup {w}
         /\ w \in Open(e) \/ w \notin Open(e)' => Open(e)' \subseteq Open(e)
         /\ w \notin Open(e)' => Open(e)' \subseteq Open(e) \ {w}
  BY DEF Open

----------------------------------------------------------------------------
(* Mail: the steps *)

\* What a worker turns to.
LEMMA Held ==
  ASSUME MailTyped, NEW w \in Workers, NEW batch, E!Hold(w, batch)
  PROVE  /\ hands'[w] = batch /\ outcome'[w] = "" /\ tries'[w] = 0
         /\ \A v \in Workers : v # w => hands'[v] = hands[v] /\ outcome'[v] = outcome[v]
         /\ outcome' \in [Workers -> Outcomes] /\ tries' \in [Workers -> Nat]
         /\ \A S : hands \in [Workers -> S] /\ batch \in S => hands' \in [Workers -> S]
  BY DEF E!Hold, MailTyped, Outcomes

\* What a worker has after a step of its own.
Works(w) ==
  /\ \A v \in Workers : v # w => hands'[v] = hands[v] /\ outcome'[v] = outcome[v]
  /\ hands'[w] = <<>> => outcome'[w] = ""
  /\ \A i, j \in DOMAIN hands'[w] : hands'[w][i] = hands'[w][j] => i = j
  /\ outcome'[w] = "sent" => inbox'[Head(hands'[w])] > 0
  /\ outcome'[w] = "buried" => Head(hands'[w]) \in dlq'

\* A step that delivers nothing and adds no job.
LEMMA WorkStep ==
  ASSUME MailInv, MailTyped', UNCHANGED <<stream, group>>, NEW w \in Workers, Works(w),
         dlq \subseteq dlq', \A e \in 1..group : inbox[e] <= inbox'[e],
         \A e \in acked' : e \in acked \/ inbox[e] > 0 \/ e \in dlq,
         \A e \in DOMAIN stream : e > group => inbox'[e] = inbox[e],
         \A e \in 1..group : Owed(e)'
  PROVE  MailInv'
  <1>1. \A e \in 1..group : inbox[e] \in Nat /\ inbox'[e] \in Nat
    <2>1. TAKE e \in 1..group
    <2>2. inbox[e] \in Nat
      BY Counted DEF MailInv
    <2>3. inbox'[e] \in Nat
      BY CountedNext
    <2>4. QED
      BY <2>2, <2>3
  <1>2. acked \subseteq 1..group /\ acked' \subseteq 1..group
    BY DEF MailInv, MailTyped
  <1>3. Settled'
    <2>1. ASSUME NEW e \in acked' PROVE inbox'[e] > 0 \/ e \in dlq'
      <3>1. e \in 1..group
        BY <1>2
      <3>2. inbox[e] > 0 \/ e \in dlq
        BY <2>1 DEF MailInv, Settled
      <3>3. inbox[e] \in Nat /\ inbox'[e] \in Nat /\ inbox[e] <= inbox'[e]
        BY <1>1, <3>1
      <3>4. QED
        BY <3>2, <3>3
    <2>2. QED
      BY <2>1 DEF Settled
  <1>4. Batches'
    BY DEF MailInv, Batches, Works
  <1>5. Outcome'
    <2> SUFFICES ASSUME NEW v \in Workers
                 PROVE  /\ outcome'[v] = "sent" => inbox'[Head(hands'[v])] > 0
                        /\ outcome'[v] = "buried" => Head(hands'[v]) \in dlq'
      BY DEF Outcome
    <2>1. CASE v = w
      BY <2>1 DEF Works
    <2>2. CASE v # w /\ outcome'[v] \in {"sent", "buried"}
      <3>1. hands[v] # <<>> /\ hands'[v] = hands[v] /\ outcome'[v] = outcome[v]
        BY <2>2 DEF MailInv, Batches, Works
      <3>2. PICK h : h = Head(hands[v])
        OBVIOUS
      <3>3. h \in 1..group
        BY <3>1, <3>2, HeldFacts
      <3>4. /\ outcome[v] = "sent" => inbox[h] > 0
            /\ outcome[v] = "buried" => h \in dlq
        BY <3>2 DEF MailInv, Outcome
      <3>5. inbox[h] \in Nat /\ inbox'[h] \in Nat /\ inbox[h] <= inbox'[h]
        BY <1>1, <3>3
      <3>6. QED
        <4>1. Head(hands'[v]) = h
          BY <3>1, <3>2
        <4>2. inbox[h] > 0 => inbox'[h] > 0
          BY <3>5
        <4>3. QED
          BY <3>1, <3>4, <4>1, <4>2
    <2>3. QED
      BY <2>1, <2>2
  <1>6. Copies'
    BY DEF MailInv, Copies
  <1>7. QED
    BY <1>3, <1>4, <1>5, <1>6 DEF MailInv

LEMMA AddedInv ==
  ASSUME MailInv, NEW m \in Mails, E!Added(m) \/ UNCHANGED <<stream, inbox, causes>>,
         asked' \in [Mails -> {"new", "retrying", "answered"}],
         UNCHANGED <<group, pending, acked, dlq, hands, tries, outcome>>
  PROVE  MailInv'
  <1>1. /\ stream \in Seq(Mails) /\ inbox \in Seq(Nat) /\ causes \in Seq(Nat)
        /\ Len(inbox) = Len(stream) /\ Len(causes) = Len(stream) /\ group \in 0..Len(stream)
    BY DEF MailInv, MailTyped
  <1>2. /\ stream' \in Seq(Mails) /\ inbox' \in Seq(Nat) /\ causes' \in Seq(Nat)
        /\ Len(inbox') = Len(stream') /\ Len(causes') = Len(stream')
        /\ \/ Len(stream') = Len(stream) + 1 /\ inbox'[Len(stream) + 1] = 0
           \/ Len(stream') = Len(stream)
        /\ \A e \in 1..Len(stream) : inbox'[e] = inbox[e] /\ causes'[e] = causes[e]
    <2>1. CASE UNCHANGED <<stream, inbox, causes>>
      BY <1>1, <2>1
    <2>2. CASE E!Added(m)
      <3>1. stream' \in Seq(Mails) /\ Len(stream') = Len(stream) + 1
        BY <1>1, <2>2, AppendProperties DEF E!Added
      <3>2. 0 \in Nat
        OBVIOUS
      <3>3. /\ inbox' \in Seq(Nat) /\ Len(inbox') = Len(inbox) + 1 /\ inbox'[Len(inbox) + 1] = 0
            /\ \A e \in 1..Len(inbox) : inbox'[e] = inbox[e]
        BY <1>1, <2>2, <3>2, AppendProperties DEF E!Added
      <3>4. /\ causes' \in Seq(Nat) /\ Len(causes') = Len(causes) + 1
            /\ \A e \in 1..Len(causes) : causes'[e] = causes[e]
        BY <1>1, <2>2, <3>2, AppendProperties DEF E!Added
      <3>5. QED
        BY <1>1, <3>1, <3>3, <3>4
    <2>3. QED
      BY <2>1, <2>2
  <1>0. Len(stream) \in Nat /\ Len(stream') \in Nat /\ group \in Nat
    BY <1>1, <1>2, LenProperties
  <1>3. MailTyped'
    <2>1. group' \in 0..Len(stream')
      BY <1>0, <1>1, <1>2
    <2>2. QED
      BY <1>2, <2>1 DEF MailInv, MailTyped
  <1>4. \A e \in 1..group : e \in 1..Len(stream)
    BY <1>1, LenProperties
  <1>5. Batches' /\ \A e : Open(e)' = Open(e)
    BY DEF MailInv, Batches, Open
  <1>6. \A v \in Workers : outcome[v] = "sent" => Head(hands[v]) \in 1..group
    BY HeldFacts DEF MailInv, Batches
  <1>7. Outcome'
    BY <1>2, <1>4, <1>6 DEF MailInv, Outcome
  <1>8. Settled'
    BY <1>2, <1>4 DEF MailInv, Settled, MailTyped
  <1>9. \A e \in 1..group : Owed(e)'
    BY <1>2, <1>4, <1>5 DEF MailInv, Copies, Owed
  <1>10. \A e \in DOMAIN stream' : e > group => inbox'[e] = 0
    <2>1. DOMAIN stream' = 1..Len(stream') /\ DOMAIN stream = 1..Len(stream)
      BY <1>1, <1>2, LenProperties
    <2>2. ASSUME NEW e \in 1..Len(stream'), e > group PROVE inbox'[e] = 0
      <3>1. e \in 1..Len(stream) \/ (e = Len(stream) + 1 /\ inbox'[Len(stream) + 1] = 0)
        BY <1>0, <1>2
      <3>2. e \in 1..Len(stream) => inbox[e] = 0
        BY <2>1, <2>2 DEF MailInv, Copies
      <3>3. QED
        BY <1>2, <3>1, <3>2
    <2>3. QED
      BY <2>1, <2>2
  <1>11. QED
    BY <1>3, <1>5, <1>7, <1>8, <1>9, <1>10 DEF MailInv, Copies

LEMMA ReadBatchInv ==
  ASSUME MailInv, NEW w \in Workers, E!ReadBatch(w)
  PROVE  MailInv'
  <1>1. PICK n \in Nat : n = IF Len(stream) - group < Batch THEN Len(stream) - group ELSE Batch
    BY BackgroundAssumption, LenProperties DEF MailInv, MailTyped
  <1>2. PICK batch : batch = [i \in 1..n |-> group + i]
    OBVIOUS
  <1>3. /\ hands[w] = <<>> /\ n > 0 /\ group' = group + n /\ E!Hold(w, batch)
        /\ DOMAIN pending' = DOMAIN pending \cup E!ToSet(batch)
        /\ UNCHANGED <<asked, stream, acked, dlq, inbox, causes, faults>>
    BY <1>1, <1>2 DEF E!ReadBatch, E!Idle
  <1>4. group \in Nat /\ Len(stream) \in Nat /\ group + n <= Len(stream)
    BY <1>1, BackgroundAssumption, LenProperties DEF MailInv, MailTyped
  <1>5. batch \in Seq(1..group') /\ Len(batch) = n /\ E!ToSet(batch) \subseteq 1..group'
    BY <1>2, <1>3, <1>4, SeqDef DEF E!ToSet
  <1>6. MailTyped
    BY DEF MailInv
  <1>7. 1..group \subseteq 1..group' /\ group' \in 0..Len(stream')
    BY <1>3, <1>4
  <1>8. hands \in [Workers -> Seq(1..group')]
    <2>1. \A v \in Workers : hands[v] \in Seq(1..group)
      BY <1>6 DEF MailTyped
    <2>2. \A S, T : S \subseteq T => Seq(S) \subseteq Seq(T)
      BY SeqDef
    <2>3. \A v \in Workers : hands[v] \in Seq(1..group')
      BY <1>7, <2>1, <2>2
    <2>4. QED
      BY <1>6, <2>3 DEF MailTyped
  <1>9. /\ hands'[w] = batch /\ outcome'[w] = ""
        /\ \A v \in Workers : v # w => hands'[v] = hands[v] /\ outcome'[v] = outcome[v]
        /\ outcome' \in [Workers -> Outcomes] /\ tries' \in [Workers -> Nat]
        /\ hands' \in [Workers -> Seq(1..group')]
    BY <1>3, <1>5, <1>6, <1>8, Held
  <1>10. MailTyped'
    BY <1>3, <1>5, <1>6, <1>7, <1>9 DEF MailTyped
  <1>11. Batches'
    <2>1. \A i, j \in DOMAIN batch : batch[i] = batch[j] => i = j
      BY <1>2, <1>4
    <2> SUFFICES ASSUME NEW v \in Workers
                 PROVE  /\ hands'[v] = <<>> => outcome'[v] = ""
                        /\ \A i, j \in DOMAIN hands'[v] : hands'[v][i] = hands'[v][j] => i = j
      BY DEF Batches
    <2>2. CASE v = w
      BY <1>9, <2>1, <2>2
    <2>3. CASE v # w
      BY <1>9, <2>3 DEF MailInv, Batches
    <2>4. QED
      BY <2>2, <2>3
  <1>12. Outcome' /\ Settled'
    BY <1>3, <1>9 DEF MailInv, Outcome, Settled
  <1>13. ASSUME NEW e \in 1..group' PROVE Owed(e)'
    <2>1. CASE e <= group
      <3>1. \A i \in DOMAIN batch : batch[i] # e
        BY <1>2, <1>4, <2>1
      <3>2. w \notin Open(e)'
        BY <1>9, <3>1 DEF Open
      <3>3. Open(e)' \subseteq Open(e)
        BY <1>9, <3>2, OpenOfOthers
      <3>4. e \in 1..group /\ inbox[e] \in Nat /\ causes[e] \in Nat
        BY <1>4, <1>6, <2>1, Counted
      <3>5. QED
        BY <1>3, <1>6, <1>10, <3>3, <3>4, OwedStays DEF MailInv, Copies
    <2>2. CASE e > group
      <3>1. e \in DOMAIN stream
        BY <1>3, <1>4, <1>6, <2>2, LenProperties DEF MailTyped
      <3>2. inbox[e] = 0
        BY <2>2, <3>1 DEF MailInv, Copies
      <3>3. \A v \in Workers : \A i \in DOMAIN hands[v] : hands[v][i] # e
        <4>1. TAKE v \in Workers
        <4>2. hands[v] \in Seq(1..group)
          BY <1>6 DEF MailTyped
        <4>3. \A i \in DOMAIN hands[v] : hands[v][i] \in 1..group
          BY <4>2, ElementOfSeq, LenProperties
        <4>4. QED
          BY <1>4, <2>2, <4>3
      <3>4. Open(e)' \subseteq {w}
        BY <1>9, <3>3 DEF Open
      <3>5. IsFiniteSet({w}) /\ Cardinality({w}) = 1
        BY FS_Singleton
      <3>6. IsFiniteSet(Open(e)') /\ Cardinality(Open(e)') <= 1
        BY <3>4, <3>5, FS_Subset
      <3>7. causes'[e] \in Nat /\ inbox'[e] = 0 /\ Cardinality(Open(e)') \in Nat
        BY <1>3, <1>10, <3>2, <3>6, CountedNext, FS_CardinalityType
      <3>8. QED
        BY <3>6, <3>7 DEF Owed
    <2>3. QED
      BY <1>4, <2>1, <2>2
  <1>14. \A e \in DOMAIN stream' : e > group' => inbox'[e] = 0
    <2>1. \A e \in DOMAIN stream : e \in Nat
      BY <1>6, LenProperties DEF MailTyped
    <2>2. QED
      BY <1>3, <1>4, <2>1 DEF MailInv, Copies
  <1>15. QED
    BY <1>10, <1>11, <1>12, <1>13, <1>14 DEF MailInv, Copies

\* Both ways an entry comes to a worker that is free.
LEMMA ClaimInv ==
  ASSUME MailInv, NEW w \in Workers, NEW e \in DOMAIN pending, E!Idle(w),
         E!Hold(w, <<e>>), causes' = [causes EXCEPT ![e] = @ + 1], DOMAIN pending' = DOMAIN pending,
         UNCHANGED <<asked, stream, group, acked, dlq, inbox>>
  PROVE  MailInv'
  <1>1. MailTyped
    BY DEF MailInv
  <1>2. e \in 1..group
    BY <1>1 DEF MailTyped
  <1>3. e \in DOMAIN causes /\ causes[e] \in Nat
    BY <1>1, <1>2, Counted
  <1>4. /\ causes' \in Seq(Nat) /\ Len(causes') = Len(causes) /\ causes'[e] = causes[e] + 1
        /\ \A j \in DOMAIN causes : j # e => causes'[j] = causes[j]
    <2>1. causes \in Seq(Nat) /\ DOMAIN causes = 1..Len(causes)
      BY <1>1, LenProperties DEF MailTyped
    <2>2. QED
      BY <1>3, <2>1, Incremented
  <1>5. <<e>> \in Seq(1..group) /\ Len(<<e>>) = 1 /\ DOMAIN <<e>> = {1} /\ <<e>>[1] = e /\ <<e>> # <<>>
    BY <1>2
  <1>6. /\ hands'[w] = <<e>> /\ outcome'[w] = ""
        /\ \A v \in Workers : v # w => hands'[v] = hands[v] /\ outcome'[v] = outcome[v]
        /\ outcome' \in [Workers -> Outcomes] /\ tries' \in [Workers -> Nat]
        /\ hands' \in [Workers -> Seq(1..group)]
    BY <1>1, <1>5, Held DEF MailTyped
  <1>7. MailTyped'
    BY <1>1, <1>4, <1>6 DEF MailTyped
  <1>8. \A d \in 1..group : inbox[d] <= inbox'[d]
    BY <1>1, Counted
  <1>9. ASSUME NEW d \in 1..group PROVE Owed(d)'
    <2>1. Owed(d) /\ inbox[d] \in Nat /\ causes[d] \in Nat /\ d \in DOMAIN causes
      BY <1>1, Counted DEF MailInv, Copies
    <2>2. CASE d = e
      <3>1. Open(d)' \subseteq Open(d) \cup {w}
        BY <1>6, OpenOfOthers
      <3>2. QED
        BY <1>1, <1>4, <2>1, <2>2, <3>1, OwedClaimed
    <2>3. CASE d # e
      <3>1. w \notin Open(d)'
        BY <1>5, <1>6, <2>3 DEF Open
      <3>2. Open(d)' \subseteq Open(d)
        BY <1>6, <3>1, OpenOfOthers
      <3>3. QED
        BY <1>1, <1>4, <1>7, <2>1, <2>3, <3>2, OwedStays
    <2>4. QED
      BY <2>2, <2>3
  <1>10. \A i, j \in DOMAIN hands'[w] : hands'[w][i] = hands'[w][j] => i = j
    <2>1. \A i \in DOMAIN <<e>> : i = 1
      BY <1>5
    <2>2. QED
      BY <1>6, <2>1
  <1>11. \A d \in acked' : d \in acked
    OBVIOUS
  <1>12. hands'[w] # <<>>
    BY <1>5, <1>6
  <1>13. Works(w)
    BY <1>6, <1>10, <1>12 DEF Works
  <1>14. QED
    BY <1>1, <1>7, <1>8, <1>9, <1>11, <1>13, WorkStep

\* The mail server takes a copy, and the worker knows or does not.
LEMMA SendInv ==
  ASSUME MailInv, NEW w \in Workers, E!Send(w) \/ E!SendFails(w)
  PROVE  MailInv'
  <1>1. MailTyped /\ hands[w] # <<>> /\ outcome[w] = ""
    BY DEF MailInv, E!Send, E!SendFails, E!Idle
  <1>2. PICK e : e = Head(hands[w])
    OBVIOUS
  <1>3. e = hands[w][1] /\ 1 \in DOMAIN hands[w] /\ e \in 1..group
    BY <1>1, <1>2, HeldFacts
  <1>4. /\ UNCHANGED <<asked, stream, group, pending, acked, dlq, hands>>
        /\ outcome' \in [Workers -> Outcomes] /\ tries' \in [Workers -> Nat]
        /\ \A v \in Workers : v # w => outcome'[v] = outcome[v]
        /\ outcome'[w] # "buried"
    <2>1. CASE E!Send(w)
      BY <1>1, <2>1 DEF E!Send, MailTyped, Outcomes, E!redis
    <2>2. CASE E!SendFails(w)
      <3>1. /\ tries' = [tries EXCEPT ![w] = tries[w] + 1]
            /\ outcome' = [outcome EXCEPT ![w] = IF tries[w] = RetryMax THEN "failed" ELSE ""]
            /\ UNCHANGED <<asked, stream, group, pending, acked, dlq, hands>>
        BY <2>2 DEF E!SendFails, E!redis
      <3>2. tries' \in [Workers -> Nat]
        <4>1. tries \in [Workers -> Nat] /\ tries[w] \in Nat
          BY <1>1 DEF MailTyped
        <4>2. tries[w] + 1 \in Nat
          BY <4>1
        <4>3. QED
          BY <3>1, <4>1, <4>2
      <3>3. QED
        BY <1>1, <3>1, <3>2 DEF MailTyped, Outcomes
    <2>3. QED
      BY <2>1, <2>2
  <1>5. \/ /\ inbox' = [inbox EXCEPT ![e] = @ + 1] /\ causes' = causes /\ outcome'[w] = "sent"
        \/ inbox' = inbox /\ causes' = causes /\ outcome'[w] # "sent"
        \/ /\ inbox' = [inbox EXCEPT ![e] = @ + 1] /\ causes' = [causes EXCEPT ![e] = @ + 1]
           /\ outcome'[w] # "sent"
    BY <1>1, <1>2 DEF E!Send, E!SendFails, MailTyped
  <1>6. /\ inbox \in Seq(Nat) /\ causes \in Seq(Nat) /\ e \in 1..Len(inbox) /\ e \in 1..Len(causes)
        /\ inbox[e] \in Nat /\ causes[e] \in Nat /\ inbox[e] + 1 \in Nat /\ causes[e] + 1 \in Nat
    <2>1. /\ inbox \in Seq(Nat) /\ causes \in Seq(Nat)
          /\ DOMAIN inbox = 1..Len(inbox) /\ DOMAIN causes = 1..Len(causes)
      BY <1>1, LenProperties DEF MailTyped
    <2>2. e \in DOMAIN inbox /\ e \in DOMAIN causes /\ inbox[e] \in Nat /\ causes[e] \in Nat
      BY <1>1, <1>3, Counted
    <2>3. QED
      BY <2>1, <2>2
  <1>7. /\ inbox' \in Seq(Nat) /\ Len(inbox') = Len(inbox)
        /\ causes' \in Seq(Nat) /\ Len(causes') = Len(causes)
        /\ \A d \in DOMAIN inbox : d # e => inbox'[d] = inbox[d]
        /\ \A d \in DOMAIN causes : d # e => causes'[d] = causes[d]
        /\ \/ inbox'[e] = inbox[e] + 1 /\ causes'[e] = causes[e] /\ outcome'[w] = "sent"
           \/ inbox'[e] = inbox[e] /\ causes'[e] = causes[e] /\ outcome'[w] # "sent"
           \/ inbox'[e] = inbox[e] + 1 /\ causes'[e] = causes[e] + 1 /\ outcome'[w] # "sent"
    <2>1. DOMAIN inbox = 1..Len(inbox) /\ DOMAIN causes = 1..Len(causes)
      BY <1>6, LenProperties
    <2>2. inbox' = [inbox EXCEPT ![e] = @ + 1] =>
            /\ inbox' \in Seq(Nat) /\ Len(inbox') = Len(inbox) /\ inbox'[e] = inbox[e] + 1
            /\ \A d \in 1..Len(inbox) : d # e => inbox'[d] = inbox[d]
      BY <1>6, Incremented
    <2>3. causes' = [causes EXCEPT ![e] = @ + 1] =>
            /\ causes' \in Seq(Nat) /\ Len(causes') = Len(causes) /\ causes'[e] = causes[e] + 1
            /\ \A d \in 1..Len(causes) : d # e => causes'[d] = causes[d]
      BY <1>6, Incremented
    <2>4. QED
      BY <1>5, <1>6, <2>1, <2>2, <2>3
  <1>8. MailTyped'
    BY <1>1, <1>4, <1>7 DEF MailTyped
  <1>9. /\ inbox'[e] = inbox[e] \/ inbox'[e] = inbox[e] + 1
        /\ outcome'[w] = "sent" => inbox'[e] = inbox[e] + 1 /\ causes'[e] = causes[e]
        /\ inbox'[e] = inbox[e] \/ causes'[e] = causes[e] + 1 \/ outcome'[w] = "sent"
        /\ causes'[e] = causes[e] \/ causes'[e] = causes[e] + 1
    BY <1>7
  <1>10. inbox[e] <= inbox'[e] /\ (inbox'[e] = inbox[e] + 1 => inbox'[e] > 0)
    BY <1>6, <1>9
  <1>11. \A d \in 1..group : inbox[d] <= inbox'[d]
    <2>1. TAKE d \in 1..group
    <2>2. inbox[d] \in Nat /\ d \in DOMAIN inbox
      BY <1>1, Counted
    <2>3. d # e => inbox'[d] = inbox[d]
      BY <1>7, <2>2
    <2>4. QED
      BY <1>10, <2>2, <2>3
  <1>12. outcome'[w] = "sent" => inbox'[Head(hands'[w])] > 0
    <2>1. outcome'[w] = "sent" => inbox'[e] > 0
      BY <1>9, <1>10
    <2>2. QED
      BY <1>2, <1>4, <2>1
  <1>13. \A d \in DOMAIN stream : d > group => inbox'[d] = inbox[d]
    <2>1. TAKE d \in DOMAIN stream
    <2>2. /\ stream \in Seq(Mails) /\ inbox \in Seq(Nat) /\ Len(inbox) = Len(stream)
           /\ group \in 0..Len(stream)
      BY <1>1 DEF MailTyped
    <2>3. d \in DOMAIN inbox /\ d \in Nat /\ group \in Nat
      BY <2>2, LenProperties
    <2>4. QED
      BY <1>3, <1>7, <2>3
  <1>14. ASSUME NEW d \in 1..group PROVE Owed(d)'
    <2>1. Owed(d) /\ inbox[d] \in Nat /\ causes[d] \in Nat /\ d \in DOMAIN inbox /\ d \in DOMAIN causes
      BY <1>1, Counted DEF MailInv, Copies
    <2>2. w \in Open(d)' => w \in Open(d)
      BY <1>1, <1>4 DEF Open
    <2>3. Open(d)' \subseteq Open(d)
      BY <1>4, <2>2, OpenOfOthers
    <2>4. CASE inbox'[d] + causes[d] <= inbox[d] + causes'[d]
      BY <1>1, <1>4, <1>8, <2>1, <2>3, <2>4, OwedStays
    <2>5. CASE ~(inbox'[d] + causes[d] <= inbox[d] + causes'[d])
      <3>1. d = e /\ inbox'[e] = inbox[e] + 1 /\ causes'[e] = causes[e] /\ outcome'[w] = "sent"
        <4>1. d # e => inbox'[d] = inbox[d] /\ causes'[d] = causes[d]
          BY <1>7, <2>1
        <4>2. d = e
          BY <2>1, <2>5, <4>1
        <4>3. QED
          <5>1. CASE inbox'[e] = inbox[e]
            BY <1>6, <1>9, <2>5, <4>2, <5>1
          <5>2. CASE inbox'[e] = inbox[e] + 1 /\ causes'[e] = causes[e] + 1
            BY <1>6, <2>5, <4>2, <5>2
          <5>3. QED
            BY <1>9, <4>2, <5>1, <5>2
      <3>2. w \in Open(e)
        BY <1>1, <1>3 DEF Open
      <3>3. w \notin Open(e)'
        <4>1. \A i \in DOMAIN hands[w] : hands[w][i] = e => i = 1
          BY <1>3 DEF MailInv, Batches
        <4>2. QED
          BY <1>4, <3>1, <4>1 DEF Open
      <3>4. Open(e)' \subseteq Open(e) \ {w}
        BY <1>4, <3>3, OpenOfOthers
      <3>5. QED
        BY <1>1, <2>1, <3>1, <3>2, <3>4, OwedSent
    <2>6. QED
      BY <2>4, <2>5
  <1>15. Works(w)
    BY <1>1, <1>4, <1>12 DEF Works, MailInv, Batches
  <1>16. QED
    BY <1>1, <1>4, <1>8, <1>11, <1>13, <1>14, <1>15, WorkStep

\* The worker gives a mail up, or has buried it.
LEMMA GivenUpInv ==
  ASSUME MailInv, NEW w \in Workers, E!BuildFails(w) \/ E!Bury(w)
  PROVE  MailInv'
  <1>1. MailTyped /\ hands[w] # <<>>
    BY DEF MailInv, E!BuildFails, E!Bury, E!Idle, Batches
  <1>2. PICK e : e = Head(hands[w])
    OBVIOUS
  <1>3. e \in 1..group
    BY <1>1, <1>2, HeldFacts
  <1>4. /\ UNCHANGED <<asked, stream, group, pending, acked, hands, tries, inbox, causes>>
        /\ outcome' \in [Workers -> Outcomes]
        /\ \A v \in Workers : v # w => outcome'[v] = outcome[v]
        /\ dlq \subseteq dlq' /\ dlq' \subseteq dlq \cup {e}
        /\ outcome'[w] \in {"failed", "buried"}
        /\ outcome'[w] = "buried" => e \in dlq'
    BY <1>1, <1>2 DEF E!BuildFails, E!Bury, MailTyped, Outcomes, E!redis
  <1>5. MailTyped'
    BY <1>1, <1>3, <1>4 DEF MailTyped
  <1>6. ASSUME NEW d \in 1..group PROVE Owed(d)'
    <2>1. Owed(d) /\ inbox[d] \in Nat /\ causes[d] \in Nat
      BY <1>1, Counted DEF MailInv, Copies
    <2>2. \/ outcome[w] = "" \/ outcome[w] = "failed"
      BY DEF E!BuildFails, E!Bury
    <2>3. w \in Open(d)' => w \in Open(d)
      BY <1>4 DEF Open
    <2>4. Open(d)' \subseteq Open(d)
      BY <1>4, <2>3, OpenOfOthers
    <2>5. QED
      BY <1>1, <1>4, <1>5, <2>1, <2>4, OwedStays
  <1>7. \A d \in 1..group : inbox[d] <= inbox'[d]
    BY <1>1, <1>4, Counted
  <1>8. Works(w)
    BY <1>1, <1>2, <1>4 DEF Works, MailInv, Batches
  <1>9. QED
    BY <1>1, <1>4, <1>5, <1>6, <1>7, <1>8, WorkStep

Rest(w, rest) == hands[w] # <<>> /\ (rest = Tail(hands[w]) \/ rest = <<>>)

\* The worker goes on to the next entry of its batch, or has lost the batch.
LEMMA TurnedInv ==
  ASSUME MailInv, NEW w \in Workers, NEW rest, Rest(w, rest), E!Hold(w, rest), DOMAIN pending' \subseteq DOMAIN pending,
         \A e \in acked' : e \in acked \/ inbox[e] > 0 \/ e \in dlq, acked' \subseteq 1..group,
         UNCHANGED <<asked, stream, group, dlq, inbox, causes>>
  PROVE  MailInv'
  <1>1. MailTyped
    BY DEF MailInv
  <1>2. /\ rest \in Seq(1..group) /\ Len(rest) \in Nat /\ DOMAIN rest = 1..Len(rest)
        /\ rest # <<>> => Len(rest) = Len(hands[w]) - 1
        /\ \A i \in 1..Len(rest) : rest[i] = hands[w][i + 1]
    <2>1. CASE rest = <<>>
      BY <2>1, EmptySeq
    <2>2. CASE rest = Tail(hands[w])
      BY <2>2, HeldFacts, LenProperties DEF Rest
    <2>3. QED
      BY <2>1, <2>2 DEF Rest
  <1>3. /\ hands'[w] = rest /\ outcome'[w] = ""
        /\ \A v \in Workers : v # w => hands'[v] = hands[v] /\ outcome'[v] = outcome[v]
        /\ outcome' \in [Workers -> Outcomes] /\ tries' \in [Workers -> Nat]
        /\ hands' \in [Workers -> Seq(1..group)]
    BY <1>1, <1>2, Held DEF MailTyped
  <1>4. MailTyped'
    BY <1>1, <1>3 DEF MailTyped
  <1>5. DOMAIN hands[w] = 1..Len(hands[w]) /\ Len(hands[w]) \in Nat
    BY <1>1, LenProperties DEF MailTyped
  <1>6. \A i \in DOMAIN rest : i + 1 \in DOMAIN hands[w] /\ i + 1 # 1 /\ rest[i] = hands[w][i + 1]
    <2>1. TAKE i \in DOMAIN rest
    <2>2. i \in 1..Len(rest)
      BY <1>2
    <2>3. rest # <<>>
      BY <2>2, EmptySeq
    <2>4. QED
      BY <1>2, <1>5, <2>2, <2>3
  <1>7. \A i, j \in DOMAIN rest : rest[i] = rest[j] => i = j
    <2>1. TAKE i, j \in DOMAIN rest
    <2>2. rest[i] = rest[j] => i + 1 = j + 1
      BY <1>6 DEF MailInv, Batches
    <2>3. i \in 1..Len(rest) /\ j \in 1..Len(rest)
      BY <1>2
    <2>4. i \in Nat /\ j \in Nat
      BY <1>2, <2>3
    <2>5. QED
      BY <2>2, <2>4
  <1>8. ASSUME NEW d \in 1..group PROVE Owed(d)'
    <2>1. Owed(d) /\ inbox[d] \in Nat /\ causes[d] \in Nat
      BY <1>1, Counted DEF MailInv, Copies
    <2>2. w \in Open(d)' => w \in Open(d)
      BY <1>3, <1>6 DEF Open
    <2>3. Open(d)' \subseteq Open(d)
      BY <1>3, <2>2, OpenOfOthers
    <2>4. QED
      BY <1>1, <1>4, <2>1, <2>3, OwedStays
  <1>9. \A d \in 1..group : inbox[d] <= inbox'[d]
    BY <1>1, Counted
  <1>10. Works(w)
    BY <1>3, <1>7 DEF Works
  <1>11. QED
    BY <1>4, <1>8, <1>9, <1>10, WorkStep

LEMMA MailStep ==
  ASSUME MailInv, E!Next
  PROVE  MailInv'
  <1>1. ASSUME NEW m \in Mails, E!Enqueue(m) \/ E!EnqueueFails(m) PROVE MailInv'
    <2>1. asked' \in [Mails -> {"new", "retrying", "answered"}]
      BY <1>1 DEF MailInv, MailTyped, E!Enqueue, E!EnqueueFails
    <2>2. QED
      BY <1>1, <2>1, AddedInv DEF E!Enqueue, E!EnqueueFails, E!redis, E!work
  <1>2. ASSUME NEW w \in Workers, NEW e \in E!Entries, E!ClaimOwn(w, e) \/ E!ClaimStale(w, e) PROVE MailInv'
    <2>1. e \in DOMAIN pending /\ DOMAIN pending' = DOMAIN pending
      BY <1>2 DEF E!ClaimOwn, E!ClaimStale, E!redis
    <2>2. QED
      BY <1>2, <2>1, ClaimInv DEF E!ClaimOwn, E!ClaimStale, E!redis
  <1>3. ASSUME NEW w \in Workers, E!Ack(w) PROVE MailInv'
    <2>1. hands[w] # <<>>
      BY <1>3 DEF E!Ack, MailInv, Batches
    <2>2. Head(hands[w]) \in 1..group
      BY <2>1, HeldFacts
    <2>3. acked' \subseteq 1..group
      BY <1>3, <2>2 DEF E!Ack, MailInv, MailTyped
    <2>4. \A e \in acked' : e \in acked \/ inbox[e] > 0 \/ e \in dlq
      BY <1>3 DEF E!Ack, MailInv, Outcome
    <2>5. QED
      BY <1>3, <2>1, <2>3, <2>4, TurnedInv DEF E!Ack, Rest
  <1>4. ASSUME NEW w \in Workers, E!AckFails(w) \/ E!BuryFails(w) PROVE MailInv'
    <2>1. hands[w] # <<>> /\ outcome[w] # ""
      BY <1>4 DEF E!AckFails, E!BuryFails, MailInv, Batches
    <2>2. QED
      BY <1>4, <2>1, TurnedInv DEF Rest, E!AckFails, E!BuryFails, E!redis, MailInv, MailTyped
  <1>5. ASSUME NEW w \in Workers, E!Crash(w) PROVE MailInv'
    <2>1. hands[w] # <<>>
      BY <1>5 DEF E!Crash, E!Idle
    <2>2. QED
      BY <1>5, <2>1, TurnedInv DEF Rest, E!Crash, E!redis, MailInv, MailTyped
  <1>6. QED
    BY <1>1, <1>2, <1>3, <1>4, <1>5, ReadBatchInv, SendInv, GivenUpInv DEF E!Next, E!Loop

\* email_queue.rs:377 and 312: however many workers share the stream and whatever
\* fails or crashes, nothing is acknowledged that was neither taken by the mail
\* server nor stored in the dead-letter stream, and every copy more than one has
\* its cause.
THEOREM MailsSettled == Spec => []MailsAccounted
  <1>1. Init => MailInv
    <2> SUFFICES ASSUME E!Init PROVE MailInv
      BY DEF Init
    <2>0. \A S : <<>> \in Seq(S) /\ Len(<<>>) = 0
      BY EmptySeq
    <2>1. /\ stream = <<>> /\ pending = <<>> /\ inbox = <<>> /\ causes = <<>>
          /\ group = 0 /\ acked = {} /\ dlq = {}
          /\ hands = [w \in Workers |-> <<>>] /\ outcome = [w \in Workers |-> ""]
          /\ tries = [w \in Workers |-> 0] /\ asked = [m \in Mails |-> "new"]
      BY DEF E!Init
    <2>2. DOMAIN stream = {} /\ DOMAIN pending = {} /\ 1..group = {} /\ group \in 0..Len(stream)
      <3>1. DOMAIN <<>> = {} /\ 1..0 = {} /\ 0 \in 0..0
        OBVIOUS
      <3>2. Len(stream) = 0 /\ group = 0
        BY <2>0, <2>1
      <3>3. QED
        BY <2>1, <3>1, <3>2
    <2>3. /\ hands \in [Workers -> Seq(1..group)] /\ outcome \in [Workers -> Outcomes]
          /\ tries \in [Workers -> Nat] /\ asked \in [Mails -> {"new", "retrying", "answered"}]
      BY <2>0, <2>1 DEF Outcomes
    <2>4. MailTyped
      BY <2>0, <2>1, <2>2, <2>3 DEF MailTyped
    <2>5. Batches /\ Outcome /\ Settled
      <3>1. \A v \in Workers : hands[v] = <<>> /\ outcome[v] = ""
        BY <2>1
      <3>2. DOMAIN <<>> = {}
        OBVIOUS
      <3>3. \A v \in Workers : DOMAIN hands[v] = {}
        BY <3>1, <3>2
      <3>4. QED
        BY <2>1, <3>1, <3>3 DEF Batches, Outcome, Settled
    <2>6. Copies
      BY <2>2 DEF Copies
    <2>7. QED
      BY <2>4, <2>5, <2>6 DEF MailInv
  <1>2. MailInv /\ [Next]_<<part, mail, audit>> => MailInv'
    <2> SUFFICES ASSUME MailInv, [Next]_<<part, mail, audit>> PROVE MailInv'
      OBVIOUS
    <2>1. CASE E!Next
      BY <2>1, MailStep
    <2>2. CASE UNCHANGED mail
      BY <2>2 DEF mail, MailInv, MailTyped, Batches, Outcome, Settled, Copies, Owed, Open
    <2>3. QED
      BY <2>1, <2>2 DEF Next
  <1>3. MailInv => MailsAccounted
    <2> SUFFICES ASSUME MailInv PROVE MailsAccounted
      OBVIOUS
    <2>1. ASSUME NEW e \in DOMAIN stream PROVE inbox[e] <= 1 + causes[e]
      <3>1. e \in Nat \ {0} /\ group \in Nat /\ inbox[e] \in Nat /\ causes[e] \in Nat
        BY <2>1, LenProperties, ElementOfSeq DEF MailInv, MailTyped
      <3>2. CASE e > group
        BY <2>1, <3>1, <3>2 DEF MailInv, Copies
      <3>3. CASE e <= group
        <4>1. Owed(e)
          BY <3>1, <3>3 DEF MailInv, Copies
        <4>2. Cardinality(Open(e)) \in Nat
          BY <4>1, FS_CardinalityType DEF Owed
        <4>3. QED
          BY <3>1, <4>1, <4>2 DEF Owed
      <3>4. QED
        BY <3>1, <3>2, <3>3
    <2>2. QED
      BY <2>1 DEF MailsAccounted, E!MailsAccounted, E!AckedIsSettled, E!CopiesHaveCauses, E!Entries, MailInv, Settled
  <1>4. QED
    BY <1>1, <1>2, <1>3, PTL DEF Spec
----------------------------------------------------------------------------
(* The audit trail: the strengthening *)

Items == {A!Flush} \cup {A!Line(kind, j) : kind \in {"TRIGGER", "WRITE"}, j \in Jobs}

TrailTyped ==
  /\ phase \in {"serving", "draining", "flushing", "exited", "gave up"}
  /\ chan \in Seq(Items) /\ taken \in Seq(Items) /\ file \in Seq(Items) /\ buffer \in Seq(Items)
  /\ promised \in Nat /\ drawn \in Nat /\ lost \subseteq 1..drawn
  /\ ~opened => buffer = <<>>

\* What the task handed to its BufWriter.
Wrote == file \o buffer

\* It is what was received and not lost.
WroteInOrder ==
  /\ drawn <= Len(taken)
  /\ Len(Wrote) = A!Kept(drawn)
  /\ \A i \in (1..drawn) \ lost : Wrote[A!Kept(i)] = taken[i]

\* Before the flush is sent the channel holds the lines not yet received.
WaitingInOrder ==
  phase \in {"serving", "draining"} =>
    /\ Len(taken) = drawn + Len(chan)
    /\ \A i \in 1..Len(chan) : chan[i] # A!Flush /\ chan[i] = taken[drawn + i]

\* Afterwards the flush stands among them where it was promised.
FlushInOrder ==
  phase = "flushing" =>
    /\ drawn <= promised /\ promised < drawn + Len(chan)
    /\ Len(taken) + 1 = drawn + Len(chan)
    /\ \A i \in 1..Len(chan) :
         /\ drawn + i <= promised => chan[i] # A!Flush /\ chan[i] = taken[drawn + i]
         /\ drawn + i = promised + 1 => chan[i] = A!Flush
         /\ drawn + i > promised + 1 => chan[i] # A!Flush /\ chan[i] = taken[drawn + i - 1]

PromiseKept == phase = "exited" => drawn >= promised /\ (~failed => buffer = <<>>)

TrailInv == TrailTyped /\ WroteInOrder /\ WaitingInOrder /\ FlushInOrder /\ PromiseKept

\* Counting what was not lost.
LEMMA KeptFacts ==
  ASSUME NEW S, NEW i \in Nat, NEW j \in Nat, i <= j
  PROVE  /\ IsFiniteSet((1..i) \ S) /\ Cardinality((1..i) \ S) \in Nat
         /\ Cardinality((1..i) \ S) <= Cardinality((1..j) \ S)
         /\ j > i /\ j \notin S => Cardinality((1..i) \ S) < Cardinality((1..j) \ S)
         /\ i + 1 \notin S => Cardinality((1..(i + 1)) \ S) = Cardinality((1..i) \ S) + 1
  <1>1. IsFiniteSet(1..i) /\ IsFiniteSet(1..j)
    BY FS_Interval
  <1>2. IsFiniteSet((1..i) \ S) /\ IsFiniteSet((1..j) \ S)
    BY <1>1, FS_Subset
  <1>3. Cardinality((1..i) \ S) \in Nat /\ Cardinality((1..j) \ S) \in Nat
    BY <1>2, FS_CardinalityType
  <1>4. (1..i) \ S \subseteq (1..j) \ S
    OBVIOUS
  <1>5. Cardinality((1..i) \ S) <= Cardinality((1..j) \ S)
    BY <1>2, <1>4, FS_Subset
  <1>6. ASSUME j > i, j \notin S PROVE Cardinality((1..i) \ S) < Cardinality((1..j) \ S)
    <2>1. j \in (1..j) \ S /\ j \notin (1..i) \ S
      BY <1>6
    <2>2. (1..i) \ S # (1..j) \ S
      BY <2>1
    <2>3. Cardinality((1..i) \ S) # Cardinality((1..j) \ S)
      BY <1>2, <1>4, <2>2, FS_Subset
    <2>4. QED
      BY <1>3, <1>5, <2>3
  <1>7. ASSUME i + 1 \notin S PROVE Cardinality((1..(i + 1)) \ S) = Cardinality((1..i) \ S) + 1
    <2>1. (1..(i + 1)) \ S = ((1..i) \ S) \cup {i + 1} /\ i + 1 \notin (1..i) \ S
      BY <1>7
    <2>2. QED
      BY <1>2, <2>1, FS_AddElement
  <1>8. QED
    BY <1>2, <1>3, <1>5, <1>6, <1>7

LEMMA SameCount == \A S : A!Cardinality(S) = Cardinality(S)
  BY DEF A!Cardinality, Cardinality

LEMMA KeptGrows ==
  /\ A!Kept(0) = 0
  /\ \A i \in Nat : A!Kept(i) \in Nat
  /\ \A i, j \in Nat : i <= j => A!Kept(i) <= A!Kept(j)
  /\ \A i, j \in Nat : i < j /\ j \notin lost => A!Kept(i) < A!Kept(j)
  <1>1. \A i : A!Kept(i) = Cardinality((1..i) \ lost)
    BY SameCount DEF A!Kept
  <1>2. (1..0) \ lost = {}
    OBVIOUS
  <1>3. A!Kept(0) = 0
    BY <1>1, <1>2, FS_EmptySet
  <1>4. ASSUME NEW i \in Nat, NEW j \in Nat, i <= j
        PROVE  /\ A!Kept(i) \in Nat /\ A!Kept(i) <= A!Kept(j)
               /\ i < j /\ j \notin lost => A!Kept(i) < A!Kept(j)
    <2>1. /\ Cardinality((1..i) \ lost) \in Nat
          /\ Cardinality((1..i) \ lost) <= Cardinality((1..j) \ lost)
          /\ j > i /\ j \notin lost => Cardinality((1..i) \ lost) < Cardinality((1..j) \ lost)
      BY <1>4, KeptFacts
    <2>2. A!Kept(i) = Cardinality((1..i) \ lost) /\ A!Kept(j) = Cardinality((1..j) \ lost)
      BY <1>1
    <2>3. QED
      BY <2>1, <2>2
  <1>5. QED
    BY <1>3, <1>4

LEMMA ItemFacts ==
  /\ A!Flush \in Items
  /\ \A kind \in {"TRIGGER", "WRITE"}, j \in Jobs : A!Line(kind, j) \in Items /\ A!Line(kind, j) # A!Flush
  <1>1. \A kind, j : A!Line(kind, j) # A!Flush
    BY DEF A!Line, A!Flush
  <1>2. QED
    BY <1>1 DEF Items

LEMMA Lengths ==
  ASSUME TrailTyped
  PROVE  /\ Len(chan) \in Nat /\ Len(taken) \in Nat /\ Len(file) \in Nat /\ Len(buffer) \in Nat /\ promised \in Nat
         /\ Wrote \in Seq(Items) /\ Len(Wrote) \in Nat /\ Len(Wrote) = Len(file) + Len(buffer)
  <1>1. Wrote \in Seq(Items) /\ Len(Wrote) = Len(file) + Len(buffer)
    BY ConcatProperties DEF Wrote, TrailTyped
  <1>2. QED
    BY <1>1, LenProperties DEF TrailTyped

\* What goes through and what stays are together what was to be written.
LEMMA PassMoves ==
  ASSUME TrailTyped, NEW lines \in Seq(Items), NEW n \in 0..Len(lines), A!Pass(lines, n)
  PROVE  /\ file' \in Seq(Items) /\ buffer' \in Seq(Items) /\ Wrote' = file \o lines
         /\ n = Len(lines) => buffer' = <<>>
  <1>1. PICK m \in Nat : m = Len(lines)
    BY LenProperties
  <1>2. PICK a, b : a = SubSeq(lines, 1, n) /\ b = SubSeq(lines, n + 1, m)
    OBVIOUS
  <1>3. n \in 0..m /\ n \in Nat
    BY <1>1
  <1>4. a \in Seq(Items) /\ b \in Seq(Items)
    <2>1. /\ \A i \in 1..n : lines[i] \in Items
          /\ \A i \in (n + 1)..m : lines[i] \in Items
      BY <1>1, <1>3, ElementOfSeq
    <2>2. a \in Seq(Items)
      BY <1>1, <1>2, <1>3, <2>1
    <2>3. b \in Seq(Items)
      BY <1>1, <1>2, <1>3, <2>1
    <2>4. QED
      BY <2>2, <2>3
  <1>5. a \o b = lines
    <2>1. 1 \in 1..(m + 1) /\ n \in (1 - 1)..m /\ m \in n..m
      BY <1>1, <1>3
    <2>0. a \o b = SubSeq(lines, 1, m)
      BY <1>1, <1>2, <2>1, ConcatAdjacentSubSeq
    <2>2. QED
      BY <1>1, <2>0, SubSeqFull
  <1>6. file' = file \o a /\ buffer' = b /\ file \in Seq(Items)
    BY <1>1, <1>2 DEF A!Pass, TrailTyped
  <1>7. (file \o a) \o b = file \o (a \o b) /\ file \o a \in Seq(Items)
    BY <1>4, <1>6, ConcatAssociative, ConcatProperties
  <1>8. n = m => b = <<>>
    BY <1>1, <1>2, <1>3, SubSeqEmpty
  <1>9. QED
    BY <1>1, <1>4, <1>5, <1>6, <1>7, <1>8 DEF Wrote

LEMMA AppendMoves ==
  ASSUME TrailTyped, NEW x \in Items
  PROVE  Append(buffer, x) \in Seq(Items) /\ file \o Append(buffer, x) = Append(Wrote, x)
  <1>1. file \in Seq(Items) /\ buffer \in Seq(Items) /\ <<x>> \in Seq(Items)
    <2>1. <<x>> \in Seq(Items)
      OBVIOUS
    <2>2. QED
      BY <2>1 DEF TrailTyped
  <1>2. Append(buffer, x) = buffer \o <<x>> /\ Append(buffer, x) \in Seq(Items)
    BY <1>1, AppendIsConcat, AppendProperties
  <1>3. Append(Wrote, x) = Wrote \o <<x>>
    BY Lengths, AppendIsConcat
  <1>4. file \o (buffer \o <<x>>) = (file \o buffer) \o <<x>>
    BY <1>1, ConcatAssociative
  <1>5. QED
    BY <1>2, <1>3, <1>4 DEF Wrote

\* A step that only changes the phase, or nothing.
LEMMA TrailRests ==
  ASSUME TrailInv, UNCHANGED <<chan, taken, promised, opened, buffer, failed, file, drawn, lost>>,
         \/ phase' = phase
         \/ phase = "serving" /\ phase' = "draining"
         \/ phase' = "gave up"
  PROVE  TrailInv'
  <1>1. TrailTyped' /\ Wrote' = Wrote /\ \A i : A!Kept(i)' = A!Kept(i)
    BY DEF TrailInv, TrailTyped, Wrote, A!Kept
  <1>2. QED
    BY <1>1 DEF TrailInv, WroteInOrder, WaitingInOrder, FlushInOrder, PromiseKept

\* The channel takes a line, or drops it.
LEMMA LineTaken ==
  ASSUME TrailInv, A!Up, NEW x \in Items, x # A!Flush, A!WriteAudit(x), UNCHANGED <<phase, promised, A!writer>>
  PROVE  TrailInv'
  <1>1. CASE UNCHANGED <<chan, taken>>
    BY <1>1, TrailRests DEF A!writer
  <1>2. CASE chan' = Append(chan, x) /\ taken' = Append(taken, x)
    <2>1. TrailTyped /\ chan \in Seq(Items) /\ taken \in Seq(Items)
      BY DEF TrailInv, TrailTyped
    <2>2. /\ chan' \in Seq(Items) /\ Len(chan') = Len(chan) + 1 /\ chan'[Len(chan) + 1] = x
          /\ \A i \in 1..Len(chan) : chan'[i] = chan[i]
      BY <1>2, <2>1, AppendProperties
    <2>3. /\ taken' \in Seq(Items) /\ Len(taken') = Len(taken) + 1 /\ taken'[Len(taken) + 1] = x
          /\ \A i \in 1..Len(taken) : taken'[i] = taken[i]
      BY <1>2, <2>1, AppendProperties
    <2>4. TrailTyped' /\ Wrote' = Wrote /\ drawn' = drawn /\ lost' = lost /\ \A i : A!Kept(i)' = A!Kept(i)
      BY <2>1, <2>2, <2>3 DEF TrailTyped, Wrote, A!writer, A!Kept
    <2>5. /\ Len(chan) \in Nat /\ Len(taken) \in Nat /\ promised \in Nat
          /\ drawn \in Nat /\ drawn <= Len(taken)
      BY <2>1, Lengths DEF TrailInv, WroteInOrder, TrailTyped
    <2>6. WroteInOrder'
      <3>1. \A i \in (1..drawn) \ lost : taken'[i] = taken[i]
        BY <2>3, <2>5
      <3>2. drawn <= Len(taken')
        BY <2>3, <2>5
      <3>3. QED
        BY <2>4, <3>1, <3>2 DEF TrailInv, WroteInOrder
    <2>7. WaitingInOrder'
      <3> SUFFICES ASSUME phase \in {"serving", "draining"}
                   PROVE  /\ Len(taken') = drawn + Len(chan')
                          /\ \A i \in 1..Len(chan') : chan'[i] # A!Flush /\ chan'[i] = taken'[drawn + i]
        BY <2>4 DEF WaitingInOrder
      <3>1. /\ Len(taken) = drawn + Len(chan)
            /\ \A i \in 1..Len(chan) : chan[i] # A!Flush /\ chan[i] = taken[drawn + i]
        BY DEF TrailInv, WaitingInOrder
      <3>2. ASSUME NEW i \in 1..Len(chan') PROVE chan'[i] # A!Flush /\ chan'[i] = taken'[drawn + i]
        <4>1. CASE i \in 1..Len(chan)
          <5>1. drawn + i \in 1..Len(taken)
            BY <2>5, <3>1, <4>1
          <5>2. QED
            BY <2>2, <2>3, <3>1, <4>1, <5>1
        <4>2. CASE i = Len(chan) + 1
          <5>1. drawn + i = Len(taken) + 1
            BY <2>5, <3>1, <4>2
          <5>2. QED
            BY <2>2, <2>3, <4>2, <5>1
        <4>3. QED
          BY <2>2, <2>5, <4>1, <4>2
      <3>3. QED
        BY <2>2, <2>3, <2>5, <3>1, <3>2
    <2>8. FlushInOrder'
      <3> SUFFICES ASSUME phase = "flushing"
                   PROVE  /\ drawn <= promised /\ promised < drawn + Len(chan')
                          /\ Len(taken') + 1 = drawn + Len(chan')
                          /\ \A i \in 1..Len(chan') :
                               /\ drawn + i <= promised => chan'[i] # A!Flush /\ chan'[i] = taken'[drawn + i]
                               /\ drawn + i = promised + 1 => chan'[i] = A!Flush
                               /\ drawn + i > promised + 1 => chan'[i] # A!Flush /\ chan'[i] = taken'[drawn + i - 1]
        BY <2>4 DEF FlushInOrder
      <3>1. /\ drawn <= promised /\ promised < drawn + Len(chan)
            /\ Len(taken) + 1 = drawn + Len(chan)
        BY DEF TrailInv, FlushInOrder
      <3>2. ASSUME NEW i \in 1..Len(chan')
            PROVE  /\ drawn + i <= promised => chan'[i] # A!Flush /\ chan'[i] = taken'[drawn + i]
                   /\ drawn + i = promised + 1 => chan'[i] = A!Flush
                   /\ drawn + i > promised + 1 => chan'[i] # A!Flush /\ chan'[i] = taken'[drawn + i - 1]
        <4>1. CASE i \in 1..Len(chan)
          <5>1. /\ drawn + i <= promised => chan[i] # A!Flush /\ chan[i] = taken[drawn + i]
                /\ drawn + i = promised + 1 => chan[i] = A!Flush
                /\ drawn + i > promised + 1 => chan[i] # A!Flush /\ chan[i] = taken[drawn + i - 1]
            BY <4>1 DEF TrailInv, FlushInOrder
          <5>2. drawn + i <= promised => drawn + i \in 1..Len(taken)
            BY <2>5, <3>1, <4>1
          <5>3. drawn + i > promised + 1 => drawn + i - 1 \in 1..Len(taken)
            BY <2>5, <3>1, <4>1
          <5>4. chan'[i] = chan[i]
            BY <2>2, <4>1
          <5>5. QED
            BY <2>3, <5>1, <5>2, <5>3, <5>4
        <4>2. CASE i = Len(chan) + 1
          <5>1. /\ drawn + i - 1 = Len(taken) + 1 /\ ~(drawn + i <= promised)
                /\ drawn + i # promised + 1
            BY <2>5, <3>1, <4>2
          <5>2. QED
            BY <2>2, <2>3, <4>2, <5>1
        <4>3. QED
          BY <2>2, <2>5, <4>1, <4>2
      <3>3. promised < drawn + Len(chan') /\ Len(taken') + 1 = drawn + Len(chan')
        <4>1. Len(chan') = Len(chan) + 1 /\ Len(taken') = Len(taken) + 1
          BY <2>2, <2>3
        <4>2. QED
          BY <2>5, <3>1, <4>1
      <3>4. QED
        BY <3>1, <3>2, <3>3
    <2>9. PromiseKept'
      BY DEF PromiseKept, A!Up
    <2>10. QED
      BY <2>4, <2>6, <2>7, <2>8, <2>9 DEF TrailInv
  <1>3. QED
    BY <1>1, <1>2 DEF A!WriteAudit

LEMMA WriteLineInv ==
  ASSUME TrailInv, A!WriteLine
  PROVE  TrailInv'
  <1>1. TrailTyped
    BY DEF TrailInv
  <1>2. PICK x : x = Head(chan)
    OBVIOUS
  <1>3. /\ A!Up /\ chan # <<>> /\ x # A!Flush /\ chan' = Tail(chan) /\ drawn' = drawn + 1
        /\ UNCHANGED <<phase, opened, taken, promised>>
    BY <1>2 DEF A!WriteLine, A!Receive
  <1>4. /\ x \in Items /\ chan' \in Seq(Items) /\ Len(chan') = Len(chan) - 1
        /\ \A i \in 1..Len(chan') : chan'[i] = chan[i + 1]
    BY <1>1, <1>2, <1>3, HeadTailProperties DEF TrailTyped
  <1>5. x = chan[1]
    <2>1. chan \in Seq(Items)
      BY <1>1 DEF TrailTyped
    <2>2. QED
      BY <1>2, <1>3, <2>1
  <1>6. /\ Len(chan) \in Nat \ {0} /\ Len(taken) \in Nat /\ promised \in Nat /\ drawn \in Nat
        /\ lost \subseteq 1..drawn
    BY <1>1, <1>3, EmptySeq, Lengths DEF TrailTyped
  <1>7. /\ file' \in Seq(Items) /\ buffer' \in Seq(Items) /\ (~opened => buffer' = <<>>)
        /\ \/ lost' = lost \cup {drawn + 1} /\ Wrote' = Wrote
           \/ lost' = lost /\ Wrote' = Append(Wrote, x)
    <2>1. CASE A!Discard
      BY <1>1, <2>1 DEF A!Discard, TrailTyped, Wrote
    <2>2. CASE \E due \in BOOLEAN : A!Keep(x, due)
      <3>1. PICK due \in BOOLEAN : A!Keep(x, due)
        BY <2>2
      <3>2. PICK kept \in BOOLEAN, lines \in {buffer, Append(buffer, x)} :
              /\ lost' = IF kept THEN lost ELSE lost \cup {drawn + 1}
              /\ lines = IF kept THEN Append(buffer, x) ELSE buffer
              /\ \/ \E n \in 0..Len(lines) : A!Pass(lines, n)
                 \/ \E n \in 0..Len(buffer) : A!Pass(lines, n)
        BY <3>1 DEF A!Keep, A!FlushBuffer
      <3>3. buffer \in Seq(Items) /\ lines \in Seq(Items) /\ Len(buffer) <= Len(lines)
        <4>0. buffer \in Seq(Items) /\ Len(buffer) \in Nat
          BY <1>1, Lengths DEF TrailTyped
        <4>1. Append(buffer, x) \in Seq(Items) /\ Len(Append(buffer, x)) = Len(buffer) + 1
          BY <1>4, <4>0, AppendProperties
        <4>2. QED
          BY <3>2, <4>0, <4>1
      <3>4. PICK n \in 0..Len(lines) : A!Pass(lines, n)
        <4>1. Len(buffer) \in Nat /\ Len(lines) \in Nat
          BY <3>3, LenProperties
        <4>2. 0..Len(buffer) \subseteq 0..Len(lines)
          BY <3>3, <4>1
        <4>3. QED
          BY <3>2, <4>2
      <3>5. file' \in Seq(Items) /\ buffer' \in Seq(Items) /\ Wrote' = file \o lines
        BY <1>1, <3>3, <3>4, PassMoves
      <3>6. opened
        BY <3>1 DEF A!Keep
      <3>7. CASE kept
        BY <1>1, <1>4, <3>2, <3>5, <3>6, <3>7, AppendMoves
      <3>8. CASE ~kept
        BY <3>2, <3>5, <3>6, <3>8 DEF Wrote
      <3>9. QED
        BY <3>7, <3>8
    <2>3. A!Discard \/ \E due \in BOOLEAN : A!Keep(x, due)
      BY <1>2 DEF A!WriteLine
    <2>4. QED
      BY <2>1, <2>2, <2>3
  <1>8. TrailTyped'
    <2>1. lost' \subseteq lost \cup {drawn + 1}
      BY <1>7
    <2>2. lost \cup {drawn + 1} \subseteq 1..(drawn + 1) /\ drawn + 1 \in Nat
      BY <1>6
    <2>3. lost' \subseteq 1..drawn' /\ drawn' \in Nat
      BY <1>3, <2>1, <2>2
    <2>4. QED
      BY <1>1, <1>3, <1>4, <1>7, <2>3 DEF TrailTyped
  <1>9. drawn + 1 <= Len(taken) /\ x = taken[drawn + 1]
    <2>1. CASE phase \in {"serving", "draining"}
      BY <1>5, <1>6, <2>1 DEF TrailInv, WaitingInOrder
    <2>2. CASE phase = "flushing"
      <3>1. /\ drawn <= promised /\ promised < drawn + Len(chan)
            /\ Len(taken) + 1 = drawn + Len(chan)
            /\ drawn + 1 <= promised => chan[1] = taken[drawn + 1]
            /\ drawn + 1 = promised + 1 => chan[1] = A!Flush
        BY <1>6, <2>2 DEF TrailInv, FlushInOrder
      <3>2. drawn + 1 # promised + 1
        BY <1>3, <1>5, <3>1
      <3>3. QED
        BY <1>5, <1>6, <3>1, <3>2
    <2>3. QED
      BY <1>1, <1>3, <2>1, <2>2 DEF A!Up, TrailTyped
  <1>10. /\ Len(Wrote) = A!Kept(drawn) /\ Len(Wrote) \in Nat /\ Wrote \in Seq(Items)
         /\ \A i \in (1..drawn) \ lost : Wrote[A!Kept(i)] = taken[i]
    BY <1>1, Lengths DEF TrailInv, WroteInOrder
  <1>11. \A i \in 0..drawn : A!Kept(i)' = A!Kept(i)
    <2>1. TAKE i \in 0..drawn
    <2>2. (1..i) \ lost' = (1..i) \ lost
      BY <1>6, <1>7
    <2>3. QED
      BY <2>2 DEF A!Kept
  <1>12. WroteInOrder'
    <2>1. CASE lost' = lost \cup {drawn + 1} /\ Wrote' = Wrote
      <3>1. (1..drawn') \ lost' = (1..drawn) \ lost
        BY <1>3, <1>6, <2>1
      <3>2. A!Kept(drawn)' = A!Kept(drawn)
        BY <3>1 DEF A!Kept
      <3>3. \A i \in (1..drawn) \ lost : i \in 0..drawn
        BY <1>6
      <3>4. QED
        BY <1>3, <1>9, <1>10, <1>11, <2>1, <3>1, <3>2, <3>3 DEF WroteInOrder
    <2>2. CASE lost' = lost /\ Wrote' = Append(Wrote, x)
      <3>1. drawn + 1 \notin lost
        BY <1>6
      <3>2. A!Kept(drawn)' = A!Kept(drawn) + 1
        <4>1. Cardinality((1..(drawn + 1)) \ lost) = Cardinality((1..drawn) \ lost) + 1
          <5>1. drawn \in Nat /\ drawn + 1 \in Nat /\ drawn <= drawn + 1
            BY <1>6
          <5>2. QED
            BY <3>1, <5>1, KeptFacts
        <4>2. A!Kept(drawn)' = Cardinality((1..(drawn + 1)) \ lost)
          BY <1>3, <2>2, SameCount DEF A!Kept
        <4>3. QED
          BY <4>1, <4>2, SameCount DEF A!Kept
      <3>3. /\ Len(Wrote') = Len(Wrote) + 1 /\ Wrote'[Len(Wrote) + 1] = x
            /\ \A k \in 1..Len(Wrote) : Wrote'[k] = Wrote[k]
        BY <1>4, <1>10, <2>2, AppendProperties
      <3>4. ASSUME NEW i \in (1..drawn') \ lost' PROVE Wrote'[A!Kept(i)'] = taken[i]
        <4>1. CASE i \in 1..drawn
          <5>1. A!Kept(i)' = A!Kept(i)
            BY <1>6, <1>11, <4>1
          <5>2. A!Kept(i) \in 1..Len(Wrote)
            <6>1. A!Kept(i) > 0
              BY <2>2, <3>4, <4>1, KeptGrows
            <6>2. A!Kept(i) <= A!Kept(drawn) /\ A!Kept(i) \in Nat
              BY <1>6, <4>1, KeptGrows
            <6>3. QED
              BY <1>10, <6>1, <6>2
          <5>3. QED
            BY <1>10, <2>2, <3>3, <3>4, <4>1, <5>1, <5>2
        <4>2. CASE i = drawn + 1
          BY <1>3, <1>9, <1>10, <3>2, <3>3, <4>2
        <4>3. QED
          BY <1>3, <1>6, <4>1, <4>2
      <3>5. QED
        BY <1>3, <1>9, <1>10, <3>2, <3>3, <3>4 DEF WroteInOrder
    <2>3. QED
      BY <1>7, <2>1, <2>2
  <1>13. \A i \in 1..Len(chan') : /\ i + 1 \in 1..Len(chan) /\ chan'[i] = chan[i + 1]
                                  /\ drawn' + i = drawn + (i + 1)
    BY <1>3, <1>4, <1>6
  <1>14. drawn' + Len(chan') = drawn + Len(chan)
    BY <1>3, <1>4, <1>6
  <1>15. WaitingInOrder'
    BY <1>3, <1>13, <1>14 DEF TrailInv, WaitingInOrder
  <1>16. FlushInOrder'
    <2> SUFFICES ASSUME phase = "flushing"
                 PROVE  /\ drawn' <= promised /\ promised < drawn' + Len(chan')
                        /\ Len(taken) + 1 = drawn' + Len(chan')
                        /\ \A i \in 1..Len(chan') :
                             /\ drawn' + i <= promised => chan'[i] # A!Flush /\ chan'[i] = taken[drawn' + i]
                             /\ drawn' + i = promised + 1 => chan'[i] = A!Flush
                             /\ drawn' + i > promised + 1 =>
                                  chan'[i] # A!Flush /\ chan'[i] = taken[drawn' + i - 1]
      BY <1>3 DEF FlushInOrder
    <2>1. /\ drawn <= promised /\ promised < drawn + Len(chan)
          /\ Len(taken) + 1 = drawn + Len(chan)
          /\ drawn + 1 = promised + 1 => chan[1] = A!Flush
      BY <1>6 DEF TrailInv, FlushInOrder
    <2>2. drawn' <= promised
      BY <1>3, <1>5, <1>6, <2>1
    <2>3. promised < drawn' + Len(chan') /\ Len(taken) + 1 = drawn' + Len(chan')
      BY <1>14, <2>1
    <2>4. ASSUME NEW i \in 1..Len(chan')
          PROVE  /\ drawn' + i <= promised => chan'[i] # A!Flush /\ chan'[i] = taken[drawn' + i]
                 /\ drawn' + i = promised + 1 => chan'[i] = A!Flush
                 /\ drawn' + i > promised + 1 => chan'[i] # A!Flush /\ chan'[i] = taken[drawn' + i - 1]
      <3>1. i + 1 \in 1..Len(chan) /\ chan'[i] = chan[i + 1] /\ drawn' + i = drawn + (i + 1)
        BY <1>13
      <3>2. PICK k : k = i + 1
        OBVIOUS
      <3>3. k \in 1..Len(chan) /\ chan'[i] = chan[k] /\ drawn' + i = drawn + k
        BY <3>1, <3>2
      <3>4. /\ drawn + k <= promised => chan[k] # A!Flush /\ chan[k] = taken[drawn + k]
            /\ drawn + k = promised + 1 => chan[k] = A!Flush
            /\ drawn + k > promised + 1 => chan[k] # A!Flush /\ chan[k] = taken[drawn + k - 1]
        BY <3>3 DEF TrailInv, FlushInOrder
      <3>5. drawn' + i = drawn + k /\ drawn' + i - 1 = drawn + k - 1 /\ drawn' + i \in Nat
        BY <1>3, <1>6, <3>3
      <3>6. QED
        BY <3>3, <3>4, <3>5
    <2>5. QED
      BY <2>2, <2>3, <2>4
  <1>17. PromiseKept'
    BY <1>3 DEF PromiseKept, A!Up
  <1>18. QED
    BY <1>8, <1>12, <1>15, <1>16, <1>17 DEF TrailInv

LEMMA WriteFlushInv ==
  ASSUME TrailInv, A!WriteFlush
  PROVE  TrailInv'
  <1>1. /\ TrailTyped /\ phase = "flushing" /\ phase' = "exited"
        /\ chan # <<>> /\ Head(chan) = A!Flush /\ chan' = Tail(chan)
        /\ UNCHANGED <<opened, taken, drawn, lost, promised>>
    BY DEF TrailInv, A!WriteFlush
  <1>2. /\ file' \in Seq(Items) /\ buffer' \in Seq(Items) /\ Wrote' = Wrote
        /\ ~failed' => buffer' = <<>>
        /\ ~opened => buffer' = <<>>
    <2>1. CASE ~opened
      BY <1>1, <2>1 DEF A!WriteFlush, TrailTyped, Wrote
    <2>2. CASE opened
      <3>1. buffer \in Seq(Items) /\ Len(buffer) \in Nat
        BY <1>1, Lengths DEF TrailTyped
      <3>2. PICK n \in 0..Len(buffer) : A!Pass(buffer, n) /\ failed' = (n < Len(buffer))
        BY <2>2 DEF A!WriteFlush, A!FlushBuffer
      <3>3. /\ file' \in Seq(Items) /\ buffer' \in Seq(Items) /\ Wrote' = file \o buffer
            /\ n = Len(buffer) => buffer' = <<>>
        BY <1>1, <3>1, <3>2, PassMoves
      <3>4. ~failed' => n = Len(buffer)
        <4>1. n = Len(buffer) \/ n < Len(buffer)
          BY <3>1
        <4>2. ~(n < Len(buffer)) \/ failed'
          BY <3>2, Zenon
        <4>3. QED
          BY <4>1, <4>2, Zenon
      <3>5. QED
        BY <2>2, <3>3, <3>4 DEF Wrote
    <2>3. QED
      BY <2>1, <2>2
  <1>3. chan' \in Seq(Items)
    BY <1>1, HeadTailProperties DEF TrailTyped
  <1>4. TrailTyped'
    BY <1>1, <1>2, <1>3 DEF TrailTyped
  <1>5. chan[1] = A!Flush
    BY <1>1 DEF TrailTyped
  <1>6. Len(chan) \in Nat \ {0} /\ promised \in Nat /\ drawn \in Nat
    BY <1>1, EmptySeq, Lengths DEF TrailTyped
  <1>7. drawn <= promised /\ (drawn + 1 <= promised => chan[1] # A!Flush)
    BY <1>1, <1>6 DEF TrailInv, FlushInOrder
  <1>8. drawn >= promised
    BY <1>5, <1>6, <1>7
  <1>9. \A i : A!Kept(i)' = A!Kept(i)
    BY <1>1 DEF A!Kept
  <1>10. QED
    BY <1>1, <1>2, <1>4, <1>8, <1>9 DEF TrailInv, WroteInOrder, WaitingInOrder, FlushInOrder, PromiseKept

LEMMA DrainedInv ==
  ASSUME TrailInv, A!Drained
  PROVE  TrailInv'
  <1>1. /\ TrailTyped /\ phase = "draining" /\ phase' = "flushing" /\ chan' = Append(chan, A!Flush)
        /\ promised' = Len(taken) /\ UNCHANGED <<taken, opened, buffer, failed, file, drawn, lost>>
    BY DEF TrailInv, A!Drained, A!writer
  <1>2. /\ chan' \in Seq(Items) /\ Len(chan') = Len(chan) + 1 /\ chan'[Len(chan) + 1] = A!Flush
        /\ \A i \in 1..Len(chan) : chan'[i] = chan[i]
    BY <1>1, ItemFacts, AppendProperties DEF TrailTyped
  <1>3. Len(chan) \in Nat /\ Len(taken) \in Nat /\ drawn \in Nat
    BY <1>1, Lengths DEF TrailTyped
  <1>4. TrailTyped' /\ Wrote' = Wrote /\ \A i : A!Kept(i)' = A!Kept(i)
    BY <1>1, <1>2, <1>3 DEF TrailTyped, Wrote, A!Kept
  <1>5. /\ Len(taken) = drawn + Len(chan)
        /\ \A i \in 1..Len(chan) : chan[i] # A!Flush /\ chan[i] = taken[drawn + i]
    BY <1>1 DEF TrailInv, WaitingInOrder
  <1>6. ASSUME NEW i \in 1..Len(chan')
        PROVE  \/ i \in 1..Len(chan) /\ drawn + i <= Len(taken)
               \/ i = Len(chan) + 1 /\ drawn + i = Len(taken) + 1
    BY <1>2, <1>3, <1>5
  <1>7. \A i \in 1..Len(chan') :
          /\ drawn + i <= Len(taken) => chan'[i] # A!Flush /\ chan'[i] = taken[drawn + i]
          /\ drawn + i = Len(taken) + 1 => chan'[i] = A!Flush
          /\ ~(drawn + i > Len(taken) + 1)
    BY <1>2, <1>3, <1>5, <1>6
  <1>8. drawn <= Len(taken) /\ Len(taken) < drawn + Len(chan') /\ Len(taken) + 1 = drawn + Len(chan')
    BY <1>2, <1>3, <1>5
  <1>9. FlushInOrder'
    BY <1>1, <1>4, <1>7, <1>8 DEF FlushInOrder
  <1>10. QED
    BY <1>1, <1>4, <1>9 DEF TrailInv, WroteInOrder, WaitingInOrder, PromiseKept

LEMMA TrailStep ==
  ASSUME TrailInv, A!Next
  PROVE  TrailInv'
  <1>1. ASSUME NEW j \in Jobs, A!Take(j) \/ A!Start(j) \/ A!Commit(j) \/ A!RollBack(j) PROVE TrailInv'
    BY <1>1, TrailRests DEF A!Take, A!Start, A!Commit, A!RollBack, A!writer
  <1>2. ASSUME NEW j \in Jobs, A!Trigger(j) PROVE TrailInv'
    BY <1>2, ItemFacts, LineTaken DEF A!Trigger
  <1>3. ASSUME NEW j \in Jobs, A!Audit(j) PROVE TrailInv'
    BY <1>3, ItemFacts, LineTaken DEF A!Audit
  <1>4. ASSUME A!Begin \/ A!GiveUp PROVE TrailInv'
    BY <1>4, TrailRests DEF A!Begin, A!GiveUp, A!writer
  <1>5. QED
    BY <1>1, <1>2, <1>3, <1>4, WriteLineInv, WriteFlushInv, DrainedInv DEF A!Next

\* audit.rs:91: for any capacity, any failures of the file and any interleaving of
\* writes with the shutdown, the file holds the first lines that were taken and
\* not lost, in their order, and a flush that was acknowledged and did not fail
\* found every one of them it was sent behind there.
THEOREM FlushKept == Spec => []FlushedIsWritten
  <1>1. Init => TrailInv
    <2> SUFFICES ASSUME A!Init PROVE TrailInv
      BY DEF Init
    <2>1. /\ phase = "serving" /\ promised = 0 /\ drawn = 0 /\ lost = {}
          /\ chan = <<>> /\ buffer = <<>> /\ file = <<>> /\ taken = <<>>
      BY DEF A!Init
    <2>2. <<>> \in Seq(Items) /\ Len(<<>>) = 0
      BY EmptySeq
    <2>3. TrailTyped
      BY <2>1, <2>2 DEF TrailTyped
    <2>4. Len(Wrote) = 0
      BY <2>1, <2>2, <2>3, Lengths
    <2>5. 1..0 = {}
      OBVIOUS
    <2>6. A!Kept(0) = 0
      BY KeptGrows
    <2>7. QED
      BY <2>1, <2>2, <2>3, <2>4, <2>5, <2>6 DEF TrailInv, WroteInOrder, WaitingInOrder, FlushInOrder, PromiseKept
  <1>2. TrailInv /\ [Next]_<<part, mail, audit>> => TrailInv'
    <2> SUFFICES ASSUME TrailInv, [Next]_<<part, mail, audit>> PROVE TrailInv'
      OBVIOUS
    <2>1. CASE A!Next
      BY <2>1, TrailStep
    <2>2. CASE UNCHANGED audit
      BY <2>2, TrailRests DEF audit
    <2>3. QED
      BY <2>1, <2>2 DEF Next
  <1>3. TrailInv => FlushedIsWritten
    <2> SUFFICES ASSUME TrailInv PROVE FlushedIsWritten
      OBVIOUS
    <2>1. /\ file \in Seq(Items) /\ taken \in Seq(Items) /\ buffer \in Seq(Items)
          /\ drawn \in Nat /\ lost \subseteq 1..drawn /\ promised \in Nat
      BY DEF TrailInv, TrailTyped
    <2>2. /\ Len(file) \in Nat /\ Len(taken) \in Nat /\ Len(buffer) \in Nat
          /\ Len(Wrote) = Len(file) + Len(buffer) /\ Len(Wrote) = A!Kept(drawn) /\ drawn <= Len(taken)
      BY Lengths DEF TrailInv, WroteInOrder
    <2>3. A!Kept(drawn) \in Nat /\ A!Kept(drawn) <= A!Kept(Len(taken)) /\ A!Kept(Len(taken)) \in Nat
      BY <2>1, <2>2, KeptGrows
    <2>4. ASSUME NEW i \in DOMAIN taken, i \notin lost, A!Kept(i) <= Len(file) PROVE file[A!Kept(i)] = taken[i]
      <3>1. i \in Nat \ {0}
        BY <2>1, <2>2, LenProperties
      <3>2. A!Kept(i) \in Nat
        BY <3>1, KeptGrows
      <3>3. i <= drawn
        <4>1. drawn < i => A!Kept(drawn) < A!Kept(i)
          BY <2>1, <2>4, <3>1, KeptGrows
        <4>2. QED
          BY <2>1, <2>2, <2>3, <2>4, <3>1, <3>2, <4>1
      <3>4. A!Kept(i) \in 1..Len(file)
        <4>1. A!Kept(i) > 0
          BY <2>4, <3>1, KeptGrows
        <4>2. QED
          BY <2>2, <2>4, <3>2, <4>1
      <3>5. Wrote[A!Kept(i)] = file[A!Kept(i)]
        BY <2>1, <2>2, <3>4, ConcatProperties DEF Wrote
      <3>6. i \in (1..drawn) \ lost
        BY <2>1, <2>4, <3>1, <3>3
      <3>7. QED
        BY <3>5, <3>6 DEF TrailInv, WroteInOrder
    <2>5. phase = "exited" /\ ~failed => Len(file) >= A!Kept(promised)
      <3> SUFFICES ASSUME phase = "exited", ~failed PROVE Len(file) >= A!Kept(promised)
        OBVIOUS
      <3>1. drawn >= promised /\ buffer = <<>>
        BY DEF TrailInv, PromiseKept
      <3>2. A!Kept(promised) <= A!Kept(drawn) /\ A!Kept(promised) \in Nat
        BY <2>1, <3>1, KeptGrows
      <3>3. Len(buffer) = 0
        BY <3>1, EmptySeq
      <3>4. QED
        BY <2>2, <2>3, <3>2, <3>3
    <2>6. QED
      BY <2>2, <2>3, <2>4, <2>5 DEF FlushedIsWritten, A!FlushedIsWritten
  <1>4. QED
    BY <1>1, <1>2, <1>3, PTL DEF Spec

=============================================================================
