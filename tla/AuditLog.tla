------------------------------- MODULE AuditLog -------------------------------
(***************************************************************************)
(* The audit trail (audit.rs) up to the end of the process (shutdown.rs,    *)
(* main.rs): queued writes run by workers, the lines they hand to the       *)
(* bounded channel, the task that writes them, and the shutdown that drains *)
(* the work in flight and then flushes.  A worker looks at the shutdown     *)
(* flag between batches, not between the entries of one.                    *)
(***************************************************************************)
EXTENDS Naturals, Sequences, FiniteSets

CONSTANTS
  Jobs,       \* writes, each with one trigger
  Capacity,   \* of the channel, 65536
  FlushEvery  \* lines after which the task flushes, 100

VARIABLES
  phase,    \* of the process
  job,      \* progress of each write
  chan,     \* the channel: lines, and Flush
  opened,   \* the task could open its file
  buffer,   \* the BufWriter
  written,  \* lines since the last flush
  failed,   \* the last flush ended in an error
  file,     \* audit/events.log
  taken,    \* lines the channel took, in their order
  drawn,    \* how many of them the task received
  lost,     \* which of these it did not keep: no file, or an error of writeln
  promised  \* how many lines the flush at shutdown was sent behind

vars == <<phase, job, chan, opened, buffer, written, failed, file, taken, drawn, lost, promised>>
writer == <<opened, buffer, written, failed, file, drawn, lost>>

Flush == <<"Flush">>

Line(kind, j) == <<kind, j>>

Init ==
  /\ phase = "serving"
  /\ job = [j \in Jobs |-> "queued"]
  /\ opened \in BOOLEAN /\ failed = FALSE
  /\ chan = <<>> /\ buffer = <<>> /\ written = 0 /\ file = <<>>
  /\ taken = <<>> /\ drawn = 0 /\ lost = {} /\ promised = 0

Up == phase \notin {"exited", "gave up"}

\* write_audit: try_send, which drops the line when the channel is full.
WriteAudit(line) ==
  IF Len(chan) < Capacity
    THEN chan' = Append(chan, line) /\ taken' = Append(taken, line)
    ELSE UNCHANGED <<chan, taken>>

\* What runs: InflightGuard.
InFlight == {j \in Jobs : job[j] \in {"running", "triggered", "committed"}}

----------------------------------------------------------------------------
(* Writes *)

\* A batch read before the shutdown.
Take(j) ==
  /\ phase = "serving" /\ job[j] = "queued"
  /\ job' = [job EXCEPT ![j] = "batched"]
  /\ UNCHANGED <<phase, chan, taken, promised, writer>>

Start(j) ==
  /\ Up /\ job[j] = "batched"
  /\ job' = [job EXCEPT ![j] = "running"]
  /\ UNCHANGED <<phase, chan, taken, promised, writer>>

\* The trigger's line is handed over inside the transaction.
Trigger(j) ==
  /\ Up /\ job[j] = "running"
  /\ job' = [job EXCEPT ![j] = "triggered"]
  /\ WriteAudit(Line("TRIGGER", j))
  /\ UNCHANGED <<phase, promised, writer>>

Commit(j) ==
  /\ Up /\ job[j] = "triggered"
  /\ job' = [job EXCEPT ![j] = "committed"]
  /\ UNCHANGED <<phase, chan, taken, promised, writer>>

\* post_process, the webhook row or the commit failed.
RollBack(j) ==
  /\ Up /\ job[j] = "triggered"
  /\ job' = [job EXCEPT ![j] = "failed"]
  /\ UNCHANGED <<phase, chan, taken, promised, writer>>

\* The service's own line follows the answer of the repository.
Audit(j) ==
  /\ Up /\ job[j] = "committed"
  /\ job' = [job EXCEPT ![j] = "done"]
  /\ WriteAudit(Line("WRITE", j))
  /\ UNCHANGED <<phase, promised, writer>>

----------------------------------------------------------------------------
(* The writer task *)

\* Of what is to be written n lines go through to the file.
Pass(lines, n) ==
  /\ file' = file \o SubSeq(lines, 1, n)
  /\ buffer' = SubSeq(lines, n + 1, Len(lines))

\* flush: everything goes through, or an error comes first, which is ignored.
FlushBuffer(lines) ==
  /\ \E n \in 0..Len(lines) : Pass(lines, n) /\ failed' = (n < Len(lines))
  /\ written' = 0

\* Without a file the task goes on receiving.
Discard ==
  /\ ~opened
  /\ lost' = lost \cup {drawn + 1}
  /\ UNCHANGED <<buffer, written, failed, file>>

\* writeln puts the line into the buffer, which is emptied before if it has no
\* room; where that fails the line is lost.
Keep(line, flush) ==
  /\ opened
  /\ \E kept \in BOOLEAN :
       /\ lost' = IF kept THEN lost ELSE lost \cup {drawn + 1}
       /\ LET lines == IF kept THEN Append(buffer, line) ELSE buffer
          IN  IF flush THEN FlushBuffer(lines)
              ELSE /\ \E n \in 0..Len(buffer) : Pass(lines, n) /\ (kept => n \in {0, Len(buffer)})
                   /\ written' = written + 1
                   /\ UNCHANGED failed

\* The next line of the channel.
Receive ==
  /\ Up /\ chan # <<>> /\ Head(chan) # Flush
  /\ chan' = Tail(chan) /\ drawn' = drawn + 1
  /\ UNCHANGED <<phase, job, opened, taken, promised>>

\* Mutant: an empty channel does not flush.
WriteLineLazily == Receive /\ (Discard \/ Keep(Head(chan), written + 1 >= FlushEvery))

WriteLine == Receive /\ (Discard \/ Keep(Head(chan), written + 1 >= FlushEvery \/ Tail(chan) = <<>>))

\* Mutant: the flush is acknowledged and the buffer left alone.
AcknowledgeOnly ==
  /\ phase = "flushing" /\ chan # <<>> /\ Head(chan) = Flush
  /\ chan' = Tail(chan)
  /\ phase' = "exited"
  /\ UNCHANGED <<job, taken, promised, writer>>

\* The acknowledgement ends the process, whatever became of the flush.
WriteFlush ==
  /\ phase = "flushing" /\ chan # <<>> /\ Head(chan) = Flush
  /\ chan' = Tail(chan)
  /\ IF opened THEN FlushBuffer(buffer) ELSE UNCHANGED <<buffer, written, failed, file>>
  /\ phase' = "exited"
  /\ UNCHANGED <<job, opened, taken, drawn, lost, promised>>

----------------------------------------------------------------------------
(* Shutdown *)

Begin ==
  /\ phase = "serving"
  /\ phase' = "draining"
  /\ UNCHANGED <<job, chan, taken, promised, writer>>

\* Nothing is in flight, or 30 seconds are over; flush waits for room.
Drained ==
  /\ phase = "draining" /\ Len(chan) < Capacity
  /\ phase' = "flushing"
  /\ chan' = Append(chan, Flush)
  /\ promised' = Len(taken)
  /\ UNCHANGED <<job, taken, writer>>

\* No acknowledgement within 5 seconds.
GiveUp ==
  /\ phase = "flushing"
  /\ phase' = "gave up"
  /\ UNCHANGED <<job, chan, taken, promised, writer>>

Next ==
  \/ \E j \in Jobs : Take(j) \/ Start(j) \/ Trigger(j) \/ Commit(j) \/ RollBack(j) \/ Audit(j)
  \/ WriteLine \/ WriteFlush
  \/ Begin \/ Drained \/ GiveUp

\* The task waits on its channel.
Fairness == WF_vars(WriteLine \/ WriteFlush)

Spec == Init /\ [][Next]_vars /\ Fairness

----------------------------------------------------------------------------
(* Properties *)

\* The lines up to the i-th that the task did not lose.
Kept(i) == Cardinality((1..i) \ lost)

\* audit.rs:91, "flush every buffered audit line to disk": the lines on disk are
\* the first ones that were taken and not lost, in their order, and when the
\* process ends with the acknowledgement of a flush that did not fail, all those
\* the flush was sent behind are there.
FlushedIsWritten ==
  /\ Len(file) <= Kept(Len(taken))
  /\ \A i \in (DOMAIN taken) \ lost : Kept(i) <= Len(file) => file[Kept(i)] = taken[i]
  /\ phase = "exited" /\ ~failed => Len(file) >= Kept(promised)

\* audit.rs:66, "or if channel is currently empty": a line that was taken is on
\* disk some time later, however few follow it, unless it is lost, the process
\* ends or flushes fail from some time on.
LinesReachDisk ==
  \A n \in 1..(2 * Cardinality(Jobs)) :
    (Len(taken) >= n) ~> (n \in lost \/ Len(file) >= Kept(n) \/ ~Up \/ []failed)

==============================================================================
