------------------------------ MODULE Background ------------------------------
(***************************************************************************)
(* What runs behind the requests: the mail workers (EmailQueue) and the     *)
(* audit trail up to the end of the process (AuditLog).  The two share no   *)
(* state, so a behaviour is one of either.                                  *)
(***************************************************************************)
EXTENDS Naturals, Sequences

CONSTANTS Mails, Invalid, Workers, Batch, RetryMax, MaxFaults, Jobs, Capacity, FlushEvery

ASSUME BackgroundAssumption ==
  /\ Invalid \subseteq Mails
  /\ {Batch, Capacity, FlushEvery} \subseteq Nat \ {0}
  /\ {RetryMax, MaxFaults} \subseteq Nat

VARIABLES part,
          asked, stream, group, pending, hands, tries, outcome, acked, inbox, dlq, causes, faults,
          phase, job, chan, opened, buffer, written, failed, file, taken, drawn, lost, promised

mail == <<asked, stream, group, pending, hands, tries, outcome, acked, inbox, dlq, causes, faults>>
audit == <<phase, job, chan, opened, buffer, written, failed, file, taken, drawn, lost, promised>>

E == INSTANCE EmailQueue
A == INSTANCE AuditLog

Init == part \in {"mail", "audit"} /\ E!Init /\ A!Init

Next ==
  \/ part = "mail" /\ E!Next /\ UNCHANGED <<part, audit>>
  \/ part = "audit" /\ A!Next /\ UNCHANGED <<part, mail>>

\* In the other part workers and writer have nothing to do.
Spec == Init /\ [][Next]_<<part, mail, audit>> /\ E!Fairness /\ A!Fairness

MailsAccounted == E!MailsAccounted
EveryMailSettled == E!EveryMailSettled
FlushedIsWritten == A!FlushedIsWritten
LinesReachDisk == A!LinesReachDisk

===============================================================================
