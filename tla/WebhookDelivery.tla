---------------------------- MODULE WebhookDelivery ----------------------------
(***************************************************************************)
(* What the transactional outbox promises for each recorded event: it is   *)
(* reported delivered only if the receiver got it, given up only after      *)
(* MaxAttempts attempts, and not sent again once its fate is decided.  An   *)
(* event may go astray, when the process that sends it dies or a statement  *)
(* about it is lost: nothing is promised of it from then on.                *)
(***************************************************************************)
EXTENDS Naturals

CONSTANTS Events, MaxAttempts

VARIABLES
  fate,   \* what the outbox says of each event
  tries,  \* times each event was sent
  got     \* events the receiver was handed at least once

vars == <<fate, tries, got>>

Fates == {"none", "pending", "delivered", "abandoned", "astray"}

Init ==
  /\ fate = [e \in Events |-> "none"]
  /\ tries = [e \in Events |-> 0]
  /\ got = {}

Becomes(e, f) == fate' = [fate EXCEPT ![e] = f] /\ UNCHANGED <<tries, got>>

Record(e) == fate[e] = "none" /\ Becomes(e, "pending")

Try(e) ==
  /\ fate[e] \in {"pending", "astray"}
  /\ tries' = [tries EXCEPT ![e] = @ + 1]
  /\ got' \in {got, got \cup {e}}
  /\ UNCHANGED fate

Deliver(e) == fate[e] = "pending" /\ e \in got /\ Becomes(e, "delivered")

Abandon(e) == fate[e] = "pending" /\ tries[e] >= MaxAttempts /\ Becomes(e, "abandoned")

GoAstray(e) == fate[e] = "pending" /\ Becomes(e, "astray")

Next ==
  \E e \in Events :
    Record(e) \/ Try(e) \/ Deliver(e) \/ Abandon(e) \/ GoAstray(e)

Spec == Init /\ [][Next]_vars

=============================================================================
