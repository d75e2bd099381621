-------------------------------- MODULE Access --------------------------------
(***************************************************************************)
(* Who gets in: the tokens of an account (Sessions) and the limiter in      *)
(* front of login and of every request (RateLimit).  The two share no       *)
(* state, so a behaviour is one of either.                                  *)
(***************************************************************************)
EXTENDS Naturals, Sequences

CONSTANTS Replicas, Requests, Secrets, AccessTTL, RefreshTTL, Leeway, MaxEvents,
          Keys, Callers, Limit, Window, MaxKeys, MaxWait, MaxClock, MaxTime

ASSUME AccessAssumption ==
  /\ {AccessTTL, RefreshTTL, Limit, Window, MaxKeys} \subseteq Nat \ {0}
  /\ {Leeway, MaxTime, MaxClock, MaxEvents} \subseteq Nat
  /\ MaxWait \in 0..Window
  /\ Secrets # {}

VARIABLES part, now, account, issued, deny, redis, sends, req, edits, faults, revoked,
          clock, shard, call, evicted

sessions == <<now, account, issued, deny, redis, sends, req, edits, faults, revoked>>
limiter == <<clock, shard, call, evicted>>

S == INSTANCE Sessions
L == INSTANCE RateLimit

Init == part \in {"sessions", "limiter"} /\ S!Init /\ L!Init

Next ==
  \/ part = "sessions" /\ S!Next /\ UNCHANGED <<part, limiter>>
  \/ part = "limiter" /\ L!Next /\ UNCHANGED <<part, sessions>>

Spec == Init /\ [][Next]_<<part, sessions, limiter>> /\ S!Fairness

RevokedHere == S!RevokedHere
RevocationSpreads == S!RevocationSpreads
MigrationKeepsPassword == S!MigrationKeepsPassword
BurstBounded == L!BurstBounded

===============================================================================
