------------------------------- MODULE Sessions -------------------------------
(***************************************************************************)
(* The tokens of one account on several replicas: login, refresh and        *)
(* logout (core.rs), validation of a token and the list of revoked ids that *)
(* each process keeps and shares through Redis (auth.rs), while the row of  *)
(* the account, its roles and its password are edited and time passes.      *)
(* Tokens are those the API signs itself; a token of another issuer has no  *)
(* id and cannot be revoked.  A request that the rate limiter refuses does  *)
(* nothing (module RateLimit).                                              *)
(***************************************************************************)
EXTENDS Naturals, Sequences, FiniteSets

CONSTANTS
  Replicas,    \* API processes
  Requests,    \* requests to /login, /token/refresh and /logout
  Secrets,     \* passwords a client may present
  AccessTTL,   \* JWT_ACCESS_TTL_SECS
  RefreshTTL,  \* JWT_REFRESH_TTL_SECS
  Leeway,      \* clock skew a decoder allows
  MaxTime,     \* bound on the clock
  MaxEvents    \* bound on edits of the account, failed queries, lost
               \* revocations and restarts

VARIABLES
  now,
  account,  \* flx_users row: enabled, password, its storage form; the roles
  issued,   \* claims of the tokens signed so far, by id
  deny,     \* DENYLIST of each replica: ids
  redis,    \* ids with a key flx:jwt:deny:<id>
  sends,    \* ids whose detached SET is under way
  req,      \* progress of each request
  edits, faults,
  revoked   \* ids revoked in each process since its start

vars == <<now, account, issued, deny, redis, sends, req, edits, faults, revoked>>
lists == <<deny, redis, sends, revoked>>

\* "" in the role claim: the query of flx_roles failed.
NoRoles == 0

Claims == [typ : {"access", "refresh"}, exp : Nat, roles : Nat]

Ids == DOMAIN issued

\* What a request holds: its replica and refresh token, the password that
\* was presented, the roles it read, and (ghost) the roles when it began.
Idle == [pc |-> "new", at |-> CHOOSE r \in Replicas : TRUE, id |-> 0,
         secret |-> CHOOSE s \in Secrets : TRUE, roles |-> NoRoles, from |-> 0]

Fault == faults + edits < MaxEvents /\ faults' = faults + 1

Over == [Idle EXCEPT !.pc = "ended"]

End(q) == req' = [req EXCEPT ![q] = Over]

Init ==
  /\ now = 0
  /\ account \in [enabled : {TRUE}, secret : {Idle.secret}, form : {"legacy"}, roles : {1}]
  \* A client has logged in.
  /\ issued = << [typ |-> "refresh", exp |-> RefreshTTL, roles |-> NoRoles],
                 [typ |-> "access", exp |-> AccessTTL, roles |-> 1] >>
  /\ deny = [r \in Replicas |-> {}]
  /\ redis = {}
  /\ sends = {}
  /\ req = [q \in Requests |-> Idle]
  /\ edits = 0 /\ faults = 0
  /\ revoked = [r \in Replicas |-> {}]

----------------------------------------------------------------------------
(* auth.rs: tokens and the denylist *)

\* Signature and expiry, as the decoder checks them.
Decodes(id) == id \in Ids /\ now <= issued[id].exp + Leeway

IsRevoked(r, id) == id \in deny[r]

\* validate_token: what the middleware lets through.
Accepted(r, id) == Decodes(id) /\ issued[id].typ # "refresh" /\ ~IsRevoked(r, id)

VerifiesRefresh(r, id) == Decodes(id) /\ issued[id].typ = "refresh" /\ ~IsRevoked(r, id)

\* Mutant: the id is only sent to Redis, from where it comes back.
RevokeRemotely(r, ids) ==
  LET live == {id \in ids : issued[id].exp > now} IN
  /\ sends' = sends \cup live
  /\ revoked' = [revoked EXCEPT ![r] = @ \cup live]
  /\ UNCHANGED deny

\* A token past its expiry is not listed.
Revoke(r, ids) ==
  LET live == {id \in ids : issued[id].exp > now} IN
  /\ deny' = [deny EXCEPT ![r] = @ \cup live]
  /\ sends' = sends \cup live
  /\ revoked' = [revoked EXCEPT ![r] = @ \cup live]

\* A refresh token and an access token.
Issue(roles) ==
  issued' = issued \o << [typ |-> "refresh", exp |-> now + RefreshTTL, roles |-> NoRoles],
                         [typ |-> "access", exp |-> now + AccessTTL, roles |-> roles] >>

\* The detached task of revoke; its errors are ignored.
Send(id) ==
  /\ id \in sends
  /\ redis' = redis \cup {id}
  /\ sends' = sends \ {id}
  /\ UNCHANGED <<now, account, issued, deny, req, edits, faults, revoked>>

SendFails(id) ==
  /\ id \in sends /\ Fault
  /\ sends' = sends \ {id}
  /\ UNCHANGED <<now, account, issued, deny, redis, req, edits, revoked>>

\* The key outlives the token: its time to live was computed before the SET.
KeyExpires(id) ==
  /\ id \in redis /\ now >= issued[id].exp
  /\ redis' = redis \ {id}
  /\ UNCHANGED <<now, account, issued, deny, sends, req, edits, faults, revoked>>

\* Mutant: the list is replaced by what Redis holds.
SyncReplaces(r) ==
  /\ deny' = [deny EXCEPT ![r] = redis]
  /\ UNCHANGED <<now, account, issued, redis, sends, req, edits, faults, revoked>>

\* Mutant: the sync only forgets.
SyncForgets(r) ==
  /\ deny' = [deny EXCEPT ![r] = {id \in @ : issued[id].exp > now}]
  /\ UNCHANGED <<now, account, issued, redis, sends, req, edits, faults, revoked>>

\* One round of spawn_denylist_sync.
Sync(r) ==
  /\ deny' = [deny EXCEPT ![r] = {id \in @ : issued[id].exp > now} \cup redis]
  /\ UNCHANGED <<now, account, issued, redis, sends, req, edits, faults, revoked>>

\* Redis does not answer in this round.
SyncFails(r) ==
  /\ Fault
  /\ deny' = [deny EXCEPT ![r] = {id \in @ : issued[id].exp > now}]
  /\ UNCHANGED <<now, account, issued, redis, sends, req, edits, revoked>>

\* The process starts anew: its list is empty until the first round.
Restart(r) ==
  /\ Fault
  /\ deny' = [deny EXCEPT ![r] = {}]
  /\ revoked' = [revoked EXCEPT ![r] = {}]
  /\ req' = [q \in Requests |->
       IF req[q].at = r /\ req[q].id # 0 THEN Over ELSE req[q]]
  /\ UNCHANGED <<now, account, issued, redis, sends, edits>>

----------------------------------------------------------------------------
(* core.rs: login *)

Begin(q, fields) ==
  /\ req[q].pc = "new"
  /\ req' = [req EXCEPT ![q] = [fields EXCEPT !.from = account.roles]]

\* The row of an enabled account is read and its password compared, the last
\* two awaits before anything is written: 401 otherwise.
LoginVerified(q, s) ==
  /\ account.enabled /\ account.secret = s
  /\ Begin(q, IF account.form = "legacy" THEN [Idle EXCEPT !.pc = "rehash", !.secret = s]
                                         ELSE [Idle EXCEPT !.pc = "roles"])
  /\ UNCHANGED <<now, account, issued, lists, edits, faults>>

\* Mutant: the text stored before is hashed, not the one presented.
RehashStored(q) ==
  /\ req[q].pc = "rehash"
  /\ \E s \in Secrets : account' = [account EXCEPT !.secret = s, !.form = "argon2"]
  /\ req' = [req EXCEPT ![q] = [@ EXCEPT !.pc = "roles", !.secret = Idle.secret]]
  /\ UNCHANGED <<now, issued, lists, edits, faults>>

\* The UPDATE names the id alone.
Rehash(q) ==
  /\ req[q].pc = "rehash"
  /\ account' = [account EXCEPT !.secret = req[q].secret, !.form = "argon2"]
  /\ req' = [req EXCEPT ![q] = [@ EXCEPT !.pc = "roles", !.secret = Idle.secret]]
  /\ UNCHANGED <<now, issued, lists, edits, faults>>

RehashFails(q) ==
  /\ req[q].pc = "rehash" /\ Fault
  /\ req' = [req EXCEPT ![q] = [@ EXCEPT !.pc = "roles", !.secret = Idle.secret]]
  /\ UNCHANGED <<now, account, issued, lists, edits>>

\* roles_for_user, of both handlers; an error counts as no roles.
ReadRoles(q) ==
  /\ req[q].pc \in {"roles", "reroles"}
  /\ \/ req' = [req EXCEPT ![q].roles = account.roles, ![q].pc = IF @ = "roles" THEN "issue" ELSE "rotate"]
        /\ UNCHANGED faults
     \/ req' = [req EXCEPT ![q].roles = NoRoles, ![q].pc = IF @ = "roles" THEN "issue" ELSE "rotate"]
        /\ Fault
  /\ UNCHANGED <<now, account, issued, lists, edits>>

LoginDone(q) ==
  /\ req[q].pc = "issue"
  /\ Issue(req[q].roles)
  /\ End(q)
  /\ UNCHANGED <<now, account, lists, edits, faults>>

----------------------------------------------------------------------------
(* core.rs: refresh and logout *)

RefreshVerify(q, r, id) ==
  /\ VerifiesRefresh(r, id)
  /\ Begin(q, [Idle EXCEPT !.pc = "user", !.at = r, !.id = id])
  /\ UNCHANGED <<now, account, issued, lists, edits, faults>>

\* The account must still be enabled; otherwise the token is revoked.
RefreshUser(q) ==
  /\ req[q].pc = "user"
  /\ IF account.enabled
       THEN req' = [req EXCEPT ![q].pc = "reroles"] /\ UNCHANGED lists
       ELSE Revoke(req[q].at, {req[q].id}) /\ End(q) /\ UNCHANGED redis
  /\ UNCHANGED <<now, account, issued, edits, faults>>

\* The presented token is revoked, a new pair is issued.
Rotate(q) ==
  /\ req[q].pc = "rotate"
  /\ Revoke(req[q].at, {req[q].id})
  /\ Issue(req[q].roles)
  /\ End(q)
  /\ UNCHANGED <<now, account, redis, edits, faults>>

\* 503; the token stays as it is.
QueryFails(q) ==
  /\ req[q].pc = "user" /\ Fault
  /\ End(q)
  /\ UNCHANGED <<now, account, issued, lists, edits>>

\* The access token the middleware let through, and a refresh token if the
\* header carries one that verifies.
Logout(q, r, access, refresh) ==
  /\ req[q].pc = "new"
  /\ Accepted(r, access)
  /\ Revoke(r, {access} \cup {id \in refresh : VerifiesRefresh(r, id)})
  /\ End(q)
  /\ UNCHANGED <<now, account, issued, redis, edits, faults>>

----------------------------------------------------------------------------
(* Time, and edits of the account through the API *)

Tick ==
  /\ now < MaxTime
  /\ now' = now + 1
  /\ UNCHANGED <<account, issued, lists, req, edits, faults>>

\* A password that is set is stored as an Argon2 hash.
Edited ==
  \/ \E on \in BOOLEAN \ {account.enabled} : account' = [account EXCEPT !.enabled = on]
  \/ account' = [account EXCEPT !.roles = @ + 1]
  \/ \E s \in Secrets \ {account.secret} : account' = [account EXCEPT !.secret = s, !.form = "argon2"]

Edit ==
  /\ faults + edits < MaxEvents /\ edits' = edits + 1
  /\ Edited
  /\ UNCHANGED <<now, issued, lists, req, faults>>

Handler(q) ==
  \/ Rehash(q) \/ RehashFails(q) \/ ReadRoles(q) \/ LoginDone(q)
  \/ RefreshUser(q) \/ Rotate(q) \/ QueryFails(q)
  \/ \E s \in Secrets : LoginVerified(q, s)
  \/ \E r \in Replicas :
       \/ \E id \in Ids : RefreshVerify(q, r, id)
       \/ \E access \in Ids, refresh \in {{}} \cup {{id} : id \in Ids} : Logout(q, r, access, refresh)

Next ==
  \/ \E q \in Requests : Handler(q)
  \/ \E id \in Ids : Send(id) \/ SendFails(id) \/ KeyExpires(id)
  \/ \E r \in Replicas : Sync(r) \/ SyncFails(r) \/ Restart(r)
  \/ Tick \/ Edit

\* The loop of spawn_denylist_sync never ends.
Fairness == \A r \in Replicas : WF_vars(Sync(r))

Spec == Init /\ [][Next]_vars /\ Fairness

----------------------------------------------------------------------------
(* Properties *)

TypeOK ==
  /\ now \in 0..MaxTime
  /\ \A id \in Ids : issued[id] \in Claims
  /\ \A r \in Replicas : deny[r] \subseteq Ids /\ revoked[r] \subseteq Ids
  /\ redis \subseteq Ids /\ sends \subseteq Ids

\* auth.rs:192, "revoke a token until it expires anyway": a process that has
\* revoked a token accepts it in no role before its expiry, whatever the other
\* replicas, Redis and the sync do meanwhile.
RevokedHere ==
  \A r \in Replicas : \A id \in revoked[r] :
    now < issued[id].exp => ~Accepted(r, id) /\ ~VerifiesRefresh(r, id)

\* auth.rs:178, "a logout propagates cluster-wide": what Redis lists is
\* refused by every replica some time later, or has expired.
RevocationSpreads ==
  \A id \in 1..2 : \A r \in Replicas :
    (id \in redis) ~> (IsRevoked(r, id) \/ now >= issued[id].exp)

\* core.rs:226: the migration to Argon2 leaves the password as it is, unless
\* it was changed after this login had read it.
MigrationKeepsPassword ==
  [][account'.form # account.form /\ edits' = edits => account'.secret = account.secret]_vars

=============================================================================
