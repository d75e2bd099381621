------------------------------ MODULE AccessProofs ------------------------------
(***************************************************************************)
(* Proofs about who gets in.  Of the tokens, for any replicas, requests,    *)
(* times to live and number of failures: what a process revoked it refuses, *)
(* and a migration keeps the password.  Of the limiter, for any keys,       *)
(* callers, limit and window: its bounds.  Of rules.json: how a decision    *)
(* depends on the roles of the caller.                                      *)
(***************************************************************************)
EXTENDS Access, AccessRules, TLAPS, SequenceTheorems, FiniteSetTheorems

----------------------------------------------------------------------------
(* The strengthening *)

RequestType ==
  [pc : {"new", "rehash", "roles", "issue", "user", "reroles", "rotate", "ended"},
   at : Replicas \cup {S!Idle.at}, id : Nat, secret : Secrets, roles : Nat, from : Nat]

\* Tokens and roles have their types.
TokensTyped ==
  /\ now \in Nat /\ issued \in Seq(S!Claims)
  /\ account \in [enabled : BOOLEAN, secret : Secrets, form : {"legacy", "argon2"}, roles : Nat]
  /\ deny \in [Replicas -> SUBSET Nat] /\ revoked \in [Replicas -> SUBSET Nat]
  /\ req \in [Requests -> RequestType]

\* A refresh under way holds a token that was issued.
RefreshHolds ==
  \A q \in Requests : req[q].pc \in {"user", "reroles", "rotate"} => req[q].id \in S!Ids

\* A process lists what it revoked until it expires.
Listed ==
  \A r \in Replicas : \A id \in revoked[r] :
    id \in S!Ids /\ (now < issued[id].exp => id \in deny[r])

SessionInv == TokensTyped /\ RefreshHolds /\ Listed

\* What goes through Redis are ids.
RedisTyped == redis \subseteq Nat /\ sends \subseteq Nat

----------------------------------------------------------------------------

LEMMA IssuedType ==
  ASSUME TokensTyped
  PROVE  /\ S!Ids = 1..Len(issued) /\ Len(issued) \in Nat
         /\ \A id \in S!Ids : id \in Nat /\ issued[id].exp \in Nat
  <1>1. S!Ids = 1..Len(issued) /\ Len(issued) \in Nat
    BY LenProperties DEF TokensTyped, S!Ids
  <1>2. \A id \in S!Ids : issued[id] \in S!Claims
    BY <1>1, ElementOfSeq DEF TokensTyped
  <1>3. QED
    BY <1>1, <1>2 DEF S!Claims

LEMMA IdleType ==
  /\ S!Idle \in RequestType /\ S!Idle.pc = "new" /\ S!Idle.secret \in Secrets
  /\ S!Over \in RequestType /\ S!Over.pc = "ended"
  <1>1. S!Idle = [pc |-> "new", at |-> S!Idle.at, id |-> 0, secret |-> S!Idle.secret, roles |-> 0, from |-> 0]
    BY DEF S!Idle, S!NoRoles
  <1>2. S!Idle.secret \in Secrets
    BY AccessAssumption DEF S!Idle
  <1>3. S!Over = [pc |-> "ended", at |-> S!Idle.at, id |-> 0, secret |-> S!Idle.secret, roles |-> 0, from |-> 0]
    BY <1>1 DEF S!Over
  <1>4. QED
    BY <1>1, <1>2, <1>3 DEF RequestType

\* A new pair of tokens leaves those issued before as they are.
LEMMA IssueFacts ==
  ASSUME TokensTyped, NEW roles \in Nat, S!Issue(roles)
  PROVE  /\ issued' \in Seq(S!Claims) /\ S!Ids \subseteq S!Ids'
         /\ \A id \in S!Ids : issued'[id] = issued[id]
  <1> DEFINE pair == << [typ |-> "refresh", exp |-> now + RefreshTTL, roles |-> S!NoRoles],
                        [typ |-> "access", exp |-> now + AccessTTL, roles |-> roles] >>
  <1>1. AccessTTL \in Nat /\ RefreshTTL \in Nat
    BY AccessAssumption
  <1>2. /\ [typ |-> "refresh", exp |-> now + RefreshTTL, roles |-> S!NoRoles] \in S!Claims
        /\ [typ |-> "access", exp |-> now + AccessTTL, roles |-> roles] \in S!Claims
    BY <1>1 DEF TokensTyped, S!Claims, S!NoRoles
  <1>3. pair \in Seq(S!Claims) /\ Len(pair) = 2
    BY <1>2
  <1>4. issued' = issued \o pair
    BY DEF S!Issue
  <1> HIDE DEF pair
  <1>5. /\ issued' \in Seq(S!Claims) /\ Len(issued') = Len(issued) + 2
        /\ \A id \in 1..Len(issued) : issued'[id] = issued[id]
    <2>1. issued \in Seq(S!Claims)
      BY DEF TokensTyped
    <2>2. /\ issued \o pair \in Seq(S!Claims) /\ Len(issued \o pair) = Len(issued) + Len(pair)
          /\ \A id \in 1..Len(issued) + Len(pair) : (issued \o pair)[id] =
               IF id <= Len(issued) THEN issued[id] ELSE pair[id - Len(issued)]
      BY <1>3, <2>1, ConcatProperties
    <2>3. Len(issued) \in Nat
      BY <2>1, LenProperties
    <2>4. QED
      BY <1>3, <1>4, <2>2, <2>3
  <1>6. S!Ids = 1..Len(issued) /\ S!Ids' = 1..Len(issued') /\ Len(issued) \in Nat
    BY <1>5, LenProperties DEF TokensTyped, S!Ids
  <1>7. QED
    BY <1>5, <1>6

\* A revocation lists the token on the replica where it happens.
LEMMA RevokeFacts ==
  ASSUME SessionInv, NEW r, NEW ids, ids \subseteq S!Ids, S!Revoke(r, ids)
  PROVE  /\ deny' \in [Replicas -> SUBSET Nat] /\ revoked' \in [Replicas -> SUBSET Nat]
         /\ \A s \in Replicas : \A id \in revoked'[s] :
              id \in S!Ids /\ (now < issued[id].exp => id \in deny'[s])
  <1> DEFINE live == {id \in ids : issued[id].exp > now}
  <1>1. live \subseteq S!Ids /\ live \subseteq Nat
    BY IssuedType DEF SessionInv
  <1>2. deny' = [deny EXCEPT ![r] = @ \cup live] /\ revoked' = [revoked EXCEPT ![r] = @ \cup live]
    BY DEF S!Revoke
  <1> HIDE DEF live
  <1>3. deny' \in [Replicas -> SUBSET Nat] /\ revoked' \in [Replicas -> SUBSET Nat]
    BY <1>1, <1>2 DEF SessionInv, TokensTyped
  <1>4. ASSUME NEW s \in Replicas
        PROVE  /\ deny'[s] = IF s = r THEN deny[s] \cup live ELSE deny[s]
               /\ revoked'[s] = IF s = r THEN revoked[s] \cup live ELSE revoked[s]
    BY <1>2 DEF SessionInv, TokensTyped
  <1>5. QED
    BY <1>1, <1>3, <1>4 DEF SessionInv, Listed

\* A step of one request.
LEMMA RequestFacts ==
  ASSUME TokensTyped, NEW q \in Requests, NEW x \in RequestType, req' = [req EXCEPT ![q] = x]
  PROVE  /\ req' \in [Requests -> RequestType] /\ req'[q] = x
         /\ \A p \in Requests : p # q => req'[p] = req[p]
  BY DEF TokensTyped

\* What any step has to keep.
LEMMA SessionFrame ==
  ASSUME SessionInv, TokensTyped', S!Ids \subseteq S!Ids', \A id \in S!Ids : issued'[id] = issued[id],
         now <= now',
         \A q \in Requests : req'[q].pc \in {"user", "reroles", "rotate"} => req'[q].id \in S!Ids',
         \A r \in Replicas : \A id \in revoked'[r] :
           id \in S!Ids /\ (now < issued[id].exp => id \in deny'[r])
  PROVE  SessionInv'
  <1>1. ASSUME NEW r \in Replicas, NEW id \in revoked'[r], now' < issued'[id].exp PROVE id \in deny'[r]
    <2>1. id \in S!Ids /\ issued'[id] = issued[id] /\ issued[id].exp \in Nat /\ now \in Nat /\ now' \in Nat
      BY IssuedType DEF SessionInv, TokensTyped
    <2>2. now < issued[id].exp
      BY <1>1, <2>1
    <2>3. QED
      BY <2>2
  <1>2. RefreshHolds' /\ Listed'
    BY <1>1 DEF RefreshHolds, Listed
  <1>3. QED
    BY <1>2 DEF SessionInv

\* A request goes on without a token being issued or revoked.
LEMMA ProgressInv ==
  ASSUME SessionInv, NEW q \in Requests, NEW x \in RequestType, req' = [req EXCEPT ![q] = x],
         x.pc \in {"user", "reroles", "rotate"} => x.id \in S!Ids,
         UNCHANGED <<now, issued, deny, revoked>>,
         account' \in [enabled : BOOLEAN, secret : Secrets, form : {"legacy", "argon2"}, roles : Nat]
  PROVE  SessionInv'
  <1>1. /\ req' \in [Requests -> RequestType] /\ req'[q] = x
        /\ \A p \in Requests : p # q => req'[p] = req[p]
    BY RequestFacts DEF SessionInv
  <1>2. S!Ids' = S!Ids
    BY DEF S!Ids
  <1>3. TokensTyped'
    BY <1>1 DEF SessionInv, TokensTyped
  <1>4. now <= now'
    BY DEF SessionInv, TokensTyped
  <1>5. QED
    BY <1>1, <1>2, <1>3, <1>4, SessionFrame DEF SessionInv, RefreshHolds, Listed

LEMMA LoginInv ==
  ASSUME SessionInv, NEW q \in Requests,
         \/ S!Rehash(q) \/ S!RehashFails(q) \/ S!ReadRoles(q) \/ \E s \in Secrets : S!LoginVerified(q, s)
  PROVE  SessionInv'
  <1>1. /\ req[q] \in RequestType /\ account.roles \in Nat
        /\ account \in [enabled : BOOLEAN, secret : Secrets, form : {"legacy", "argon2"}, roles : Nat]
    BY DEF SessionInv, TokensTyped
  <1>2. ASSUME NEW s \in Secrets, S!LoginVerified(q, s) PROVE SessionInv'
    <2> DEFINE fields == IF account.form = "legacy" THEN [S!Idle EXCEPT !.pc = "rehash", !.secret = s]
                                                    ELSE [S!Idle EXCEPT !.pc = "roles"]
               x == [fields EXCEPT !.from = account.roles]
    <2>1. req' = [req EXCEPT ![q] = x]
      BY <1>2 DEF S!LoginVerified, S!Begin
    <2>2. fields \in RequestType /\ fields.pc \in {"rehash", "roles"}
      BY IdleType DEF RequestType
    <2> HIDE DEF fields
    <2>3. x \in RequestType /\ x.pc \in {"rehash", "roles"}
      BY <1>1, <2>2 DEF RequestType
    <2>4. UNCHANGED <<now, account, issued, deny, revoked>>
      BY <1>2 DEF S!LoginVerified, S!lists
    <2> HIDE DEF x
    <2>5. QED
      BY <1>1, <2>1, <2>3, <2>4, ProgressInv
  <1>3. CASE S!Rehash(q) \/ S!RehashFails(q)
    <2> DEFINE x == [req[q] EXCEPT !.pc = "roles", !.secret = S!Idle.secret]
    <2>1. x \in RequestType /\ x.pc = "roles"
      BY <1>1, IdleType DEF RequestType
    <2>2. req' = [req EXCEPT ![q] = x] /\ UNCHANGED <<now, issued, deny, revoked>>
      BY <1>3 DEF S!Rehash, S!RehashFails, S!lists
    <2>3. account' \in [enabled : BOOLEAN, secret : Secrets, form : {"legacy", "argon2"}, roles : Nat]
      BY <1>1, <1>3 DEF S!Rehash, S!RehashFails, RequestType
    <2> HIDE DEF x
    <2>4. QED
      BY <2>1, <2>2, <2>3, ProgressInv
  <1>4. CASE S!ReadRoles(q)
    <2>1. PICK n \in Nat :
            req' = [req EXCEPT ![q].roles = n, ![q].pc = IF @ = "roles" THEN "issue" ELSE "rotate"]
      BY <1>1, <1>4 DEF S!ReadRoles, S!NoRoles
    <2> DEFINE x == [req[q] EXCEPT !.roles = n, !.pc = IF @ = "roles" THEN "issue" ELSE "rotate"]
    <2>2. req' = [req EXCEPT ![q] = x]
      BY <2>1 DEF SessionInv, TokensTyped
    <2>3. x \in RequestType /\ x.id = req[q].id
      BY <1>1 DEF RequestType
    <2>4. x.pc = "rotate" => req[q].pc = "reroles"
      BY <1>1, <1>4 DEF S!ReadRoles, RequestType
    <2>5. x.pc \in {"issue", "rotate"}
      BY <1>1 DEF RequestType
    <2>6. x.pc \in {"user", "reroles", "rotate"} => x.id \in S!Ids
      BY <2>3, <2>4, <2>5 DEF SessionInv, RefreshHolds
    <2>7. UNCHANGED <<now, account, issued, deny, revoked>>
      BY <1>4 DEF S!ReadRoles, S!lists
    <2> HIDE DEF x
    <2>8. QED
      BY <1>1, <2>2, <2>3, <2>6, <2>7, ProgressInv
  <1>5. QED
    BY <1>2, <1>3, <1>4

\* A request ends, with tokens issued or revoked.
LEMMA EndInv ==
  ASSUME SessionInv, NEW q \in Requests, S!End(q), UNCHANGED <<now, account>>,
         UNCHANGED issued \/ \E n \in Nat : S!Issue(n),
         \/ UNCHANGED <<deny, revoked>>
         \/ \E r : \E ids \in SUBSET S!Ids : S!Revoke(r, ids)
  PROVE  SessionInv'
  <1>1. /\ req' \in [Requests -> RequestType] /\ req'[q].pc = "ended"
        /\ \A p \in Requests : p # q => req'[p] = req[p]
    BY RequestFacts, IdleType DEF S!End, SessionInv
  <1>2. /\ issued' \in Seq(S!Claims) /\ S!Ids \subseteq S!Ids'
        /\ \A id \in S!Ids : issued'[id] = issued[id]
    <2>1. CASE UNCHANGED issued
      BY <2>1 DEF SessionInv, TokensTyped, S!Ids
    <2>2. ASSUME NEW n \in Nat, S!Issue(n)
          PROVE  /\ issued' \in Seq(S!Claims) /\ S!Ids \subseteq S!Ids'
                 /\ \A id \in S!Ids : issued'[id] = issued[id]
      BY <2>2, IssueFacts DEF SessionInv
    <2>3. QED
      BY <2>1, <2>2
  <1>3. /\ deny' \in [Replicas -> SUBSET Nat] /\ revoked' \in [Replicas -> SUBSET Nat]
        /\ \A s \in Replicas : \A id \in revoked'[s] :
             id \in S!Ids /\ (now < issued[id].exp => id \in deny'[s])
    <2>1. CASE UNCHANGED <<deny, revoked>>
      BY <2>1 DEF SessionInv, TokensTyped, Listed
    <2>2. ASSUME NEW r, NEW ids \in SUBSET S!Ids, S!Revoke(r, ids)
          PROVE  /\ deny' \in [Replicas -> SUBSET Nat] /\ revoked' \in [Replicas -> SUBSET Nat]
                 /\ \A s \in Replicas : \A id \in revoked'[s] :
                      id \in S!Ids /\ (now < issued[id].exp => id \in deny'[s])
      BY <2>2, RevokeFacts
    <2>3. QED
      BY <2>1, <2>2
  <1>4. TokensTyped' /\ now <= now'
    BY <1>1, <1>2, <1>3 DEF SessionInv, TokensTyped
  <1>5. \A p \in Requests : req'[p].pc \in {"user", "reroles", "rotate"} => req'[p].id \in S!Ids'
    BY <1>1, <1>2 DEF SessionInv, RefreshHolds
  <1>6. QED
    BY <1>2, <1>3, <1>4, <1>5, SessionFrame

LEMMA TokenRequestInv ==
  ASSUME SessionInv, NEW q \in Requests,
         \/ S!LoginDone(q) \/ S!RefreshUser(q) \/ S!Rotate(q) \/ S!QueryFails(q)
         \/ \E r \in Replicas : \/ \E id \in S!Ids : S!RefreshVerify(q, r, id)
                                \/ \E access \in S!Ids, refresh \in {{}} \cup {{id} : id \in S!Ids} :
                                     S!Logout(q, r, access, refresh)
  PROVE  SessionInv'
  <1>1. /\ req[q] \in RequestType /\ account.roles \in Nat /\ req[q].roles \in Nat
        /\ account \in [enabled : BOOLEAN, secret : Secrets, form : {"legacy", "argon2"}, roles : Nat]
    BY DEF SessionInv, TokensTyped, RequestType
  <1>2. req[q].pc \in {"user", "reroles", "rotate"} => {req[q].id} \in SUBSET S!Ids
    BY DEF SessionInv, RefreshHolds
  <1>3. CASE S!LoginDone(q)
    BY <1>1, <1>3, EndInv DEF S!LoginDone, S!lists
  <1>4. CASE S!QueryFails(q)
    BY <1>4, EndInv DEF S!QueryFails, S!lists
  <1>5. CASE S!Rotate(q)
    BY <1>1, <1>2, <1>5, EndInv DEF S!Rotate
  <1>6. CASE S!RefreshUser(q)
    <2>1. CASE account.enabled
      <3> DEFINE x == [req[q] EXCEPT !.pc = "reroles"]
      <3>1. req' = [req EXCEPT ![q] = x] /\ req[q].pc = "user"
        BY <1>6, <2>1 DEF S!RefreshUser, SessionInv, TokensTyped
      <3>2. x \in RequestType /\ x.id = req[q].id
        BY <1>1 DEF RequestType
      <3>3. UNCHANGED <<now, account, issued, deny, revoked>>
        BY <1>6, <2>1 DEF S!RefreshUser, S!lists
      <3>4. x.id \in S!Ids
        BY <3>1, <3>2 DEF SessionInv, RefreshHolds
      <3> HIDE DEF x
      <3>5. QED
        BY <1>1, <3>1, <3>2, <3>3, <3>4, ProgressInv
    <2>2. CASE ~account.enabled
      BY <1>2, <1>6, <2>2, EndInv DEF S!RefreshUser
    <2>3. QED
      BY <2>1, <2>2
  <1>7. ASSUME NEW r \in Replicas, NEW id \in S!Ids, S!RefreshVerify(q, r, id) PROVE SessionInv'
    <2> DEFINE fields == [S!Idle EXCEPT !.pc = "user", !.at = r, !.id = id]
               x == [fields EXCEPT !.from = account.roles]
    <2>1. req' = [req EXCEPT ![q] = x] /\ UNCHANGED <<now, account, issued, deny, revoked>>
      BY <1>7 DEF S!RefreshVerify, S!Begin, S!lists
    <2>2. fields \in RequestType /\ fields.id = id
      BY IdleType, IssuedType DEF RequestType, SessionInv
    <2> HIDE DEF fields
    <2>3. x \in RequestType /\ x.id = id
      BY <1>1, <2>2 DEF RequestType
    <2> HIDE DEF x
    <2>4. QED
      BY <1>1, <2>1, <2>3, ProgressInv
  <1>8. ASSUME NEW r \in Replicas, NEW access \in S!Ids, NEW refresh \in {{}} \cup {{id} : id \in S!Ids},
               S!Logout(q, r, access, refresh)
        PROVE  SessionInv'
    <2> DEFINE ids == {access} \cup {id \in refresh : S!VerifiesRefresh(r, id)}
    <2>1. ids \in SUBSET S!Ids
      OBVIOUS
    <2>2. S!Revoke(r, ids)
      BY <1>8 DEF S!Logout
    <2> HIDE DEF ids
    <2>3. QED
      BY <1>8, <2>1, <2>2, EndInv DEF S!Logout
  <1>9. QED
    BY <1>3, <1>4, <1>5, <1>6, <1>7, <1>8

\* The list is synchronised, or a process starts anew.
LEMMA ReplicaInv ==
  ASSUME SessionInv, RedisTyped, NEW r \in Replicas, S!Sync(r) \/ S!SyncFails(r) \/ S!Restart(r)
  PROVE  SessionInv'
  <1>1. UNCHANGED <<now, account, issued>> /\ S!Ids' = S!Ids
    BY DEF S!Sync, S!SyncFails, S!Restart, S!Ids
  <1>2. /\ req' \in [Requests -> RequestType]
        /\ \A q \in Requests : req'[q] = req[q] \/ req'[q].pc = "ended"
    BY IdleType DEF S!Sync, S!SyncFails, S!Restart, SessionInv, TokensTyped
  <1>3. deny' \in [Replicas -> SUBSET Nat] /\ revoked' \in [Replicas -> SUBSET Nat]
    BY DEF S!Sync, S!SyncFails, S!Restart, SessionInv, TokensTyped, RedisTyped
  <1>4. ASSUME NEW s \in Replicas, NEW id \in revoked'[s]
        PROVE  id \in S!Ids /\ (now < issued[id].exp => id \in deny'[s])
    <2>1. id \in revoked[s]
      BY DEF S!Sync, S!SyncFails, S!Restart, SessionInv, TokensTyped
    <2>2. id \in S!Ids /\ (now < issued[id].exp => id \in deny[s]) /\ issued[id].exp \in Nat /\ now \in Nat
      BY <2>1, IssuedType DEF SessionInv, Listed, TokensTyped
    <2>3. S!Restart(r) => s # r
      BY DEF S!Restart, SessionInv, TokensTyped
    <2>4. ASSUME now < issued[id].exp PROVE id \in deny'[s]
      BY <2>2, <2>3, <2>4 DEF S!Sync, S!SyncFails, S!Restart, SessionInv, TokensTyped
    <2>5. QED
      BY <2>2, <2>4
  <1>5. TokensTyped' /\ now <= now'
    BY <1>1, <1>2, <1>3 DEF SessionInv, TokensTyped
  <1>6. \A q \in Requests : req'[q].pc \in {"user", "reroles", "rotate"} => req'[q].id \in S!Ids'
    BY <1>1, <1>2 DEF SessionInv, RefreshHolds
  <1>7. QED
    BY <1>1, <1>4, <1>5, <1>6, SessionFrame

\* Time passes, the account is edited, ids go to Redis and expire there.
LEMMA WorldInv ==
  ASSUME SessionInv,
         \/ S!Tick \/ S!Edit
         \/ \E id \in S!Ids : S!Send(id) \/ S!SendFails(id) \/ S!KeyExpires(id)
  PROVE  SessionInv'
  <1>1. UNCHANGED <<issued, deny, revoked, req>>
    BY DEF S!Tick, S!Edit, S!Send, S!SendFails, S!KeyExpires, S!lists
  <1>2. now' \in Nat /\ now <= now'
    BY DEF S!Tick, S!Edit, S!Send, S!SendFails, S!KeyExpires, SessionInv, TokensTyped
  <1>3. account' \in [enabled : BOOLEAN, secret : Secrets, form : {"legacy", "argon2"}, roles : Nat]
    <2>1. CASE S!Edited
      <3>1. account.roles \in Nat /\ account \in [enabled : BOOLEAN, secret : Secrets, form : {"legacy", "argon2"}, roles : Nat]
        BY DEF SessionInv, TokensTyped
      <3>2. ASSUME NEW on \in BOOLEAN, account' = [account EXCEPT !.enabled = on]
            PROVE  account' \in [enabled : BOOLEAN, secret : Secrets, form : {"legacy", "argon2"}, roles : Nat]
        BY <3>1, <3>2
      <3>3. CASE account' = [account EXCEPT !.roles = @ + 1]
        BY <3>1, <3>3
      <3>4. ASSUME NEW s \in Secrets, account' = [account EXCEPT !.secret = s, !.form = "argon2"]
            PROVE  account' \in [enabled : BOOLEAN, secret : Secrets, form : {"legacy", "argon2"}, roles : Nat]
        BY <3>1, <3>4
      <3>5. QED
        BY <2>1, <3>2, <3>3, <3>4 DEF S!Edited
    <2>2. CASE UNCHANGED account
      BY <2>2 DEF SessionInv, TokensTyped
    <2>3. QED
      BY <2>1, <2>2 DEF S!Tick, S!Edit, S!Send, S!SendFails, S!KeyExpires
  <1>4. S!Ids' = S!Ids
    BY <1>1 DEF S!Ids
  <1>5. TokensTyped'
    BY <1>1, <1>2, <1>3 DEF SessionInv, TokensTyped
  <1>6. QED
    BY <1>1, <1>2, <1>4, <1>5, SessionFrame DEF SessionInv, RefreshHolds, Listed

LEMMA RedisStep ==
  ASSUME SessionInv, RedisTyped, S!Next
  PROVE  RedisTyped'
  <1>1. ASSUME NEW r, NEW ids \in SUBSET S!Ids, S!Revoke(r, ids), UNCHANGED redis PROVE RedisTyped'
    BY <1>1, IssuedType DEF S!Revoke, RedisTyped, SessionInv
  <1>2. ASSUME NEW q \in Requests, S!Handler(q) PROVE RedisTyped'
    <2>1. CASE UNCHANGED <<redis, sends>>
      BY <2>1 DEF RedisTyped
    <2>2. CASE S!Rotate(q) \/ (S!RefreshUser(q) /\ ~account.enabled)
      BY <1>1, <2>2 DEF S!Rotate, S!RefreshUser, SessionInv, RefreshHolds
    <2>3. ASSUME NEW r \in Replicas, NEW access \in S!Ids, NEW refresh \in {{}} \cup {{id} : id \in S!Ids},
                 S!Logout(q, r, access, refresh)
          PROVE  RedisTyped'
      BY <1>1, <2>3 DEF S!Logout
    <2>4. QED
      BY <1>2, <2>1, <2>2, <2>3 DEF S!Handler, S!Rehash, S!RehashFails, S!ReadRoles, S!LoginDone, S!LoginVerified,
         S!RefreshUser, S!QueryFails, S!RefreshVerify, S!lists
  <1>3. ASSUME NEW id \in S!Ids, S!Send(id) \/ S!SendFails(id) \/ S!KeyExpires(id) PROVE RedisTyped'
    BY <1>3 DEF S!Send, S!SendFails, S!KeyExpires, RedisTyped
  <1>4. ASSUME NEW r \in Replicas, S!Sync(r) \/ S!SyncFails(r) \/ S!Restart(r) PROVE RedisTyped'
    BY <1>4 DEF S!Sync, S!SyncFails, S!Restart, RedisTyped
  <1>5. CASE S!Tick \/ S!Edit
    BY <1>5 DEF S!Tick, S!Edit, S!lists, RedisTyped
  <1>6. QED
    BY <1>2, <1>3, <1>4, <1>5 DEF S!Next

\* Whatever replicas, requests and Redis do, the lists keep what was revoked on them.
THEOREM SessionInvariant == Spec => [](SessionInv /\ RedisTyped)
  <1>1. Init => SessionInv /\ RedisTyped
    <2> SUFFICES ASSUME S!Init PROVE SessionInv /\ RedisTyped
      BY DEF Init
    <2>1. AccessTTL \in Nat /\ RefreshTTL \in Nat
      BY AccessAssumption
    <2>2. /\ [typ |-> "refresh", exp |-> RefreshTTL, roles |-> S!NoRoles] \in S!Claims
          /\ [typ |-> "access", exp |-> AccessTTL, roles |-> 1] \in S!Claims
      BY <2>1 DEF S!Claims, S!NoRoles
    <2>3. issued \in Seq(S!Claims)
      BY <2>2 DEF S!Init
    <2>4. account \in [enabled : BOOLEAN, secret : Secrets, form : {"legacy", "argon2"}, roles : Nat]
      <3>1. account \in [enabled : {TRUE}, secret : {S!Idle.secret}, form : {"legacy"}, roles : {1}]
        BY DEF S!Init
      <3>2. S!Idle.secret \in Secrets
        BY IdleType
      <3>3. account = [enabled |-> account.enabled, secret |-> account.secret, form |-> account.form, roles |-> account.roles]
        BY <3>1
      <3>4. account.enabled = TRUE /\ account.secret \in Secrets /\ account.form = "legacy" /\ account.roles = 1
        BY <3>1, <3>2
      <3>5. account.enabled \in BOOLEAN
        BY <3>4
      <3>6. QED
        BY <3>3, <3>4, <3>5
    <2>5. TokensTyped
      BY <2>3, <2>4, IdleType DEF S!Init, TokensTyped
    <2>6. RefreshHolds
      BY IdleType DEF S!Init, RefreshHolds
    <2>7. Listed /\ RedisTyped
      BY DEF S!Init, Listed, RedisTyped
    <2>8. QED
      BY <2>5, <2>6, <2>7 DEF SessionInv
  <1>2. SessionInv /\ RedisTyped /\ [Next]_<<part, sessions, limiter>> => (SessionInv /\ RedisTyped)'
    <2> SUFFICES ASSUME SessionInv, RedisTyped, [Next]_<<part, sessions, limiter>> PROVE (SessionInv /\ RedisTyped)'
      OBVIOUS
    <2>1. CASE S!Next
      <3>1. ASSUME NEW q \in Requests, S!Handler(q) PROVE SessionInv'
        BY <3>1, LoginInv, TokenRequestInv DEF S!Handler
      <3>2. QED
        BY <2>1, <3>1, ReplicaInv, WorldInv, RedisStep DEF S!Next
    <2>2. CASE UNCHANGED sessions
      BY <2>2 DEF sessions, SessionInv, RedisTyped, TokensTyped, RefreshHolds, Listed, S!Ids
    <2>3. QED
      BY <2>1, <2>2 DEF Next
  <1>3. QED
    BY <1>1, <1>2, PTL DEF Spec

\* auth.rs, "revoke a token until it expires anyway": what a process has revoked it accepts
\* in no role before its expiry.
THEOREM RevokedStaysRevoked == Spec => []RevokedHere
  <1>1. SessionInv => RevokedHere
    BY DEF SessionInv, Listed, RevokedHere, S!RevokedHere, S!Accepted, S!VerifiesRefresh, S!IsRevoked
  <1>2. QED
    BY <1>1, SessionInvariant, PTL

----------------------------------------------------------------------------
(* The migration of a password *)

\* As long as the password is stored in its old form, nobody changed it, and a
\* login that is to hash it holds it.
Migrating ==
  /\ edits \in Nat
  /\ account.form = "legacy" =>
       \A q \in Requests : req[q].pc = "rehash" => req[q].secret = account.secret

\* What MigrationKeepsPassword says of a step.
PasswordKept == account'.form # account.form /\ edits' = edits => account'.secret = account.secret

\* A request goes on, to hash nothing or the password it was let in with.
LEMMA RequestMigrates ==
  ASSUME TokensTyped, Migrating, NEW q \in Requests, NEW x \in RequestType, req' = [req EXCEPT ![q] = x],
         x.pc = "rehash" => x.secret = account.secret, UNCHANGED <<account, edits>>
  PROVE  Migrating' /\ PasswordKept
  BY RequestFacts DEF Migrating, PasswordKept

LEMMA HandlerMigrates ==
  ASSUME TokensTyped, Migrating, NEW q \in Requests, S!Handler(q)
  PROVE  Migrating' /\ PasswordKept
  <1>0. /\ req[q] \in RequestType /\ account.roles \in Nat
        /\ account \in [enabled : BOOLEAN, secret : Secrets, form : {"legacy", "argon2"}, roles : Nat]
    BY DEF TokensTyped
  <1>1. ASSUME S!End(q), UNCHANGED <<account, edits>> PROVE Migrating' /\ PasswordKept
    BY <1>1, IdleType, RequestMigrates DEF S!End
  <1>2. ASSUME NEW s \in Secrets, S!LoginVerified(q, s) PROVE Migrating' /\ PasswordKept
    <2> DEFINE fields == IF account.form = "legacy" THEN [S!Idle EXCEPT !.pc = "rehash", !.secret = s]
                                                    ELSE [S!Idle EXCEPT !.pc = "roles"]
               x == [fields EXCEPT !.from = account.roles]
    <2>1. req' = [req EXCEPT ![q] = x] /\ UNCHANGED <<account, edits>> /\ account.secret = s
      BY <1>2 DEF S!LoginVerified, S!Begin
    <2>2. fields \in RequestType /\ (fields.pc = "rehash" => fields.secret = s)
      BY IdleType DEF RequestType
    <2> HIDE DEF fields
    <2>3. x \in RequestType /\ x.pc = fields.pc /\ x.secret = fields.secret
      BY <1>0, <2>2 DEF RequestType
    <2> HIDE DEF x
    <2>4. QED
      BY <2>1, <2>2, <2>3, RequestMigrates
  <1>3. CASE S!Rehash(q) \/ S!RehashFails(q)
    <2> DEFINE x == [req[q] EXCEPT !.pc = "roles", !.secret = S!Idle.secret]
    <2>1. x \in RequestType /\ x.pc = "roles"
      BY <1>0, IdleType DEF RequestType
    <2>2. req' = [req EXCEPT ![q] = x] /\ UNCHANGED edits /\ req[q].pc = "rehash"
      BY <1>3 DEF S!Rehash, S!RehashFails
    <2> HIDE DEF x
    <2>3. CASE S!Rehash(q)
      BY <1>0, <2>2, <2>3 DEF S!Rehash, Migrating, PasswordKept
    <2>4. CASE S!RehashFails(q)
      BY <2>1, <2>2, <2>4, RequestMigrates DEF S!RehashFails
    <2>5. QED
      BY <1>3, <2>3, <2>4
  <1>4. CASE S!ReadRoles(q)
    <2>1. PICK n \in Nat :
            req' = [req EXCEPT ![q].roles = n, ![q].pc = IF @ = "roles" THEN "issue" ELSE "rotate"]
      BY <1>0, <1>4 DEF S!ReadRoles, S!NoRoles
    <2> DEFINE x == [req[q] EXCEPT !.roles = n, !.pc = IF @ = "roles" THEN "issue" ELSE "rotate"]
    <2>2. req' = [req EXCEPT ![q] = x] /\ UNCHANGED <<account, edits>>
      BY <1>4, <2>1 DEF S!ReadRoles, TokensTyped
    <2>3. x \in RequestType /\ x.pc # "rehash"
      BY <1>0 DEF RequestType
    <2> HIDE DEF x
    <2>4. QED
      BY <2>2, <2>3, RequestMigrates
  <1>5. CASE S!RefreshUser(q)
    <2>1. CASE account.enabled
      <3> DEFINE x == [req[q] EXCEPT !.pc = "reroles"]
      <3>1. req' = [req EXCEPT ![q] = x] /\ UNCHANGED <<account, edits>>
        BY <1>5, <2>1 DEF S!RefreshUser, TokensTyped
      <3>2. x \in RequestType /\ x.pc # "rehash"
        BY <1>0 DEF RequestType
      <3> HIDE DEF x
      <3>3. QED
        BY <3>1, <3>2, RequestMigrates
    <2>2. CASE ~account.enabled
      BY <1>1, <1>5, <2>2 DEF S!RefreshUser
    <2>3. QED
      BY <2>1, <2>2
  <1>6. ASSUME NEW r \in Replicas, NEW id \in S!Ids, S!RefreshVerify(q, r, id) PROVE Migrating' /\ PasswordKept
    <2> DEFINE fields == [S!Idle EXCEPT !.pc = "user", !.at = r, !.id = id]
               x == [fields EXCEPT !.from = account.roles]
    <2>1. req' = [req EXCEPT ![q] = x] /\ UNCHANGED <<account, edits>>
      BY <1>6 DEF S!RefreshVerify, S!Begin
    <2>2. fields \in RequestType /\ fields.pc = "user"
      BY IdleType, IssuedType DEF RequestType
    <2> HIDE DEF fields
    <2>3. x \in RequestType /\ x.pc = "user"
      BY <1>0, <2>2 DEF RequestType
    <2> HIDE DEF x
    <2>4. QED
      BY <2>1, <2>3, RequestMigrates
  <1>7. QED
    BY <1>1, <1>2, <1>3, <1>4, <1>5, <1>6
       DEF S!Handler, S!LoginDone, S!Rotate, S!QueryFails, S!Logout

LEMMA MigrationStep ==
  ASSUME TokensTyped, Migrating, S!Next
  PROVE  Migrating' /\ PasswordKept
  <1>1. ASSUME NEW id \in S!Ids, S!Send(id) \/ S!SendFails(id) \/ S!KeyExpires(id) PROVE Migrating' /\ PasswordKept
    BY <1>1 DEF S!Send, S!SendFails, S!KeyExpires, Migrating, PasswordKept
  <1>2. ASSUME NEW r \in Replicas, S!Sync(r) \/ S!SyncFails(r) \/ S!Restart(r) PROVE Migrating' /\ PasswordKept
    BY <1>2, IdleType DEF S!Sync, S!SyncFails, S!Restart, Migrating, PasswordKept
  <1>3. CASE S!Tick
    BY <1>3 DEF S!Tick, Migrating, PasswordKept
  <1>4. CASE S!Edit
    <2>1. edits' = edits + 1 /\ UNCHANGED req
      BY <1>4 DEF S!Edit
    <2>2. account'.form = "legacy" => account.form = "legacy" /\ account'.secret = account.secret
      BY <1>4 DEF S!Edit, S!Edited, TokensTyped
    <2>3. QED
      BY <2>1, <2>2 DEF Migrating, PasswordKept
  <1>5. QED
    BY <1>1, <1>2, <1>3, <1>4, HandlerMigrates DEF S!Next

\* core.rs, the migration to Argon2: the hash that replaces a password is one of that
\* password, unless it was changed meanwhile.
THEOREM PasswordMigrates == Spec => MigrationKeepsPassword
  <1>1. Init => Migrating
    BY IdleType DEF Init, S!Init, Migrating
  <1>2. SessionInv /\ Migrating /\ [Next]_<<part, sessions, limiter>> => Migrating' /\ [PasswordKept]_S!vars
    <2> SUFFICES ASSUME SessionInv, Migrating, [Next]_<<part, sessions, limiter>>
                 PROVE  Migrating' /\ [PasswordKept]_S!vars
      OBVIOUS
    <2>1. CASE S!Next
      BY <2>1, MigrationStep DEF SessionInv
    <2>2. CASE UNCHANGED sessions
      BY <2>2 DEF sessions, S!vars, Migrating
    <2>3. QED
      BY <2>1, <2>2 DEF Next
  <1>3. QED
    BY <1>1, <1>2, SessionInvariant, PTL DEF Spec, MigrationKeepsPassword, S!MigrationKeepsPassword, PasswordKept

----------------------------------------------------------------------------
(* The limiter *)

CallType ==
  [pc : {"new"}] \cup [pc : {"waiting", "allowed", "denied"}, key : Keys, time : Nat]

\* A caller waits at most MaxWait with its time; windows opened in the past.
LimiterTyped ==
  /\ clock \in Nat
  /\ call \in [Callers -> CallType]
  /\ \A c \in Callers : call[c].pc = "waiting" => call[c].time <= clock /\ clock <= call[c].time + MaxWait
  /\ DOMAIN shard \subseteq Keys
  /\ \A k \in DOMAIN shard :
       /\ shard[k] \in [count : Nat, start : Nat]
       /\ shard[k].count <= Limit /\ shard[k].start <= clock

ShardBounded == IsFiniteSet(DOMAIN shard) /\ Cardinality(DOMAIN shard) <= MaxKeys

Grants(k) == {c \in Callers : call[c].pc = "allowed" /\ call[c].key = k}

AtMostLimit(G) == IsFiniteSet(G) /\ Cardinality(G) <= Limit

\* Of the calls let through for k, C are those of its window, B those of the
\* window before it, and the others are too old to share a span with a call
\* that is still to be let through.
Windows(k, B, C) ==
  /\ AtMostLimit(B) /\ AtMostLimit(C)
  /\ \A c \in Grants(k) \ (B \cup C) : call[c].time + Window < clock + MaxWait
  /\ k \in DOMAIN shard =>
       /\ Cardinality(C) = shard[k].count
       /\ \A b \in B : call[b].time < shard[k].start + MaxWait
       /\ \A c \in C : call[c].time < shard[k].start + Window
  /\ k \notin DOMAIN shard => C = {} /\ \A b \in B : call[b].time < clock

Windowed ==
  \A k \in Keys \ evicted : \E B \in SUBSET Grants(k) : \E C \in SUBSET Grants(k) : Windows(k, B, C)

Bursts ==
  \A k \in Keys \ evicted : \A from \in Nat :
    IsFiniteSet(L!Granted(k, from)) /\ Cardinality(L!Granted(k, from)) <= 2 * Limit

LimiterInv == LimiterTyped /\ ShardBounded /\ Windowed /\ Bursts

LEMMA LimiterConstants ==
  /\ Limit \in Nat \ {0} /\ Window \in Nat \ {0} /\ MaxKeys \in Nat \ {0}
  /\ MaxWait \in Nat /\ MaxWait <= Window
  BY AccessAssumption

LEMMA SameCardinality == \A set : L!Cardinality(set) = Cardinality(set)
  BY DEF L!Cardinality, Cardinality

LEMMA CallFacts ==
  ASSUME LimiterTyped, NEW c \in Callers, call[c].pc # "new"
  PROVE  call[c].key \in Keys /\ call[c].time \in Nat
  <1>1. call[c] \in CallType
    BY DEF LimiterTyped
  <1>2. QED
    BY <1>1 DEF CallType

\* The calls that were let through stay as they are, and time passes.
LEMMA NothingGranted ==
  ASSUME LimiterInv, LimiterTyped', clock <= clock', UNCHANGED evicted,
         DOMAIN shard' = DOMAIN shard, \A k \in DOMAIN shard : shard'[k] = shard[k],
         \A c \in Callers : /\ call'[c].pc = "allowed" <=> call[c].pc = "allowed"
                            /\ call[c].pc = "allowed" => call'[c] = call[c]
  PROVE  LimiterInv'
  <1>1. \A k : Grants(k)' = Grants(k)
    BY DEF Grants
  <1>2. \A k, from : L!Granted(k, from)' = L!Granted(k, from)
    BY DEF L!Granted
  <1>3. Bursts' /\ ShardBounded'
    BY <1>2 DEF LimiterInv, Bursts, ShardBounded
  <1>4. ASSUME NEW k \in Keys \ evicted PROVE \E B \in SUBSET Grants(k)' : \E C \in SUBSET Grants(k)' : Windows(k, B, C)'
    <2>1. PICK B \in SUBSET Grants(k) : \E C \in SUBSET Grants(k) : Windows(k, B, C)
      BY DEF LimiterInv, Windowed
    <2>2. PICK C \in SUBSET Grants(k) : Windows(k, B, C)
      BY <2>1
    <2>3. \A c \in Grants(k) : c \in Callers /\ call'[c] = call[c] /\ call[c].time \in Nat
      BY CallFacts DEF Grants, LimiterInv
    <2>4. clock \in Nat /\ clock' \in Nat
      BY DEF LimiterInv, LimiterTyped
    <2>5. \A c \in Grants(k) \ (B \cup C) : call'[c].time + Window < clock' + MaxWait
      BY <2>2, <2>3, <2>4, LimiterConstants DEF Windows
    <2>6. k \notin DOMAIN shard => \A b \in B : call'[b].time < clock'
      BY <2>2, <2>3, <2>4 DEF Windows
    <2>7. Windows(k, B, C)'
      BY <1>1, <2>2, <2>3, <2>5, <2>6 DEF Windows, AtMostLimit
    <2>8. QED
      BY <1>1, <2>7
  <1>5. Windowed'
    BY <1>4 DEF Windowed
  <1>6. QED
    BY <1>3, <1>5 DEF LimiterInv

\* A call of the present can only share a span with those of the last two windows.
LEMMA SpanOfTwo ==
  ASSUME LimiterInv, NEW c \in Callers, call[c].pc = "waiting", NEW k \in Keys \ evicted, k = call[c].key,
         NEW B, NEW C, AtMostLimit(B), AtMostLimit(C), c \in B \cup C,
         \A d \in Grants(k) \ (B \cup C) : call[d].time + Window < clock + MaxWait,
         call' = [call EXCEPT ![c].pc = "allowed"]
  PROVE  \A from \in Nat : IsFiniteSet(L!Granted(k, from)') /\ Cardinality(L!Granted(k, from)') <= 2 * Limit
  <1> TAKE from \in Nat
  <1> DEFINE span == from..from + Window - 2 * MaxWait
             G == {d \in Callers : call'[d].pc = "allowed" /\ call'[d].key = k /\ call'[d].time \in span}
  <1>0. L!Granted(k, from)' = G
    BY DEF L!Granted
  <1>1. /\ call \in [Callers -> CallType] /\ clock \in Nat /\ call[c] \in CallType
        /\ call[c].time \in Nat /\ clock <= call[c].time + MaxWait
    BY CallFacts DEF LimiterInv, LimiterTyped
  <1>2. /\ \A d \in Callers : d # c => call'[d] = call[d]
        /\ call'[c].key = k /\ call'[c].time = call[c].time
    BY <1>1 DEF CallType
  <1>3. CASE call[c].time \in span
    <2>1. ASSUME NEW d \in G, d \notin B \cup C PROVE FALSE
      <3>1. d # c /\ d \in Grants(k) /\ call[d].time \in span /\ call[d].time \in Nat
        BY <1>2, <2>1 DEF Grants
      <3>2. call[d].time + Window < clock + MaxWait
        BY <2>1, <3>1
      <3>3. QED
        BY <1>1, <1>3, <3>1, <3>2, LimiterConstants
    <2>2. G \subseteq B \cup C
      BY <2>1
    <2> HIDE DEF G
    <2>3. /\ IsFiniteSet(B \cup C)
          /\ Cardinality(B \cup C) = Cardinality(B) + Cardinality(C) - Cardinality(B \cap C)
      BY FS_Union DEF AtMostLimit
    <2>4. Cardinality(B) \in Nat /\ Cardinality(C) \in Nat /\ Cardinality(B \cap C) \in Nat
      BY FS_CardinalityType, FS_Intersection DEF AtMostLimit
    <2>5. IsFiniteSet(G) /\ Cardinality(G) <= Cardinality(B \cup C)
      BY <2>2, <2>3, FS_Subset
    <2>6. Cardinality(B \cup C) \in Nat /\ Cardinality(G) \in Nat
      BY <2>3, <2>5, FS_CardinalityType
    <2>7. Cardinality(G) <= 2 * Limit
      BY <2>3, <2>4, <2>5, <2>6, LimiterConstants DEF AtMostLimit
    <2>8. QED
      BY <1>0, <2>5, <2>7
  <1>4. CASE call[c].time \notin span
    <2>1. G = L!Granted(k, from)
      BY <1>1, <1>2, <1>4 DEF L!Granted
    <2> HIDE DEF G
    <2>2. QED
      BY <1>0, <2>1 DEF LimiterInv, Bursts
  <1>5. QED
    BY <1>3, <1>4

\* An answer is written into the record of its caller.
LEMMA AnswerFacts ==
  ASSUME LimiterTyped, NEW c \in Callers, call[c].pc = "waiting", NEW ok \in BOOLEAN, L!Answer(c, ok)
  PROVE  /\ call' \in [Callers -> CallType]
         /\ call'[c].pc = IF ok THEN "allowed" ELSE "denied"
         /\ call'[c].key = call[c].key /\ call'[c].time = call[c].time
         /\ \A d \in Callers : d # c => call'[d] = call[d]
         /\ call[c].key \in Keys /\ call[c].time \in Nat
         /\ call[c].time <= clock /\ clock <= call[c].time + MaxWait
         /\ \A d \in Callers : call'[d].pc = "waiting" => call'[d].time <= clock /\ clock <= call'[d].time + MaxWait
  <1>1. call \in [Callers -> CallType] /\ call[c] \in CallType
    BY DEF LimiterTyped
  <1>2. /\ call[c].key \in Keys /\ call[c].time \in Nat
        /\ call[c].time <= clock /\ clock <= call[c].time + MaxWait
    BY CallFacts DEF LimiterTyped
  <1> DEFINE x == [call[c] EXCEPT !.pc = IF ok THEN "allowed" ELSE "denied"]
  <1>3. /\ x \in CallType /\ x.pc = IF ok THEN "allowed" ELSE "denied"
        /\ x.key = call[c].key /\ x.time = call[c].time
    BY <1>1 DEF CallType, LimiterTyped
  <1>4. call' = [call EXCEPT ![c] = x]
    BY <1>1 DEF L!Answer
  <1> HIDE DEF x
  <1>5. /\ call' \in [Callers -> CallType] /\ call'[c] = x
        /\ \A d \in Callers : d # c => call'[d] = call[d]
    BY <1>1, <1>3, <1>4
  <1>6. QED
    BY <1>2, <1>3, <1>5 DEF LimiterTyped

\* Another key keeps its window, or lost it when it was over.
LEMMA OtherWindows ==
  ASSUME LimiterInv, LimiterTyped', clock' = clock, NEW j \in Keys \ evicted,
         Grants(j)' = Grants(j), \A d \in Grants(j) : call'[d] = call[d],
         j \in DOMAIN shard' => j \in DOMAIN shard /\ shard'[j] = shard[j],
         j \in DOMAIN shard \ DOMAIN shard' => shard[j].start + Window <= clock
  PROVE  \E B \in SUBSET Grants(j)' : \E C \in SUBSET Grants(j)' : Windows(j, B, C)'
  <1>1. PICK B \in SUBSET Grants(j) : \E C \in SUBSET Grants(j) : Windows(j, B, C)
    BY DEF LimiterInv, Windowed
  <1>2. PICK C \in SUBSET Grants(j) : Windows(j, B, C)
    BY <1>1
  <1>3. \A d \in Grants(j) : call[d].time \in Nat
    BY CallFacts DEF Grants, LimiterInv
  <1>4. clock \in Nat
    BY DEF LimiterInv, LimiterTyped
  <1>5. CASE j \in DOMAIN shard \ DOMAIN shard'
    <2>1. shard[j].start \in Nat
      BY <1>5 DEF LimiterInv, LimiterTyped
    <2>2. \A d \in C : call[d].time < clock
      BY <1>2, <1>3, <1>4, <1>5, <2>1, LimiterConstants DEF Windows
    <2>3. \A d \in Grants(j) \ C : call[d].time + Window < clock + MaxWait
      BY <1>2, <1>3, <1>4, <1>5, <2>1, LimiterConstants DEF Windows
    <2>4. AtMostLimit({}) /\ AtMostLimit(C)
      BY <1>2, FS_EmptySet, LimiterConstants DEF AtMostLimit, Windows
    <2>5. Windows(j, C, {})'
      BY <1>5, <2>2, <2>3, <2>4 DEF Windows, AtMostLimit
    <2>6. QED
      BY <2>5
  <1>6. CASE j \notin DOMAIN shard \ DOMAIN shard'
    <2>1. Windows(j, B, C)'
      BY <1>2, <1>6 DEF Windows, AtMostLimit
    <2>2. QED
      BY <2>1
  <1>7. QED
    BY <1>5, <1>6

\* A call is let through.
LEMMA CallGranted ==
  ASSUME LimiterInv, LimiterTyped', ShardBounded', clock' = clock, evicted \subseteq evicted',
         NEW c \in Callers, call[c].pc = "waiting", L!Answer(c, TRUE),
         \A j \in Keys \ evicted' : j # call[c].key =>
           /\ j \in DOMAIN shard' => j \in DOMAIN shard /\ shard'[j] = shard[j]
           /\ j \in DOMAIN shard \ DOMAIN shard' => shard[j].start + Window <= clock,
         call[c].key \in Keys \ evicted' =>
           \E B \in SUBSET Grants(call[c].key) : \E C \in SUBSET (Grants(call[c].key) \cup {c}) :
             /\ c \in C /\ AtMostLimit(B) /\ AtMostLimit(C)
             /\ \A d \in Grants(call[c].key) \ (B \cup C) : call[d].time + Window < clock + MaxWait
             /\ call[c].key \in DOMAIN shard' /\ Cardinality(C) = shard'[call[c].key].count
             /\ \A b \in B : call[b].time < shard'[call[c].key].start + MaxWait
             /\ \A d \in C : call[d].time < shard'[call[c].key].start + Window
  PROVE  LimiterInv'
  <1>0. PICK k : k = call[c].key
    OBVIOUS
  <1>1. /\ call'[c].pc = "allowed" /\ call'[c].key = k /\ call'[c].time = call[c].time
        /\ \A d \in Callers : d # c => call'[d] = call[d]
        /\ k \in Keys /\ call[c].time \in Nat
    BY <1>0, AnswerFacts DEF LimiterInv
  <1>2. /\ Grants(k)' = Grants(k) \cup {c} /\ c \notin Grants(k)
        /\ \A j \in Keys : j # k => Grants(j)' = Grants(j) /\ c \notin Grants(j)
    BY <1>1 DEF Grants
  <1>3. \A j : Grants(j) \subseteq Callers
    BY DEF Grants
  <1>4. ASSUME NEW j \in Keys \ evicted', j # k
        PROVE  /\ \E B \in SUBSET Grants(j)' : \E C \in SUBSET Grants(j)' : Windows(j, B, C)'
               /\ \A from \in Nat : IsFiniteSet(L!Granted(j, from)') /\ Cardinality(L!Granted(j, from)') <= 2 * Limit
    <2>1. Grants(j)' = Grants(j) /\ \A d \in Grants(j) : call'[d] = call[d]
      BY <1>1, <1>2, <1>3, <1>4
    <2>2. \E B \in SUBSET Grants(j)' : \E C \in SUBSET Grants(j)' : Windows(j, B, C)'
      BY <1>0, <1>4, <2>1, OtherWindows
    <2>3. \A from \in Nat : L!Granted(j, from)' = L!Granted(j, from)
      BY <1>1, <1>4 DEF L!Granted
    <2>4. QED
      BY <1>4, <2>2, <2>3 DEF LimiterInv, Bursts
  <1>5. ASSUME k \in Keys \ evicted'
        PROVE  /\ \E B \in SUBSET Grants(k)' : \E C \in SUBSET Grants(k)' : Windows(k, B, C)'
               /\ \A from \in Nat : IsFiniteSet(L!Granted(k, from)') /\ Cardinality(L!Granted(k, from)') <= 2 * Limit
    <2>1. PICK B \in SUBSET Grants(k) : \E C \in SUBSET (Grants(k) \cup {c}) :
             /\ c \in C /\ AtMostLimit(B) /\ AtMostLimit(C)
             /\ \A d \in Grants(k) \ (B \cup C) : call[d].time + Window < clock + MaxWait
             /\ k \in DOMAIN shard' /\ Cardinality(C) = shard'[k].count
             /\ \A b \in B : call[b].time < shard'[k].start + MaxWait
             /\ \A d \in C : call[d].time < shard'[k].start + Window
      BY <1>0, <1>5
    <2>2. PICK C \in SUBSET (Grants(k) \cup {c}) :
             /\ c \in C /\ AtMostLimit(B) /\ AtMostLimit(C)
             /\ \A d \in Grants(k) \ (B \cup C) : call[d].time + Window < clock + MaxWait
             /\ k \in DOMAIN shard' /\ Cardinality(C) = shard'[k].count
             /\ \A b \in B : call[b].time < shard'[k].start + MaxWait
             /\ \A d \in C : call[d].time < shard'[k].start + Window
      BY <2>1
    <2>3. \A d \in Grants(k) \cup {c} : call'[d].time = call[d].time
      BY <1>1, <1>2, <1>3
    <2>4. B \in SUBSET Grants(k)' /\ C \in SUBSET Grants(k)'
      BY <1>2, <2>2
    <2>5. Windows(k, B, C)'
      BY <1>2, <2>2, <2>3 DEF Windows, AtMostLimit
    <2>6. \A from \in Nat : IsFiniteSet(L!Granted(k, from)') /\ Cardinality(L!Granted(k, from)') <= 2 * Limit
      <3>1. call' = [call EXCEPT ![c].pc = "allowed"]
        BY DEF L!Answer
      <3>2. k \in Keys \ evicted /\ c \in B \cup C
        BY <1>5, <2>2
      <3>3. QED
        BY <1>0, <2>2, <3>1, <3>2, SpanOfTwo
    <2>7. QED
      BY <2>4, <2>5, <2>6
  <1>6. Windowed' /\ Bursts'
    BY <1>4, <1>5 DEF Windowed, Bursts
  <1>7. QED
    BY <1>6 DEF LimiterInv

----------------------------------------------------------------------------

LEMMA KnownInv ==
  ASSUME LimiterInv, NEW c \in Callers, L!Known(c)
  PROVE  LimiterInv'
  <1>0. PICK k : k = call[c].key
    OBVIOUS
  <1> DEFINE over == L!Since(call[c].time, shard[k].start) >= Window
             ok == over \/ shard[k].count < Limit
             slot == IF over THEN L!Opened(call[c].time)
                     ELSE IF shard[k].count >= Limit THEN shard[k] ELSE [shard[k] EXCEPT !.count = @ + 1]
  <1>1. /\ call[c].pc = "waiting" /\ k \in DOMAIN shard /\ L!Answer(c, ok)
        /\ shard' = [shard EXCEPT ![k] = slot] /\ UNCHANGED <<clock, evicted>>
    <2>1. call[c].pc = "waiting" /\ k \in DOMAIN shard /\ UNCHANGED <<clock, evicted>>
      BY <1>0 DEF L!Known
    <2>2. L!Answer(c, ok)
      BY <1>0 DEF L!Known, L!Answer
    <2>3. shard' = [shard EXCEPT ![k] = slot]
      BY <1>0, <2>1 DEF L!Known
    <2>4. QED
      BY <2>1, <2>2, <2>3
  <1>2. LimiterTyped
    BY DEF LimiterInv
  <1>3. /\ call' \in [Callers -> CallType]
        /\ call'[c].pc = IF ok THEN "allowed" ELSE "denied"
        /\ \A d \in Callers : d # c => call'[d] = call[d]
        /\ k \in Keys /\ call[c].time \in Nat /\ call[c].time <= clock /\ clock <= call[c].time + MaxWait
        /\ \A d \in Callers : call'[d].pc = "waiting" => call'[d].time <= clock /\ clock <= call'[d].time + MaxWait
    BY <1>0, <1>1, <1>2, AnswerFacts
  <1>4. /\ shard[k] \in [count : Nat, start : Nat] /\ shard[k].count <= Limit
        /\ shard[k].count \in Nat /\ shard[k].start \in Nat /\ clock \in Nat
    BY <1>1, <1>2 DEF LimiterTyped
  <1>5. over => call[c].time >= shard[k].start + Window
    BY <1>3, <1>4, LimiterConstants DEF L!Since
  <1>6. ~over => call[c].time < shard[k].start + Window
    BY <1>3, <1>4, LimiterConstants DEF L!Since
  <1>7. /\ slot \in [count : Nat, start : Nat] /\ slot.count <= Limit /\ slot.start <= clock
        /\ over => slot.count = 1 /\ slot.start = call[c].time
        /\ ~over => slot.start = shard[k].start
        /\ ~over /\ shard[k].count < Limit => slot.count = shard[k].count + 1
        /\ ~ok => slot = shard[k]
    BY <1>1, <1>2, <1>3, <1>4, LimiterConstants DEF L!Opened, LimiterTyped
  <1> HIDE DEF over, slot
  <1>8. DOMAIN shard' = DOMAIN shard /\ shard'[k] = slot /\ \A j \in DOMAIN shard : j # k => shard'[j] = shard[j]
    BY <1>1
  <1>9. LimiterTyped' /\ ShardBounded'
    BY <1>1, <1>2, <1>3, <1>7, <1>8 DEF LimiterTyped, LimiterInv, ShardBounded
  <1>10. CASE ~ok
    <2>1. \A j \in DOMAIN shard : shard'[j] = shard[j]
      BY <1>7, <1>8, <1>10
    <2>2. \A d \in Callers : /\ call'[d].pc = "allowed" <=> call[d].pc = "allowed"
                             /\ call[d].pc = "allowed" => call'[d] = call[d]
      BY <1>1, <1>3, <1>10
    <2>3. QED
      BY <1>1, <1>4, <1>8, <1>9, <2>1, <2>2, NothingGranted
  <1>11. CASE ok
    <2>0. L!Answer(c, TRUE)
      BY <1>1, <1>11
    <2>1. ASSUME k \in Keys \ evicted
          PROVE  \E B \in SUBSET Grants(k) : \E C \in SUBSET (Grants(k) \cup {c}) :
             /\ c \in C /\ AtMostLimit(B) /\ AtMostLimit(C)
             /\ \A d \in Grants(k) \ (B \cup C) : call[d].time + Window < clock + MaxWait
             /\ k \in DOMAIN shard' /\ Cardinality(C) = shard'[k].count
             /\ \A b \in B : call[b].time < shard'[k].start + MaxWait
             /\ \A d \in C : call[d].time < shard'[k].start + Window
      <3>1. PICK B \in SUBSET Grants(k) : \E C \in SUBSET Grants(k) : Windows(k, B, C)
        BY <2>1 DEF LimiterInv, Windowed
      <3>2. PICK C \in SUBSET Grants(k) : Windows(k, B, C)
        BY <3>1
      <3>3. /\ AtMostLimit(B) /\ AtMostLimit(C) /\ Cardinality(C) = shard[k].count
            /\ \A d \in Grants(k) \ (B \cup C) : call[d].time + Window < clock + MaxWait
            /\ \A b \in B : call[b].time < shard[k].start + MaxWait
            /\ \A d \in C : call[d].time < shard[k].start + Window
        BY <1>1, <3>2 DEF Windows
      <3>4. \A d \in Grants(k) : call[d].time \in Nat
        BY <1>2, CallFacts DEF Grants
      <3>5. c \notin Grants(k)
        BY <1>1 DEF Grants
      <3>6. CASE over
        <4>1. AtMostLimit({c}) /\ Cardinality({c}) = 1
          <5>1. IsFiniteSet({c}) /\ Cardinality({c}) = 1
            BY FS_Singleton
          <5>2. QED
            BY <5>1, LimiterConstants DEF AtMostLimit
        <4>2. \A d \in C : call[d].time < call[c].time + MaxWait
          BY <1>3, <1>4, <1>5, <3>3, <3>4, <3>6, LimiterConstants
        <4>3. \A d \in Grants(k) \ (C \cup {c}) : call[d].time + Window < clock + MaxWait
          BY <1>3, <1>4, <1>5, <3>3, <3>4, <3>6, LimiterConstants
        <4>4. call[c].time < call[c].time + Window
          BY <1>3, LimiterConstants
        <4>5. QED
          BY <1>1, <1>7, <1>8, <3>3, <3>6, <4>1, <4>2, <4>3, <4>4
      <3>7. CASE ~over
        <4>1. shard[k].count < Limit
          BY <1>11, <3>7
        <4>2. IsFiniteSet(C \cup {c}) /\ Cardinality(C \cup {c}) = Cardinality(C) + 1
          BY <3>3, <3>5, FS_AddElement DEF AtMostLimit
        <4>3. AtMostLimit(C \cup {c})
          BY <1>4, <3>3, <4>1, <4>2, LimiterConstants DEF AtMostLimit
        <4>4. QED
          BY <1>1, <1>6, <1>7, <1>8, <3>3, <3>7, <4>1, <4>2, <4>3
      <3>8. QED
        BY <3>6, <3>7
    <2>2. QED
      BY <1>0, <1>1, <1>8, <1>9, <2>0, <2>1, CallGranted
  <1>12. QED
    BY <1>10, <1>11

\* Room is made by removing windows that are over, or one that is not.
LEMMA RoomFacts ==
  ASSUME LimiterTyped, ShardBounded, NEW t \in Nat, NEW kept \in L!RoomFor(t)
  PROVE  kept \subseteq DOMAIN shard /\ IsFiniteSet(kept) /\ Cardinality(kept) < MaxKeys
  <1> DEFINE live == {k \in DOMAIN shard : L!Since(t, shard[k].start) < Window}
  <1>1. live \subseteq DOMAIN shard
    OBVIOUS
  <1>2. \/ kept = DOMAIN shard /\ Cardinality(DOMAIN shard) < MaxKeys
        \/ kept = live /\ Cardinality(live) < MaxKeys
        \/ \E k \in live : kept = live \ {k}
    <2>1. CASE Cardinality(DOMAIN shard) < MaxKeys
      BY <2>1, SameCardinality DEF L!RoomFor
    <2>2. CASE ~(Cardinality(DOMAIN shard) < MaxKeys)
      <3>1. kept \in IF Cardinality(live) < MaxKeys THEN {live} ELSE {live \ {k} : k \in live}
        BY <2>2, SameCardinality DEF L!RoomFor
      <3> HIDE DEF live
      <3>2. QED
        BY <3>1
    <2>3. QED
      BY <2>1, <2>2
  <1> HIDE DEF live
  <1>3. IsFiniteSet(live) /\ Cardinality(live) <= Cardinality(DOMAIN shard)
    BY <1>1, FS_Subset DEF ShardBounded
  <1>4. Cardinality(live) \in Nat /\ Cardinality(DOMAIN shard) \in Nat
    BY <1>3, FS_CardinalityType DEF ShardBounded
  <1>5. ASSUME NEW k \in live, kept = live \ {k} PROVE IsFiniteSet(kept) /\ Cardinality(kept) < MaxKeys
    <2>1. IsFiniteSet(kept) /\ Cardinality(kept) = Cardinality(live) - 1
      BY <1>3, <1>5, FS_RemoveElement
    <2>2. QED
      BY <1>3, <1>4, <2>1, LimiterConstants DEF ShardBounded
  <1>6. QED
    BY <1>1, <1>2, <1>3, <1>5 DEF ShardBounded

LEMMA UnknownInv ==
  ASSUME LimiterInv, NEW c \in Callers, L!Unknown(c)
  PROVE  LimiterInv'
  <1>0. PICK k : k = call[c].key
    OBVIOUS
  <1>1. PICK kept \in L!RoomFor(call[c].time) :
          /\ shard' = [x \in kept \cup {k} |-> IF x = k THEN L!Opened(call[c].time) ELSE shard[x]]
          /\ evicted' = evicted \cup {x \in DOMAIN shard \ kept : L!Since(clock, shard[x].start) < Window}
    BY <1>0 DEF L!Unknown
  <1>2. /\ call[c].pc = "waiting" /\ k \notin DOMAIN shard /\ L!Answer(c, TRUE) /\ clock' = clock
    BY <1>0 DEF L!Unknown
  <1>3. LimiterTyped /\ ShardBounded
    BY DEF LimiterInv
  <1>4. /\ call' \in [Callers -> CallType]
        /\ k \in Keys /\ call[c].time \in Nat /\ call[c].time <= clock /\ clock <= call[c].time + MaxWait
        /\ \A d \in Callers : call'[d].pc = "waiting" => call'[d].time <= clock /\ clock <= call'[d].time + MaxWait
    BY <1>0, <1>2, <1>3, AnswerFacts
  <1>5. kept \subseteq DOMAIN shard /\ IsFiniteSet(kept) /\ Cardinality(kept) < MaxKeys
    BY <1>3, <1>4, RoomFacts
  <1>6. DOMAIN shard' = kept \cup {k} /\ shard'[k] = [count |-> 1, start |-> call[c].time]
        /\ \A j \in kept : shard'[j] = shard[j]
    BY <1>1, <1>2, <1>5 DEF L!Opened
  <1>7. LimiterTyped'
    <2>1. clock' \in Nat
      BY <1>2, <1>3 DEF LimiterTyped
    <2>2. DOMAIN shard' \subseteq Keys
      BY <1>3, <1>4, <1>5, <1>6 DEF LimiterTyped
    <2>3. ASSUME NEW j \in DOMAIN shard'
          PROVE  shard'[j] \in [count : Nat, start : Nat] /\ shard'[j].count <= Limit /\ shard'[j].start <= clock
      <3>1. CASE j = k
        BY <1>4, <1>6, <3>1, LimiterConstants
      <3>2. CASE j # k
        BY <1>3, <1>5, <1>6, <2>3, <3>2 DEF LimiterTyped
      <3>3. QED
        BY <3>1, <3>2
    <2>4. QED
      BY <1>2, <1>4, <2>1, <2>2, <2>3 DEF LimiterTyped
  <1>8. ShardBounded'
    <2>1. k \notin kept
      BY <1>2, <1>5
    <2>2. IsFiniteSet(kept \cup {k}) /\ Cardinality(kept \cup {k}) = Cardinality(kept) + 1
      BY <1>5, <2>1, FS_AddElement
    <2>3. Cardinality(kept) \in Nat
      BY <1>5, FS_CardinalityType
    <2>4. QED
      BY <1>5, <1>6, <2>2, <2>3, LimiterConstants DEF ShardBounded
  <1>9. ASSUME NEW j \in Keys \ evicted', j # k
        PROVE  /\ j \in DOMAIN shard' => j \in DOMAIN shard /\ shard'[j] = shard[j]
               /\ j \in DOMAIN shard \ DOMAIN shard' => shard[j].start + Window <= clock
    <2>1. j \in DOMAIN shard' => j \in DOMAIN shard /\ shard'[j] = shard[j]
      BY <1>5, <1>6, <1>9
    <2>2. ASSUME j \in DOMAIN shard \ DOMAIN shard' PROVE shard[j].start + Window <= clock
      <3>1. ~(L!Since(clock, shard[j].start) < Window)
        BY <1>1, <1>6, <1>9, <2>2
      <3>2. shard[j].start \in Nat /\ clock \in Nat
        BY <1>3, <2>2 DEF LimiterTyped
      <3>3. QED
        BY <3>1, <3>2, LimiterConstants DEF L!Since
    <2>3. QED
      BY <2>1, <2>2
  <1>10. ASSUME k \in Keys \ evicted'
         PROVE  \E B \in SUBSET Grants(k) : \E C \in SUBSET (Grants(k) \cup {c}) :
             /\ c \in C /\ AtMostLimit(B) /\ AtMostLimit(C)
             /\ \A d \in Grants(k) \ (B \cup C) : call[d].time + Window < clock + MaxWait
             /\ k \in DOMAIN shard' /\ Cardinality(C) = shard'[k].count
             /\ \A b \in B : call[b].time < shard'[k].start + MaxWait
             /\ \A d \in C : call[d].time < shard'[k].start + Window
    <2>0. k \in Keys \ evicted
      BY <1>1, <1>10
    <2>1. PICK B \in SUBSET Grants(k) : \E C \in SUBSET Grants(k) : Windows(k, B, C)
      BY <2>0 DEF LimiterInv, Windowed
    <2>2. /\ AtMostLimit(B)
          /\ \A d \in Grants(k) \ B : call[d].time + Window < clock + MaxWait
          /\ \A b \in B : call[b].time < clock
      BY <1>2, <2>1 DEF Windows
    <2>3. AtMostLimit({c}) /\ Cardinality({c}) = 1
      BY FS_Singleton, LimiterConstants DEF AtMostLimit
    <2>4. \A d \in Grants(k) : call[d].time \in Nat
      BY <1>3, CallFacts DEF Grants
    <2>5. clock \in Nat
      BY <1>3 DEF LimiterTyped
    <2>6. \A b \in B : call[b].time < call[c].time + MaxWait
      BY <1>4, <2>2, <2>4, <2>5, LimiterConstants
    <2>7. call[c].time < call[c].time + Window
      BY <1>4, LimiterConstants
    <2>8. QED
      BY <1>6, <2>2, <2>3, <2>6, <2>7
  <1>11. evicted \subseteq evicted'
    BY <1>1
  <1>12. QED
    BY <1>0, <1>2, <1>7, <1>8, <1>9, <1>10, <1>11, CallGranted

LEMMA ArriveInv ==
  ASSUME LimiterInv, NEW c \in Callers, NEW k \in Keys, L!Arrive(c, k)
  PROVE  LimiterInv'
  <1> DEFINE x == [pc |-> "waiting", key |-> k, time |-> clock]
  <1>1. /\ call \in [Callers -> CallType] /\ clock \in Nat
        /\ call[c].pc = "new" /\ call' = [call EXCEPT ![c] = x] /\ UNCHANGED <<clock, shard, evicted>>
    BY DEF LimiterInv, LimiterTyped, L!Arrive
  <1>2. x \in CallType /\ x.pc = "waiting" /\ x.time = clock
    BY <1>1 DEF CallType
  <1> HIDE DEF x
  <1>3. /\ call' \in [Callers -> CallType] /\ call'[c] = x
        /\ \A d \in Callers : d # c => call'[d] = call[d]
    BY <1>1, <1>2
  <1>4. clock <= clock + MaxWait
    BY <1>1, LimiterConstants
  <1>5. LimiterTyped'
    BY <1>1, <1>2, <1>3, <1>4 DEF LimiterInv, LimiterTyped
  <1>6. \A d \in Callers : /\ call'[d].pc = "allowed" <=> call[d].pc = "allowed"
                           /\ call[d].pc = "allowed" => call'[d] = call[d]
    BY <1>1, <1>2, <1>3
  <1>7. QED
    BY <1>1, <1>5, <1>6, NothingGranted

LEMMA TickInv ==
  ASSUME LimiterInv, L!Tick
  PROVE  LimiterInv'
  <1>1. /\ clock \in Nat /\ clock' = clock + 1 /\ UNCHANGED <<shard, call, evicted>>
        /\ \A c \in Callers : call[c].pc = "waiting" => clock - call[c].time < MaxWait
    BY DEF LimiterInv, LimiterTyped, L!Tick
  <1>2. ASSUME NEW c \in Callers, call[c].pc = "waiting"
        PROVE  call[c].time <= clock + 1 /\ clock + 1 <= call[c].time + MaxWait
    <2>1. call[c].time \in Nat /\ call[c].time <= clock
      BY <1>2, CallFacts DEF LimiterInv, LimiterTyped
    <2>2. QED
      BY <1>1, <1>2, <2>1, LimiterConstants
  <1>3. ASSUME NEW k \in DOMAIN shard PROVE shard[k].start <= clock + 1
    <2>1. shard[k].start \in Nat /\ shard[k].start <= clock
      BY DEF LimiterInv, LimiterTyped
    <2>2. QED
      BY <1>1, <2>1
  <1>4. LimiterTyped'
    BY <1>1, <1>2, <1>3 DEF LimiterInv, LimiterTyped
  <1>5. QED
    BY <1>1, <1>4, NothingGranted

\* rate_limit.rs: no span of a window, less twice the longest wait for the lock, holds more
\* than two limits of one key, whatever callers, removals and evictions of other keys
\* interleave; and the shard never outgrows its bound.
THEOREM BurstsBounded == Spec => []BurstBounded
  <1>1. Init => LimiterInv
    <2> SUFFICES ASSUME L!Init PROVE LimiterInv
      BY DEF Init
    <2>1. IsFiniteSet({}) /\ Cardinality({}) = 0
      BY FS_EmptySet
    <2>2. [pc |-> "new"] \in CallType
      BY DEF CallType
    <2>3. call \in [Callers -> CallType] /\ \A c \in Callers : call[c].pc = "new"
      BY <2>2 DEF L!Init
    <2>4. DOMAIN shard = {} /\ clock = 0
      BY DEF L!Init
    <2>5. LimiterTyped /\ ShardBounded
      BY <2>1, <2>3, <2>4, LimiterConstants DEF LimiterTyped, ShardBounded
    <2>6. \A k : Windows(k, {}, {}) 
      BY <2>1, <2>3, <2>4, LimiterConstants DEF Windows, AtMostLimit, Grants
    <2>7. Windowed
      BY <2>6 DEF Windowed
    <2>8. \A k, from : L!Granted(k, from) = {}
      BY <2>3 DEF L!Granted
    <2>9. Bursts
      <3>1. 0 <= 2 * Limit
        BY LimiterConstants
      <3>2. QED
        BY <2>1, <2>8, <3>1 DEF Bursts
    <2>10. QED
      BY <2>5, <2>7, <2>9 DEF LimiterInv
  <1>2. LimiterInv /\ [Next]_<<part, sessions, limiter>> => LimiterInv'
    <2> SUFFICES ASSUME LimiterInv, [Next]_<<part, sessions, limiter>> PROVE LimiterInv'
      OBVIOUS
    <2>1. CASE L!Next
      BY <2>1, KnownInv, UnknownInv, ArriveInv, TickInv DEF L!Next
    <2>2. CASE UNCHANGED limiter
      <3>1. UNCHANGED <<clock, shard, call, evicted>>
        BY <2>2 DEF limiter
      <3>2. LimiterTyped' /\ clock <= clock'
        BY <3>1 DEF LimiterInv, LimiterTyped
      <3>3. QED
        BY <3>1, <3>2, NothingGranted
    <2>3. QED
      BY <2>1, <2>2 DEF Next
  <1>3. LimiterInv => BurstBounded
    <2>1. MaxClock \in Nat
      BY AccessAssumption
    <2>2. \A from \in 0..MaxClock : from \in Nat
      BY <2>1
    <2>3. QED
      BY <2>2, SameCardinality DEF LimiterInv, ShardBounded, Bursts, BurstBounded, L!BurstBounded
  <1>4. QED
    BY <1>1, <1>2, <1>3, PTL DEF Spec

----------------------------------------------------------------------------
(* rules.json *)

\* The entry that decides is found by path and method alone; the roles enter in
\* its condition, where none is negated.
LEMMA MatchGrows ==
  ASSUME NEW rules, NEW claims, NEW more, NEW path, NEW method,
         more.id = claims.id, claims.roles \subseteq more.roles
  PROVE  /\ MatchAllow(rules, claims, path, method) \subseteq MatchAllow(rules, more, path, method)
         /\ \A a \in MatchAllow(rules, claims, path, method) : \A b \in MatchAllow(rules, more, path, method) : a = b
  <1>1. \A eq : EqHolds(eq, claims) => EqHolds(eq, more)
    BY DEF EqHolds
  <1>2. \A cond : CondHolds(cond, claims) => CondHolds(cond, more)
    BY <1>1 DEF CondHolds
  <1>3. RuleFor(rules, claims, path, method) = RuleFor(rules, more, path, method)
    BY DEF RuleFor
  <1> DEFINE i == RuleFor(rules, more, path, method)
             j == AllowFor(rules[i], method)
  <1>4. CASE i = 0 \/ j = 0
    BY <1>3, <1>4 DEF MatchAllow
  <1>5. CASE ~(i = 0 \/ j = 0)
    <2> DEFINE entry == rules[i].allows[j]
    <2>1. /\ MatchAllow(rules, claims, path, method) = {a \in {entry} : CondHolds(a.if, claims)}
          /\ MatchAllow(rules, more, path, method) = {a \in {entry} : CondHolds(a.if, more)}
      BY <1>3, <1>5 DEF MatchAllow
    <2> HIDE DEF entry
    <2>2. QED
      BY <1>2, <2>1
  <1>6. QED
    BY <1>4, <1>5

\* Another role never takes a permission away (no rule or condition of rules.json
\* can say "unless"), nor a column of an answer that was permitted.
THEOREM RolesOnlyAdd ==
  ASSUME NEW rules, NEW claims, NEW more, NEW path, NEW method, NEW columns,
         more.id = claims.id, claims.roles \subseteq more.roles,
         Permits(rules, claims, path, method)
  PROVE  /\ Permits(rules, more, path, method)
         /\ Retained(Restrictions(rules, more, path, method), columns) =
              Retained(Restrictions(rules, claims, path, method), columns)
  <1>1. MatchAllow(rules, claims, path, method) = MatchAllow(rules, more, path, method)
    BY MatchGrows DEF Permits
  <1>2. Restrictions(rules, claims, path, method) = Restrictions(rules, more, path, method)
    BY <1>1 DEF Restrictions
  <1>3. QED
    BY <1>1, <1>2 DEF Permits

===============================================================================
