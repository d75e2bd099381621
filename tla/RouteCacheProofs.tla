---------------------------- MODULE RouteCacheProofs ----------------------------
(***************************************************************************)
(* Proofs about RouteCache for any replicas, any GETs, any finite set of    *)
(* writes and any number of failures: a GET that asked Redis misses no      *)
(* write it was owed, and a version is not used twice.                      *)
(***************************************************************************)
EXTENDS RouteCache, TLAPS, FiniteSetTheorems

----------------------------------------------------------------------------
(* The strengthening *)

Places == {"new", "ask", "store", "lookup", "get", "query", "answered", "error",
           "committed", "bumped", "incremented", "done"}

\* Requests, versions and counts have their types.
Typed ==
  /\ db \in Nat /\ remote \in Nat
  /\ local \in [Replicas -> [ver : Nat, fresh : BOOLEAN]]
  /\ at \in [Requests -> Replicas] /\ ver \in [Requests -> Nat]
  /\ pc \in [Requests -> Places]
  /\ asked \subseteq Gets /\ lost \in BOOLEAN
  /\ owed \in [Gets -> Nat] /\ DOMAIN behind = Gets
  /\ DOMAIN l1 = Replicas /\ republished \subseteq Nat

\* Writes whose INCR is still to come, and those of a replica that knows it.
Pending == {w \in Writes : pc[w] \in {"committed", "bumped"}}
Bumped(r) == {w \in Writes : at[w] = r /\ pc[w] = "bumped"}

\* A replica is ahead of Redis by no more than its own INCRs to come.
Reached(r) == remote + Cardinality(Bumped(r))

Counted == remote + Cardinality(Pending) = db

VersionsKnown ==
  /\ \A r \in Replicas : local[r].ver <= Reached(r)
  /\ \A q \in Requests : ver[q] <= Reached(at[q])

\* A version goes out of date only when it has reached Redis.
Outdated ==
  /\ \A r \in Replicas : ~local[r].fresh => Bumped(r) = {}
  /\ \A g \in Gets : pc[g] = "ask" => ver[g] <= remote
  /\ republished = {}

\* The page of a version has at least as many writes.
Dated(p) == \A v \in DOMAIN p : v \in Nat /\ p[v] \in Nat /\ v <= p[v]

PagesDated ==
  /\ \A r \in Replicas : Dated(l1[r])
  /\ Dated(l2)
  /\ \A f \in fills : f.ver \in Nat /\ f.data \in Nat /\ f.ver <= f.data

\* What a GET is owed it has as its version once it has asked Redis.
Owed ==
  \A g \in Gets :
    /\ pc[g] = "new" => g \notin asked
    /\ pc[g] = "ask" => g \notin asked /\ owed[g] <= remote
    /\ g \in asked => owed[g] <= ver[g]
    /\ behind[g] = 0

Kept == Counted /\ VersionsKnown /\ Outdated /\ PagesDated /\ Owed

CacheInv == Typed /\ (~lost => Kept)

----------------------------------------------------------------------------
(* Counting *)

LEMMA Counts ==
  /\ IsFiniteSet(Pending) /\ Cardinality(Pending) \in Nat
  /\ \A r : /\ IsFiniteSet(Bumped(r)) /\ Cardinality(Bumped(r)) \in Nat
            /\ Cardinality(Bumped(r)) <= Cardinality(Pending)
  <1>1. IsFiniteSet(Pending) /\ Cardinality(Pending) \in Nat
    BY RouteCacheAssumption, FS_Subset, FS_CardinalityType DEF Pending
  <1>2. ASSUME NEW r
        PROVE  /\ IsFiniteSet(Bumped(r)) /\ Cardinality(Bumped(r)) \in Nat
               /\ Cardinality(Bumped(r)) <= Cardinality(Pending)
    <2>1. Bumped(r) \subseteq Pending
      BY DEF Bumped, Pending
    <2>2. QED
      BY <1>1, <2>1, FS_Subset, FS_CardinalityType
  <1>3. QED
    BY <1>1, <1>2

\* No version is above the number of writes committed.
LEMMA VersionsBelow ==
  ASSUME Typed, Kept
  PROVE  /\ \A q \in Requests : ver[q] \in Nat /\ ver[q] <= db
         /\ \A r \in Replicas : local[r].ver \in Nat /\ Reached(r) \in Nat /\ Reached(r) <= db
  <1>1. db \in Nat /\ remote \in Nat /\ remote + Cardinality(Pending) = db
    BY DEF Typed, Kept, Counted
  <1>2. ASSUME NEW r \in Replicas PROVE local[r].ver \in Nat /\ Reached(r) \in Nat /\ Reached(r) <= db
    <2>1. Cardinality(Bumped(r)) \in Nat /\ Cardinality(Bumped(r)) <= Cardinality(Pending) /\ Cardinality(Pending) \in Nat
      BY Counts
    <2>2. Reached(r) \in Nat /\ Reached(r) <= db
      BY <1>1, <2>1 DEF Reached
    <2>3. QED
      BY <2>2 DEF Typed
  <1>3. ASSUME NEW q \in Requests PROVE ver[q] \in Nat /\ ver[q] <= db
    <2>1. at[q] \in Replicas /\ ver[q] \in Nat
      BY DEF Typed
    <2>2. ver[q] <= Reached(at[q])
      BY DEF Kept, VersionsKnown
    <2>3. PICK n : n = Reached(at[q])
      OBVIOUS
    <2>4. n \in Nat /\ n <= db /\ ver[q] <= n
      BY <1>2, <2>1, <2>2, <2>3
    <2>5. QED
      BY <1>1, <2>1, <2>4
  <1>4. QED
    BY <1>2, <1>3

\* Where no write commits, is bumped or is counted.
LEMMA Still ==
  ASSUME UNCHANGED <<db, remote, at>>,
         \A w \in Writes : pc'[w] \in {"committed", "bumped"} \/ pc[w] \in {"committed", "bumped"} => pc'[w] = pc[w]
  PROVE  /\ Pending' = Pending /\ (Counted => Counted')
         /\ \A r : Bumped(r)' = Bumped(r) /\ Reached(r)' = Reached(r)
  <1>1. Pending' = Pending
    BY DEF Pending
  <1>2. \A r : Bumped(r)' = Bumped(r)
    BY DEF Bumped
  <1>3. QED
    BY <1>1, <1>2 DEF Counted, Reached

\* A step of a request that is not a GET owes the GETs what it did.
LEMMA OwedStays ==
  ASSUME Typed, Typed', Owed, remote <= remote',
         \A g \in Gets : /\ pc'[g] = pc[g] /\ ver'[g] = ver[g] /\ owed'[g] = owed[g]
                         /\ behind'[g] = behind[g] /\ (g \in asked' <=> g \in asked)
  PROVE  Owed'
  <1>1. \A g \in Gets : owed[g] \in Nat
    BY DEF Typed
  <1>2. remote \in Nat /\ remote' \in Nat
    BY DEF Typed
  <1>3. \A g \in Gets : pc[g] = "ask" => owed[g] <= remote'
    BY <1>1, <1>2 DEF Owed
  <1>4. QED
    BY <1>3 DEF Owed

\* What a step to another place and the end of requests change.
LEMMA Gone ==
  ASSUME Typed, NEW q \in Requests, NEW where \in Places, Goto(q, where)
  PROVE  /\ pc' \in [Requests -> Places] /\ pc'[q] = where
         /\ \A p \in Requests : p # q => pc'[p] = pc[p]
  BY DEF Typed, Goto

LEMMA Over ==
  ASSUME Typed, NEW qs \in SUBSET Requests, NEW where \in Places, End(qs, where)
  PROVE  /\ pc' \in [Requests -> Places] /\ ver' \in [Requests -> Nat] /\ owed' \in [Gets -> Nat]
         /\ asked' \subseteq Gets /\ asked' = asked \ qs
         /\ \A q \in qs : pc'[q] = where /\ ver'[q] = 0
         /\ \A q \in Requests \ qs : pc'[q] = pc[q] /\ ver'[q] = ver[q]
         /\ \A g \in Gets \ qs : owed'[g] = owed[g]
  BY DEF Typed, End

----------------------------------------------------------------------------
(* GETs *)

\* A GET that goes on with what it has.
LEMMA MoveKept ==
  ASSUME Typed, Typed', Kept, NEW g \in Gets, NEW where \in {"store", "get", "query"},
         pc[g] # "new", Goto(g, where),
         UNCHANGED <<db, redis, local, l1, detached, at, ver, ghosts>>
  PROVE  Kept'
  <1>1. /\ pc'[g] = where
        /\ \A p \in Requests : p # g => pc'[p] = pc[p]
    BY Gone DEF Requests, Places
  <1>2. \A w \in Writes : pc'[w] = pc[w]
    BY <1>1, RouteCacheAssumption DEF Requests
  <1>3. /\ UNCHANGED <<db, remote, l2, local, l1, fills, republished, at, ver, asked, owed, behind>>
    BY DEF redis, detached, ghosts
  <1>4. /\ Counted' /\ \A r : Bumped(r)' = Bumped(r) /\ Reached(r)' = Reached(r)
    BY <1>2, <1>3, Still DEF Kept
  <1>5. VersionsKnown'
    BY <1>3, <1>4 DEF Kept, VersionsKnown
  <1>6. Outdated'
    BY <1>1, <1>3, <1>4 DEF Kept, Outdated, Requests
  <1>7. PagesDated'
    BY <1>3 DEF Kept, PagesDated, Dated
  <1>8. Owed'
    BY <1>1, <1>3 DEF Kept, Owed, Requests
  <1>9. QED
    BY <1>4, <1>5, <1>6, <1>7, <1>8 DEF Kept

LEMMA BeginKept ==
  ASSUME Typed, Typed', Kept, NEW g \in Gets, Begin(g)
  PROVE  Kept'
  <1>1. PICK r \in Replicas : r = at[g]
    BY DEF Typed, Requests
  <1>2. PICK where \in {"ask", "lookup"} : where = IF local[r].fresh THEN "lookup" ELSE "ask"
    OBVIOUS
  <1>3. /\ pc[g] = "new" /\ Goto(g, where)
        /\ ver' = [ver EXCEPT ![g] = local[r].ver]
        /\ owed' = [owed EXCEPT ![g] = IF InProgress = {} THEN db ELSE 0]
        /\ UNCHANGED <<db, remote, l2, local, l1, fills, republished, at, asked, behind>>
    BY <1>1, <1>2 DEF Begin, redis, detached
  <1>4. /\ pc'[g] = where
        /\ \A p \in Requests : p # g => pc'[p] = pc[p]
    BY <1>3, Gone DEF Requests, Places
  <1>5. \A w \in Writes : pc'[w] = pc[w]
    BY <1>4, RouteCacheAssumption DEF Requests
  <1>6. /\ Counted' /\ \A s : Bumped(s)' = Bumped(s) /\ Reached(s)' = Reached(s)
    BY <1>3, <1>5, Still DEF Kept
  <1>7. /\ ver'[g] = local[r].ver /\ \A q \in Requests : q # g => ver'[q] = ver[q]
        /\ owed'[g] = (IF InProgress = {} THEN db ELSE 0) /\ \A h \in Gets : h # g => owed'[h] = owed[h]
    BY <1>3 DEF Typed, Requests
  <1>8. VersionsKnown'
    BY <1>1, <1>3, <1>6, <1>7 DEF Kept, VersionsKnown
  <1>9. ~local[r].fresh => local[r].ver <= remote
    <2>1. ~local[r].fresh => Bumped(r) = {}
      BY DEF Kept, Outdated
    <2>2. Cardinality({}) = 0
      BY FS_EmptySet
    <2>3. ~local[r].fresh => Reached(r) = remote
      <3>1. remote + 0 = remote
        BY DEF Typed
      <3>2. QED
        BY <2>1, <2>2, <3>1 DEF Reached
    <2>4. QED
      BY <2>3 DEF Kept, VersionsKnown
  <1>10. Outdated'
    BY <1>2, <1>3, <1>4, <1>6, <1>7, <1>9 DEF Kept, Outdated, Requests
  <1>11. PagesDated'
    BY <1>3 DEF Kept, PagesDated, Dated
  <1>12. owed'[g] <= remote
    <2>1. CASE InProgress = {}
      <3>1. Pending = {}
        BY <2>1 DEF InProgress, Pending
      <3>2. Cardinality({}) = 0
        BY FS_EmptySet
      <3>3. remote = db
        BY <3>1, <3>2 DEF Kept, Counted, Typed
      <3>4. QED
        BY <1>7, <2>1, <3>3 DEF Typed
    <2>2. CASE InProgress # {}
      BY <1>7, <2>2 DEF Typed
    <2>3. QED
      BY <2>1, <2>2
  <1>13. g \notin asked
    BY <1>3 DEF Kept, Owed
  <1>14. Owed'
    BY <1>2, <1>3, <1>4, <1>7, <1>12, <1>13 DEF Kept, Owed, Requests
  <1>15. QED
    BY <1>6, <1>8, <1>10, <1>11, <1>14 DEF Kept

LEMMA AskKept ==
  ASSUME Typed, Typed', Kept, NEW g \in Gets, Ask(g)
  PROVE  Kept'
  <1>1. /\ pc[g] = "ask" /\ Goto(g, "store")
        /\ ver' = [ver EXCEPT ![g] = Bigger(ver[g], remote)]
        /\ republished' = IF remote < ver[g] THEN republished \cup {ver[g]} ELSE republished
        /\ asked' = asked \cup {g}
        /\ UNCHANGED <<db, remote, l2, local, l1, fills, at, owed, behind>>
    BY DEF Ask, redis
  <1>2. /\ pc'[g] = "store"
        /\ \A p \in Requests : p # g => pc'[p] = pc[p]
    BY <1>1, Gone DEF Requests, Places
  <1>3. \A w \in Writes : pc'[w] = pc[w]
    BY <1>2, RouteCacheAssumption DEF Requests
  <1>4. /\ Counted' /\ \A s : Bumped(s)' = Bumped(s) /\ Reached(s)' = Reached(s)
    BY <1>1, <1>3, Still DEF Kept
  <1>5. ver[g] \in Nat /\ remote \in Nat /\ ver[g] <= remote /\ owed[g] <= remote
    BY <1>1 DEF Typed, Requests, Kept, Outdated, Owed
  <1>6. Bigger(ver[g], remote) = remote /\ republished' = republished
    <2>1. Bigger(ver[g], remote) = remote
      BY <1>5 DEF Bigger
    <2>2. ~(remote < ver[g])
      BY <1>5
    <2>3. QED
      BY <1>1, <2>1, <2>2
  <1>7. ver'[g] = remote /\ \A q \in Requests : q # g => ver'[q] = ver[q]
    BY <1>1, <1>6 DEF Typed, Requests
  <1>8. remote <= Reached(at[g])
    BY <1>5, Counts DEF Reached
  <1>9. VersionsKnown'
    BY <1>1, <1>4, <1>7, <1>8 DEF Kept, VersionsKnown
  <1>10. Outdated'
    BY <1>1, <1>2, <1>4, <1>6, <1>7 DEF Kept, Outdated, Requests
  <1>11. PagesDated'
    BY <1>1 DEF Kept, PagesDated, Dated
  <1>12. Owed'
    BY <1>1, <1>2, <1>5, <1>7 DEF Kept, Owed, Requests
  <1>13. QED
    BY <1>4, <1>9, <1>10, <1>11, <1>12 DEF Kept

LEMMA StoreVersionKept ==
  ASSUME Typed, Typed', Kept, NEW g \in Gets, StoreVersion(g)
  PROVE  Kept'
  <1>1. /\ pc[g] = "store" /\ Goto(g, "lookup")
        /\ local' = [local EXCEPT ![at[g]] = [ver |-> ver[g], fresh |-> TRUE]]
        /\ UNCHANGED <<db, remote, l2, l1, fills, republished, at, ver, asked, owed, behind>>
    BY DEF StoreVersion, redis, detached, ghosts
  <1>2. /\ pc'[g] = "lookup"
        /\ \A p \in Requests : p # g => pc'[p] = pc[p]
    BY <1>1, Gone DEF Requests, Places
  <1>3. \A w \in Writes : pc'[w] = pc[w]
    BY <1>2, RouteCacheAssumption DEF Requests
  <1>4. /\ Counted' /\ \A s : Bumped(s)' = Bumped(s) /\ Reached(s)' = Reached(s)
    BY <1>1, <1>3, Still DEF Kept
  <1>5. /\ at[g] \in Replicas /\ local'[at[g]].ver = ver[g] /\ local'[at[g]].fresh
        /\ \A r \in Replicas : r # at[g] => local'[r] = local[r]
    BY <1>1 DEF Typed, Requests
  <1>6. VersionsKnown'
    BY <1>1, <1>4, <1>5 DEF Kept, VersionsKnown, Requests
  <1>7. Outdated'
    BY <1>1, <1>2, <1>4, <1>5 DEF Kept, Outdated, Requests
  <1>8. PagesDated'
    BY <1>1 DEF Kept, PagesDated, Dated
  <1>9. Owed'
    BY <1>1, <1>2 DEF Kept, Owed, Requests
  <1>10. QED
    BY <1>4, <1>6, <1>7, <1>8, <1>9 DEF Kept

\* GETs that end, with pages that are as new as their versions.
LEMMA EndKept ==
  ASSUME Typed, Typed', Kept, NEW gs \in SUBSET Gets, NEW where \in {"answered", "error"}, End(gs, where),
         UNCHANGED <<db, remote, local, republished, at>>, PagesDated', \A g \in Gets : behind'[g] = 0
  PROVE  Kept'
  <1>1. /\ asked' = asked \ gs
        /\ \A q \in gs : pc'[q] = where /\ ver'[q] = 0
        /\ \A q \in Requests \ gs : pc'[q] = pc[q] /\ ver'[q] = ver[q]
        /\ \A g \in Gets \ gs : owed'[g] = owed[g]
    <2>1. gs \in SUBSET Requests /\ where \in Places
      BY DEF Requests, Places
    <2>2. QED
      BY <2>1, Over DEF Places
  <1>2. \A w \in Writes : pc'[w] = pc[w]
    BY <1>1, RouteCacheAssumption DEF Requests
  <1>3. /\ Counted' /\ \A s : Bumped(s)' = Bumped(s) /\ Reached(s)' = Reached(s)
    BY <1>2, Still DEF Kept
  <1>4. \A q \in Requests : 0 <= Reached(at[q])
    BY VersionsBelow DEF Typed
  <1>5. VersionsKnown'
    BY <1>1, <1>3, <1>4 DEF Kept, VersionsKnown
  <1>6. Outdated'
    BY <1>1, <1>3 DEF Kept, Outdated, Requests
  <1>7. Owed'
    BY <1>1 DEF Kept, Owed, Requests
  <1>8. QED
    BY <1>3, <1>5, <1>6, <1>7 DEF Kept

\* A page as new as its version is enough for the GET that asked for it.
LEMMA AnswerFacts ==
  ASSUME Typed, Kept, NEW g \in Gets, NEW data \in Nat, ver[g] <= data, Answer(g, data)
  PROVE  End({g}, "answered") /\ \A h \in Gets : behind'[h] = 0
  <1>1. g \in asked => ~(data < owed[g])
    <2>1. g \in asked => owed[g] <= ver[g]
      BY DEF Kept, Owed
    <2>2. owed[g] \in Nat /\ ver[g] \in Nat
      BY DEF Typed, Requests
    <2>3. QED
      BY <2>1, <2>2
  <1>2. behind' = [behind EXCEPT ![g] = IF g \in asked /\ data < owed[g] THEN owed[g] - data ELSE 0]
    BY DEF Answer
  <1>3. behind'[g] = 0
    BY <1>1, <1>2 DEF Typed
  <1>4. \A h \in Gets : h # g => behind'[h] = behind[h]
    BY <1>2 DEF Typed
  <1>5. QED
    BY <1>3, <1>4 DEF Answer, Kept, Owed

LEMMA CachedDated ==
  ASSUME NEW pages, Dated(pages), NEW v \in Nat, NEW data \in Nat, v <= data
  PROVE  Dated(Cached(pages, v, data))
  BY DEF Dated, Cached

LEMMA RestrictDated ==
  ASSUME NEW pages, Dated(pages), NEW S
  PROVE  Dated(Restrict(pages, DOMAIN pages \ S))
  BY DEF Dated, Restrict

LEMMA LoadedKept ==
  ASSUME Typed, Typed', Kept, NEW g \in Gets, HitL1(g) \/ HitL2(g) \/ Load(g)
  PROVE  Kept'
  <1>1. at[g] \in Replicas /\ at[g] \in DOMAIN l1 /\ ver[g] \in Nat /\ ver[g] <= db /\ db \in Nat
    BY VersionsBelow DEF Typed, Requests
  <1>2. CASE HitL1(g)
    <2>1. PICK data : data = l1[at[g]][ver[g]]
      OBVIOUS
    <2>2. /\ ver[g] \in DOMAIN l1[at[g]] /\ Answer(g, data)
          /\ UNCHANGED <<db, remote, l2, local, l1, fills, republished, at>>
      BY <1>2, <2>1 DEF HitL1, redis, detached
    <2>3. data \in Nat /\ ver[g] <= data
      BY <1>1, <2>1, <2>2 DEF Kept, PagesDated, Dated
    <2>4. PagesDated'
      BY <2>2 DEF Kept, PagesDated, Dated
    <2>5. QED
      BY <2>2, <2>3, <2>4, AnswerFacts, EndKept
  <1>3. ASSUME NEW data \in Nat, ver[g] <= data, Answer(g, data),
               l1' = [l1 EXCEPT ![at[g]] = Cached(l1[at[g]], ver[g], data)],
               UNCHANGED <<db, remote, l2, local, republished, at>>,
               fills' \subseteq fills \cup {[ver |-> ver[g], data |-> data]}
        PROVE  Kept'
    <2>1. /\ l1'[at[g]] = Cached(l1[at[g]], ver[g], data)
          /\ \A r \in Replicas : r # at[g] => l1'[r] = l1[r]
      BY <1>1, <1>3 DEF Typed
    <2>2. Dated(Cached(l1[at[g]], ver[g], data))
      BY <1>1, <1>3, CachedDated DEF Kept, PagesDated
    <2>3. \A r \in Replicas : Dated(l1'[r])
      BY <2>1, <2>2 DEF Kept, PagesDated
    <2>4. \A f \in fills' : f.ver \in Nat /\ f.data \in Nat /\ f.ver <= f.data
      BY <1>1, <1>3 DEF Kept, PagesDated
    <2>5. Dated(l2')
      BY <1>3 DEF Kept, PagesDated
    <2>6. PagesDated'
      BY <2>3, <2>4, <2>5 DEF PagesDated, Dated
    <2>7. QED
      BY <1>3, <2>6, AnswerFacts, EndKept
  <1>4. CASE HitL2(g)
    <2>1. PICK data : data = l2[ver[g]]
      OBVIOUS
    <2>2. /\ ver[g] \in DOMAIN l2 /\ Answer(g, data)
          /\ l1' = [l1 EXCEPT ![at[g]] = Cached(l1[at[g]], ver[g], data)]
          /\ UNCHANGED <<db, remote, l2, local, fills, republished, at>>
      BY <1>4, <2>1 DEF HitL2, redis, detached
    <2>3. data \in Nat /\ ver[g] <= data
      BY <2>1, <2>2 DEF Kept, PagesDated, Dated
    <2>4. fills' \subseteq fills \cup {[ver |-> ver[g], data |-> data]}
      BY <2>2
    <2>5. QED
      BY <1>3, <2>2, <2>3, <2>4
  <1>5. CASE Load(g)
    <2>1. /\ Answer(g, db)
          /\ l1' = [l1 EXCEPT ![at[g]] = Cached(l1[at[g]], ver[g], db)]
          /\ fills' = fills \cup {[ver |-> ver[g], data |-> db]}
          /\ UNCHANGED <<db, remote, l2, local, republished, at>>
      BY <1>5 DEF Load, redis
    <2>2. QED
      BY <1>1, <1>3, <2>1
  <1>6. QED
    BY <1>2, <1>4, <1>5

LEMMA GetKept ==
  ASSUME Typed, Typed', Kept, NEW g \in Gets, Get(g)
  PROVE  Kept'
  <1>1. CASE AskFails(g)
    BY <1>1, MoveKept DEF AskFails
  <1>2. CASE StartLoad(g)
    BY <1>2, MoveKept DEF StartLoad
  <1>3. CASE MissL2(g)
    BY <1>3, MoveKept DEF MissL2
  <1>4. CASE LoadFails(g)
    <2>1. PICK waiting \in SUBSET {h \in Gets : pc[h] = "lookup" /\ at[h] = at[g] /\ ver[h] = ver[g]} :
            End(waiting \cup {g}, "error")
      BY <1>4 DEF LoadFails
    <2>2. UNCHANGED <<db, remote, l2, local, l1, fills, republished, at, behind>>
      BY <1>4 DEF LoadFails, redis, detached
    <2>3. PagesDated' /\ \A h \in Gets : behind'[h] = 0
      BY <2>2 DEF Kept, PagesDated, Dated, Owed
    <2>4. waiting \cup {g} \in SUBSET Gets
      OBVIOUS
    <2>5. QED
      BY <2>1, <2>2, <2>3, <2>4, EndKept
  <1>5. QED
    BY <1>1, <1>2, <1>3, <1>4, BeginKept, AskKept, StoreVersionKept, LoadedKept DEF Get

----------------------------------------------------------------------------
(* Writes *)

\* A write is none of the GETs.
LEMMA WriteAlone ==
  ASSUME NEW w \in Writes
  PROVE  w \in Requests /\ \A g \in Gets : g # w /\ g \in Requests
  BY RouteCacheAssumption DEF Requests

LEMMA CommitKept ==
  ASSUME Typed, Typed', Kept, NEW w \in Writes, Commit(w)
  PROVE  Kept'
  <1>1. /\ pc[w] = "new" /\ db' = db + 1 /\ Goto(w, "committed")
        /\ UNCHANGED <<remote, l2, local, l1, fills, republished, at, ver, asked, owed, behind>>
    BY DEF Commit, redis, detached, ghosts
  <1>2. /\ pc'[w] = "committed"
        /\ \A p \in Requests : p # w => pc'[p] = pc[p]
    BY <1>1, WriteAlone, Gone DEF Places
  <1>3. /\ Pending' = Pending \cup {w} /\ w \notin Pending
        /\ \A r : Bumped(r)' = Bumped(r) /\ Reached(r)' = Reached(r)
    BY <1>1, <1>2 DEF Pending, Bumped, Reached, Requests
  <1>4. Cardinality(Pending') = Cardinality(Pending) + 1
    BY <1>3, Counts, FS_AddElement
  <1>5. Counted'
    BY <1>1, <1>4, Counts DEF Kept, Counted, Typed
  <1>6. VersionsKnown' /\ Outdated'
    BY <1>1, <1>2, <1>3, WriteAlone DEF Kept, VersionsKnown, Outdated
  <1>7. PagesDated'
    BY <1>1 DEF Kept, PagesDated, Dated
  <1>8. Owed'
    BY <1>1, <1>2, WriteAlone, OwedStays DEF Kept, Typed
  <1>9. QED
    BY <1>5, <1>6, <1>7, <1>8 DEF Kept

LEMMA BumpLocalKept ==
  ASSUME Typed, Typed', Kept, NEW w \in Writes, BumpLocal(w)
  PROVE  Kept'
  <1>1. PICK r \in Replicas : r = at[w]
    BY WriteAlone DEF Typed
  <1>2. PICK v : v = local[r].ver + 1
    OBVIOUS
  <1>3. /\ pc[w] = "committed" /\ Goto(w, "bumped")
        /\ local' = [local EXCEPT ![r] = [ver |-> v, fresh |-> TRUE]]
        /\ ver' = [ver EXCEPT ![w] = v]
        /\ UNCHANGED <<db, remote, l2, l1, fills, republished, at, asked, owed, behind>>
    BY <1>1, <1>2 DEF BumpLocal, redis, detached, ghosts
  <1>4. /\ pc'[w] = "bumped"
        /\ \A p \in Requests : p # w => pc'[p] = pc[p]
    BY <1>3, WriteAlone, Gone DEF Places
  <1>5. Pending' = Pending
    BY <1>3, <1>4 DEF Pending, Requests
  <1>6. /\ Bumped(r)' = Bumped(r) \cup {w} /\ w \notin Bumped(r)
        /\ \A s : s # r => Bumped(s)' = Bumped(s) /\ Reached(s)' = Reached(s)
    BY <1>1, <1>3, <1>4 DEF Bumped, Reached, Requests
  <1>7. Cardinality(Bumped(r)') = Cardinality(Bumped(r)) + 1
    BY <1>6, Counts, FS_AddElement
  <1>8. remote \in Nat /\ Cardinality(Bumped(r)) \in Nat /\ local[r].ver \in Nat
    BY Counts DEF Typed
  <1>9. Reached(r)' = Reached(r) + 1 /\ Reached(r) \in Nat
    BY <1>3, <1>7, <1>8 DEF Reached
  <1>10. v <= Reached(r)' /\ Reached(r) <= Reached(r)'
    BY <1>2, <1>8, <1>9 DEF Kept, VersionsKnown
  <1>11. /\ local'[r].ver = v /\ local'[r].fresh /\ \A s \in Replicas : s # r => local'[s] = local[s]
         /\ ver'[w] = v /\ \A q \in Requests : q # w => ver'[q] = ver[q]
    BY <1>3, WriteAlone DEF Typed
  <1>12. \A q \in Requests : q # w => ver'[q] <= Reached(at[q])'
    <2>1. TAKE q \in Requests
    <2>2. HAVE q # w
    <2>3. ver[q] \in Nat /\ ver[q] <= Reached(at[q]) /\ ver'[q] = ver[q]
      BY <1>11, <2>2 DEF Kept, VersionsKnown, Typed
    <2>4. CASE at[q] = r
      BY <1>3, <1>9, <1>10, <2>3, <2>4
    <2>5. CASE at[q] # r
      BY <1>3, <1>6, <2>3, <2>5
    <2>6. QED
      BY <2>4, <2>5
  <1>13. VersionsKnown'
    BY <1>1, <1>3, <1>6, <1>10, <1>11, <1>12 DEF Kept, VersionsKnown
  <1>14. Outdated'
    BY <1>3, <1>4, <1>6, <1>11, WriteAlone DEF Kept, Outdated
  <1>15. PagesDated'
    BY <1>3 DEF Kept, PagesDated, Dated
  <1>16. Owed'
    BY <1>3, <1>4, <1>11, WriteAlone, OwedStays DEF Kept, Typed
  <1>17. QED
    BY <1>3, <1>5, <1>13, <1>14, <1>15, <1>16 DEF Kept, Counted

\* The INCR of a write is executed, whether its process learns of it or not.
LEMMA IncrKept ==
  ASSUME Typed, Typed', Kept, NEW w \in Writes, pc[w] = "bumped", remote' = remote + 1,
         pc'[w] \in {"incremented", "done"}, \A p \in Requests : p # w => pc'[p] = pc[p],
         ver'[w] \in {0, Bigger(ver[w], remote + 1)}, \A p \in Requests : p # w => ver'[p] = ver[p],
         \A g \in Gets : owed'[g] = owed[g] /\ (g \in asked' <=> g \in asked),
         UNCHANGED <<db, l2, local, l1, fills, republished, at, behind>>
  PROVE  Kept'
  <1>1. PICK r \in Replicas : r = at[w]
    BY WriteAlone DEF Typed
  <1>2. /\ Pending' = Pending \ {w} /\ w \in Pending
        /\ Bumped(r)' = Bumped(r) \ {w} /\ w \in Bumped(r)
        /\ \A s : s # r => Bumped(s)' = Bumped(s)
    BY <1>1 DEF Pending, Bumped, Requests
  <1>3. /\ Cardinality(Pending') = Cardinality(Pending) - 1
        /\ Cardinality(Bumped(r)') = Cardinality(Bumped(r)) - 1
    BY <1>2, Counts, FS_RemoveElement
  <1>4. remote \in Nat /\ Cardinality(Pending) \in Nat /\ db \in Nat
    BY Counts DEF Typed
  <1>5. Counted'
    BY <1>3, <1>4 DEF Kept, Counted
  <1>6. \A s : Cardinality(Bumped(s)) \in Nat
    BY Counts
  <1>7. \A s : Reached(s) \in Nat /\ Reached(s)' \in Nat /\ Reached(s) <= Reached(s)'
    <2>1. TAKE s
    <2>2. PICK n \in Nat : n = Cardinality(Bumped(s))
      BY <1>6
    <2>3. CASE s = r
      BY <1>3, <1>4, <2>2, <2>3 DEF Reached
    <2>4. CASE s # r
      BY <1>2, <1>4, <2>2, <2>4 DEF Reached
    <2>5. QED
      BY <2>3, <2>4
  <1>8. \A q \in Requests : q # w => ver'[q] <= Reached(at[q])'
    BY <1>7 DEF Kept, VersionsKnown, Typed
  <1>9. ver'[w] <= Reached(r)'
    <2>1. ver[w] \in Nat /\ ver[w] <= Reached(r)
      BY <1>1, WriteAlone DEF Kept, VersionsKnown, Typed
    <2>2. remote + 1 <= Reached(r)'
      <3>1. Cardinality(Bumped(r)) - 1 \in Nat
        <4>1. IsFiniteSet(Bumped(r) \ {w})
          BY Counts, FS_Subset
        <4>2. QED
          BY <1>2, <1>3, <4>1, FS_CardinalityType
      <3>2. QED
        BY <1>3, <1>4, <3>1 DEF Reached
    <2>3. Bigger(ver[w], remote + 1) = ver[w] \/ Bigger(ver[w], remote + 1) = remote + 1
      BY DEF Bigger
    <2>4. QED
      BY <1>7, <2>1, <2>2, <2>3
  <1>10. \A s \in Replicas : local[s].ver \in Nat /\ local[s].ver <= Reached(s)
    BY DEF Typed, Kept, VersionsKnown
  <1>11. VersionsKnown'
    <2>1. \A s \in Replicas : local'[s].ver <= Reached(s)'
      BY <1>7, <1>10
    <2>2. QED
      BY <1>1, <1>8, <1>9, <2>1 DEF VersionsKnown
  <1>12. Outdated'
    <2>1. \A s : Bumped(s) = {} => Bumped(s)' = {}
      BY <1>2
    <2>2. \A g \in Gets : ver[g] \in Nat /\ ver'[g] = ver[g] /\ pc'[g] = pc[g]
      BY WriteAlone DEF Typed
    <2>3. \A g \in Gets : pc'[g] = "ask" => ver'[g] <= remote'
      BY <1>4, <2>2 DEF Kept, Outdated
    <2>4. QED
      BY <2>1, <2>3 DEF Kept, Outdated
  <1>13. PagesDated'
    BY DEF Kept, PagesDated, Dated
  <1>14. Owed'
    BY <1>4, WriteAlone, OwedStays DEF Kept
  <1>15. QED
    BY <1>5, <1>11, <1>12, <1>13, <1>14 DEF Kept

LEMMA StoreBumpedKept ==
  ASSUME Typed, Typed', Kept, NEW w \in Writes, StoreBumped(w)
  PROVE  Kept'
  <1>1. PICK r \in Replicas : r = at[w]
    BY WriteAlone DEF Typed
  <1>2. /\ pc[w] = "incremented" /\ End({w}, "done")
        /\ local' = [local EXCEPT ![r] = [ver |-> ver[w], fresh |-> TRUE]]
        /\ UNCHANGED <<db, remote, l2, l1, fills, republished, at, behind>>
    BY <1>1 DEF StoreBumped, redis, detached
  <1>3. /\ asked' = asked \ {w}
        /\ pc'[w] = "done" /\ ver'[w] = 0
        /\ \A q \in Requests : q # w => pc'[q] = pc[q] /\ ver'[q] = ver[q]
        /\ \A g \in Gets : owed'[g] = owed[g]
    BY <1>2, WriteAlone, Over DEF Places
  <1>4. /\ Counted' /\ \A s : Bumped(s)' = Bumped(s) /\ Reached(s)' = Reached(s)
    BY <1>2, <1>3, Still DEF Kept, Requests
  <1>5. /\ local'[r].ver = ver[w] /\ local'[r].fresh /\ \A s \in Replicas : s # r => local'[s] = local[s]
    BY <1>2 DEF Typed
  <1>6. 0 <= Reached(r)
    BY VersionsBelow
  <1>7. VersionsKnown'
    BY <1>1, <1>2, <1>3, <1>4, <1>5, <1>6, WriteAlone DEF Kept, VersionsKnown
  <1>8. Outdated'
    BY <1>2, <1>3, <1>4, <1>5, WriteAlone DEF Kept, Outdated
  <1>9. PagesDated'
    BY <1>2 DEF Kept, PagesDated, Dated
  <1>10. Owed'
    BY <1>2, <1>3, WriteAlone, OwedStays DEF Kept, Typed
  <1>11. QED
    BY <1>4, <1>7, <1>8, <1>9, <1>10 DEF Kept

LEMMA WriteKept ==
  ASSUME Typed, Typed', Kept, NEW w \in Writes, Write(w), ~lost'
  PROVE  Kept'
  <1>1. w \in Requests /\ {w} \in SUBSET Requests /\ "incremented" \in Places /\ "done" \in Places
    BY WriteAlone DEF Places
  <1>2. CASE Incr(w)
    <2>1. /\ pc[w] = "bumped" /\ remote' = remote + 1 /\ Goto(w, "incremented")
          /\ ver' = [ver EXCEPT ![w] = Bigger(ver[w], remote + 1)]
          /\ UNCHANGED <<db, l2, local, l1, fills, republished, at, behind, owed, asked>>
      BY <1>2 DEF Incr, detached, ghosts
    <2>2. pc'[w] = "incremented" /\ \A p \in Requests : p # w => pc'[p] = pc[p]
      BY <1>1, <2>1, Gone
    <2>3. ver'[w] = Bigger(ver[w], remote + 1) /\ \A p \in Requests : p # w => ver'[p] = ver[p]
      BY <1>1, <2>1 DEF Typed
    <2>4. QED
      BY <2>1, <2>2, <2>3, IncrKept
  <1>3. CASE IncrFails(w)
    <2>1. /\ pc[w] = "bumped" /\ remote' = remote + 1 /\ End({w}, "done")
          /\ UNCHANGED <<db, l2, local, l1, fills, republished, at, behind>>
      BY <1>3 DEF IncrFails, detached
    <2>2. /\ asked' = asked \ {w}
          /\ pc'[w] = "done" /\ ver'[w] = 0
          /\ \A q \in Requests : q # w => pc'[q] = pc[q] /\ ver'[q] = ver[q]
          /\ \A g \in Gets : owed'[g] = owed[g]
      BY <1>1, <2>1, WriteAlone, Over DEF Places
    <2>3. \A g \in Gets : g \in asked' <=> g \in asked
      BY <2>2, WriteAlone
    <2>4. QED
      BY <2>1, <2>2, <2>3, IncrKept
  <1>4. QED
    BY <1>2, <1>3, CommitKept, BumpLocalKept, StoreBumpedKept DEF Write

----------------------------------------------------------------------------
(* Detached tasks, time and restarts *)

\* Only pages change, or a version goes out of date.
LEMMA QuietKept ==
  ASSUME Typed, Typed', Kept, PagesDated', UNCHANGED <<db, remote, pc, at, ver, asked, owed, behind>>,
         republished' \subseteq republished,
         \A r \in Replicas : /\ local'[r].ver = local[r].ver
                             /\ ~local'[r].fresh => ~local[r].fresh \/ Bumped(r) = {}
  PROVE  Kept'
  <1>1. /\ Counted' /\ \A s : Bumped(s)' = Bumped(s) /\ Reached(s)' = Reached(s)
    BY Still DEF Kept
  <1>2. VersionsKnown'
    BY <1>1 DEF Kept, VersionsKnown
  <1>3. Outdated'
    BY <1>1 DEF Kept, Outdated
  <1>4. Owed'
    BY DEF Kept, Owed
  <1>5. QED
    BY <1>1, <1>2, <1>3, <1>4 DEF Kept

LEMMA FillKept ==
  ASSUME Typed, Typed', Kept, NEW f \in fills, Fill(f)
  PROVE  Kept'
  <1>1. f.ver \in Nat /\ f.data \in Nat /\ f.ver <= f.data /\ Dated(l2)
    BY DEF Kept, PagesDated
  <1>2. Dated(l2')
    BY <1>1, CachedDated DEF Fill
  <1>3. PagesDated'
    BY <1>2 DEF Fill, Kept, PagesDated, Dated
  <1>4. QED
    BY <1>3, QuietKept DEF Fill, ghosts

LEMMA ExpireKept ==
  ASSUME Typed, Typed', Kept, NEW v, ExpireL2(v)
  PROVE  Kept'
  <1>1. Dated(l2')
    BY RestrictDated DEF ExpireL2, Kept, PagesDated
  <1>2. PagesDated'
    BY <1>1 DEF ExpireL2, detached, Kept, PagesDated, Dated
  <1>3. QED
    BY <1>2, QuietKept DEF ExpireL2, detached, ghosts

LEMMA EvictKept ==
  ASSUME Typed, Typed', Kept, NEW r \in Replicas, NEW v, EvictL1(r, v)
  PROVE  Kept'
  <1>1. l1' = [l1 EXCEPT ![r] = Restrict(l1[r], DOMAIN l1[r] \ {v})]
    BY DEF EvictL1
  <1>2. /\ l1'[r] = Restrict(l1[r], DOMAIN l1[r] \ {v})
        /\ \A s \in Replicas : s # r => l1'[s] = l1[s]
    BY <1>1 DEF Typed
  <1>3. Dated(Restrict(l1[r], DOMAIN l1[r] \ {v}))
    BY RestrictDated DEF Kept, PagesDated
  <1>4. \A s \in Replicas : Dated(l1'[s])
    BY <1>2, <1>3 DEF Kept, PagesDated
  <1>5. PagesDated'
    BY <1>4 DEF EvictL1, redis, detached, Kept, PagesDated, Dated
  <1>6. QED
    BY <1>5, QuietKept DEF EvictL1, redis, detached, ghosts

LEMMA AgeKept ==
  ASSUME Typed, Typed', Kept, NEW r \in Replicas, Age(r)
  PROVE  Kept'
  <1>1. Bumped(r) = {}
    BY DEF Age, OldEnough, Bumped
  <1>2. \A s \in Replicas : /\ local'[s].ver = local[s].ver
                            /\ ~local'[s].fresh => ~local[s].fresh \/ Bumped(s) = {}
    BY <1>1 DEF Age, Typed
  <1>3. PagesDated'
    BY DEF Age, redis, detached, Kept, PagesDated, Dated
  <1>4. QED
    BY <1>2, <1>3, QuietKept DEF Age, redis, detached, ghosts

LEMMA RestartKept ==
  ASSUME Typed, Typed', Kept, NEW r \in Replicas, Restart(r), ~lost'
  PROVE  Kept'
  <1>1. PICK qs : qs = {q \in Requests : at[q] = r /\ pc[q] \notin {"new"} \cup Ended}
    OBVIOUS
  <1>2. /\ local' = [local EXCEPT ![r] = [ver |-> 0, fresh |-> FALSE]]
        /\ l1' = [l1 EXCEPT ![r] = <<>>]
        /\ End(qs, "error") /\ \A w \in Writes : at[w] = r => pc[w] \notin {"committed", "bumped"}
        /\ UNCHANGED <<db, remote, l2, fills, republished, at, behind>>
    BY <1>1 DEF Restart, redis, detached
  <1>3. /\ asked' = asked \ qs
        /\ \A q \in qs : pc'[q] = "error" /\ ver'[q] = 0
        /\ \A q \in Requests \ qs : pc'[q] = pc[q] /\ ver'[q] = ver[q]
        /\ \A g \in Gets \ qs : owed'[g] = owed[g]
    BY <1>1, <1>2, Over DEF Places
  <1>4. \A w \in Writes : pc'[w] \in {"committed", "bumped"} \/ pc[w] \in {"committed", "bumped"} => pc'[w] = pc[w]
    BY <1>1, <1>2, <1>3 DEF Requests
  <1>5. /\ Counted' /\ \A s : Bumped(s)' = Bumped(s) /\ Reached(s)' = Reached(s)
    BY <1>2, <1>4, Still DEF Kept
  <1>6. /\ local'[r].ver = 0 /\ \A s \in Replicas : s # r => local'[s] = local[s]
        /\ l1'[r] = <<>> /\ \A s \in Replicas : s # r => l1'[s] = l1[s]
    BY <1>2 DEF Typed
  <1>7. \A s \in Replicas : 0 <= Reached(s)
    BY VersionsBelow
  <1>8. \A q \in Requests : at[q] \in Replicas
    BY DEF Typed
  <1>9. VersionsKnown'
    BY <1>2, <1>3, <1>5, <1>6, <1>7, <1>8 DEF Kept, VersionsKnown
  <1>10. Bumped(r) = {}
    BY <1>2 DEF Bumped
  <1>11. Outdated'
    BY <1>2, <1>3, <1>5, <1>6, <1>10 DEF Kept, Outdated, Requests
  <1>12. Dated(<<>>)
    BY DEF Dated
  <1>13. PagesDated'
    BY <1>2, <1>6, <1>12 DEF Kept, PagesDated, Dated
  <1>14. Owed'
    BY <1>2, <1>3 DEF Kept, Owed, Requests
  <1>15. QED
    BY <1>5, <1>9, <1>11, <1>13, <1>14 DEF Kept

----------------------------------------------------------------------------
(* The invariant *)


LEMMA TypedEnd ==
  ASSUME Typed, NEW qs \in SUBSET Requests, NEW where \in Places, End(qs, where), DOMAIN l1' = Replicas,
         DOMAIN behind' = Gets, db' \in Nat, remote' \in Nat, local' \in [Replicas -> [ver : Nat, fresh : BOOLEAN]],
         lost' \in BOOLEAN, UNCHANGED <<republished, at>>
  PROVE  Typed'
  BY Over DEF Typed

LEMMA TypedGet ==
  ASSUME Typed, NEW g \in Gets, Get(g)
  PROVE  Typed'
  <1>1. g \in Requests /\ at[g] \in Replicas /\ ver[g] \in Nat /\ local[at[g]].ver \in Nat /\ db \in Nat /\ remote \in Nat
    BY DEF Typed, Requests
  <1>2. Bigger(ver[g], remote) \in Nat
    BY <1>1 DEF Bigger
  <1>3. CASE AskFails(g) \/ StartLoad(g) \/ MissL2(g)
    <2>1. UNCHANGED <<db, remote, local, l1, republished, at, ver, asked, owed, behind, lost>>
      BY <1>3 DEF AskFails, StartLoad, MissL2, redis, detached, ghosts
    <2>2. pc' \in [Requests -> Places]
      BY <1>1, <1>3, Gone DEF AskFails, StartLoad, MissL2, Places
    <2>3. QED
      BY <2>1, <2>2 DEF Typed
  <1>4. CASE Begin(g)
    <2>1. pc' \in [Requests -> Places]
      <3>1. (IF local[at[g]].fresh THEN "lookup" ELSE "ask") \in Places
        BY DEF Places
      <3>2. QED
        BY <1>1, <1>4, <3>1, Gone DEF Begin
    <2>2. QED
      BY <1>1, <1>4, <2>1 DEF Typed, Begin, redis, detached
  <1>5. CASE Ask(g)
    <2>1. pc' \in [Requests -> Places]
      BY <1>1, <1>5, Gone DEF Ask, Places
    <2>2. ver' \in [Requests -> Nat] /\ republished' \subseteq Nat
      BY <1>1, <1>2, <1>5 DEF Typed, Ask
    <2>3. QED
      BY <1>1, <1>5, <2>1, <2>2 DEF Typed, Ask, redis
  <1>6. CASE StoreVersion(g)
    <2>1. pc' \in [Requests -> Places]
      BY <1>1, <1>6, Gone DEF StoreVersion, Places
    <2>2. QED
      BY <1>1, <1>6, <2>1 DEF Typed, StoreVersion, redis, detached, ghosts
  <1>7. CASE LoadFails(g)
    <2>1. PICK waiting \in SUBSET {h \in Gets : pc[h] = "lookup" /\ at[h] = at[g] /\ ver[h] = ver[g]} :
            End(waiting \cup {g}, "error")
      BY <1>7 DEF LoadFails
    <2>2. waiting \cup {g} \in SUBSET Requests /\ "error" \in Places
      BY DEF Requests, Places
    <2>3. UNCHANGED <<db, remote, local, l1, republished, at, behind, lost>>
      BY <1>7 DEF LoadFails, redis, detached
    <2>4. QED
      BY <2>1, <2>2, <2>3, TypedEnd DEF Typed
  <1>8. CASE HitL1(g) \/ HitL2(g) \/ Load(g)
    <2>1. End({g}, "answered") /\ DOMAIN behind' = Gets
      BY <1>8 DEF HitL1, HitL2, Load, Answer, Typed
    <2>2. DOMAIN l1' = Replicas
      BY <1>8 DEF HitL1, HitL2, Load, Typed
    <2>3. UNCHANGED <<db, remote, local, republished, at, lost>>
      BY <1>8 DEF HitL1, HitL2, Load, redis, detached
    <2>4. {g} \in SUBSET Requests /\ "answered" \in Places
      BY <1>1 DEF Places
    <2>5. QED
      BY <2>1, <2>2, <2>3, <2>4, TypedEnd DEF Typed
  <1>9. QED
    BY <1>3, <1>4, <1>5, <1>6, <1>7, <1>8 DEF Get

LEMMA TypedWrite ==
  ASSUME Typed, NEW w \in Writes, Write(w)
  PROVE  Typed'
  <1>1. w \in Requests /\ at[w] \in Replicas /\ ver[w] \in Nat /\ local[at[w]].ver \in Nat /\ db \in Nat /\ remote \in Nat
    BY DEF Typed, Requests
  <1>2. db + 1 \in Nat /\ remote + 1 \in Nat /\ local[at[w]].ver + 1 \in Nat
    BY <1>1
  <1>3. Bigger(ver[w], remote + 1) \in Nat
    BY <1>1, <1>2 DEF Bigger
  <1>4. {w} \in SUBSET Requests /\ "done" \in Places
    BY <1>1 DEF Places
  <1>5. CASE Commit(w)
    <2>1. pc' \in [Requests -> Places]
      BY <1>1, <1>5, Gone DEF Commit, Places
    <2>2. QED
      BY <1>2, <1>5, <2>1 DEF Typed, Commit, redis, detached, ghosts
  <1>6. CASE BumpLocal(w)
    <2>1. pc' \in [Requests -> Places]
      BY <1>1, <1>6, Gone DEF BumpLocal, Places
    <2>2. local' \in [Replicas -> [ver : Nat, fresh : BOOLEAN]] /\ ver' \in [Requests -> Nat]
      BY <1>2, <1>6 DEF Typed, BumpLocal
    <2>3. QED
      BY <1>6, <2>1, <2>2 DEF Typed, BumpLocal, redis, detached, ghosts
  <1>7. CASE Incr(w)
    <2>1. pc' \in [Requests -> Places]
      BY <1>1, <1>7, Gone DEF Incr, Places
    <2>2. remote' \in Nat /\ ver' \in [Requests -> Nat]
      BY <1>2, <1>3, <1>7 DEF Typed, Incr
    <2>3. QED
      BY <1>7, <2>1, <2>2 DEF Typed, Incr, detached, ghosts
  <1>8. CASE StoreBumped(w)
    <2>1. local' \in [Replicas -> [ver : Nat, fresh : BOOLEAN]]
      BY <1>1, <1>8 DEF Typed, StoreBumped
    <2>2. End({w}, "done") /\ UNCHANGED <<db, remote, l1, republished, at, behind, lost>>
      BY <1>8 DEF StoreBumped, redis, detached
    <2>3. QED
      BY <1>4, <2>1, <2>2, TypedEnd DEF Typed
  <1>9. CASE IncrFails(w)
    <2>1. remote' \in Nat /\ lost' \in BOOLEAN
      BY <1>2, <1>9 DEF Typed, IncrFails
    <2>2. End({w}, "done") /\ UNCHANGED <<db, local, l1, republished, at, behind>>
      BY <1>9 DEF IncrFails, detached
    <2>3. QED
      BY <1>4, <2>1, <2>2, TypedEnd DEF Typed
  <1>10. QED
    BY <1>5, <1>6, <1>7, <1>8, <1>9 DEF Write

LEMMA TypedRestart ==
  ASSUME Typed, NEW r \in Replicas, Restart(r)
  PROVE  Typed'
  <1>1. PICK qs : qs = {q \in Requests : at[q] = r /\ pc[q] \notin {"new"} \cup Ended}
    OBVIOUS
  <1>2. qs \in SUBSET Requests /\ "error" \in Places /\ End(qs, "error")
    BY <1>1 DEF Restart, Places
  <1>3. local' \in [Replicas -> [ver : Nat, fresh : BOOLEAN]] /\ DOMAIN l1' = Replicas /\ lost' \in BOOLEAN
    BY DEF Restart, Typed
  <1>4. UNCHANGED <<db, remote, republished, at, behind>>
    BY DEF Restart, redis, detached
  <1>5. QED
    BY <1>2, <1>3, <1>4, TypedEnd DEF Typed

LEMMA TypedRest ==
  ASSUME Typed,
         \/ \E f \in fills : Fill(f)
         \/ \E v \in republished : Republish(v)
         \/ DropDetached
         \/ \E r \in Replicas : Age(r) \/ \E v \in DOMAIN l1[r] : EvictL1(r, v)
         \/ \E v \in DOMAIN l2 : ExpireL2(v)
         \/ UNCHANGED vars
  PROVE  Typed'
  <1>1. CASE \E f \in fills : Fill(f)
    BY <1>1 DEF Typed, Fill, ghosts
  <1>2. CASE \E v \in republished : Republish(v)
    BY <1>2 DEF Typed, Republish, ghosts
  <1>3. CASE DropDetached
    BY <1>3 DEF Typed, DropDetached, redis, ghosts
  <1>4. CASE \E r \in Replicas : Age(r)
    <2>1. PICK r \in Replicas : Age(r)
      BY <1>4
    <2>2. PICK known : known = [local[r] EXCEPT !.fresh = FALSE]
      OBVIOUS
    <2>3. known \in [ver : Nat, fresh : BOOLEAN] /\ local' = [local EXCEPT ![r] = known]
      BY <2>1, <2>2 DEF Typed, Age
    <2>4. local' \in [Replicas -> [ver : Nat, fresh : BOOLEAN]]
      BY <2>3 DEF Typed
    <2>5. QED
      BY <2>1, <2>4 DEF Typed, Age, redis, detached, ghosts
  <1>5. CASE \E r \in Replicas : \E v \in DOMAIN l1[r] : EvictL1(r, v)
    BY <1>5 DEF Typed, EvictL1, redis, detached, ghosts
  <1>6. CASE \E v \in DOMAIN l2 : ExpireL2(v)
    BY <1>6 DEF Typed, ExpireL2, detached, ghosts
  <1>7. CASE UNCHANGED vars
    BY <1>7 DEF Typed, vars, redis, detached, ghosts
  <1>8. QED
    BY <1>1, <1>2, <1>3, <1>4, <1>5, <1>6, <1>7

\* An INCR that was lost stays lost.
LEMMA LostStays ==
  ASSUME Typed, [Next]_vars, ~lost'
  PROVE  ~lost
  <1>1. ASSUME NEW g \in Gets, Get(g) PROVE ~lost
    BY <1>1 DEF Get, Begin, Ask, AskFails, StoreVersion, HitL1, StartLoad, HitL2, MissL2, Load, LoadFails, ghosts
  <1>2. ASSUME NEW w \in Writes, Write(w) PROVE ~lost
    BY <1>2 DEF Write, Commit, BumpLocal, Incr, StoreBumped, IncrFails, ghosts
  <1>3. CASE \/ \E f \in fills : Fill(f)
             \/ \E v \in republished : Republish(v)
             \/ DropDetached
             \/ \E v \in DOMAIN l2 : ExpireL2(v)
             \/ UNCHANGED vars
    BY <1>3 DEF Fill, Republish, DropDetached, ExpireL2, vars, ghosts
  <1>4. CASE \E r \in Replicas : Age(r) \/ Restart(r) \/ \E v \in DOMAIN l1[r] : EvictL1(r, v)
    BY <1>4 DEF Age, Restart, EvictL1, ghosts
  <1>5. QED
    BY <1>1, <1>2, <1>3, <1>4 DEF Next

LEMMA TypedNext ==
  ASSUME Typed, [Next]_vars
  PROVE  Typed'
  BY TypedGet, TypedWrite, TypedRestart, TypedRest DEF Next

LEMMA CacheNext ==
  ASSUME CacheInv, [Next]_vars
  PROVE  CacheInv'
  <1>1. Typed /\ Typed'
    BY TypedNext DEF CacheInv
  <1>2. SUFFICES ASSUME ~lost' PROVE Kept'
    BY <1>1 DEF CacheInv
  <1>3. Kept
    BY <1>1, <1>2, LostStays DEF CacheInv
  <1>4. republished = {}
    BY <1>3 DEF Kept, Outdated
  <1>5. CASE DropDetached
    <2>1. /\ fills' \subseteq fills /\ UNCHANGED republished
          /\ UNCHANGED <<db, remote, l2, local, l1, pc, at, ver, asked, owed, behind>>
      BY <1>4, <1>5 DEF DropDetached, redis, ghosts
    <2>2. PagesDated'
      BY <1>3, <2>1 DEF Kept, PagesDated, Dated
    <2>3. QED
      BY <1>1, <1>3, <2>1, <2>2, QuietKept
  <1>6. CASE UNCHANGED vars
    <2>1. /\ UNCHANGED <<db, remote, l2, local, l1, fills, republished, pc, at, ver, asked, owed, behind>>
      BY <1>6 DEF vars, redis, detached, ghosts
    <2>2. PagesDated'
      BY <1>3, <2>1 DEF Kept, PagesDated, Dated
    <2>3. QED
      BY <1>1, <1>3, <2>1, <2>2, QuietKept
  <1>7. CASE Next
    <2>1. CASE \E g \in Gets : Get(g)
      BY <1>1, <1>3, <2>1, GetKept
    <2>2. CASE \E w \in Writes : Write(w)
      BY <1>1, <1>2, <1>3, <2>2, WriteKept
    <2>3. CASE \E f \in fills : Fill(f)
      BY <1>1, <1>3, <2>3, FillKept
    <2>4. CASE \E r \in Replicas : Age(r) \/ Restart(r) \/ \E v \in DOMAIN l1[r] : EvictL1(r, v)
      BY <1>1, <1>2, <1>3, <2>4, AgeKept, RestartKept, EvictKept
    <2>5. CASE \E v \in DOMAIN l2 : ExpireL2(v)
      BY <1>1, <1>3, <2>5, ExpireKept
    <2>6. QED
      BY <1>4, <1>5, <1>6, <1>7, <2>1, <2>2, <2>3, <2>4, <2>5 DEF Next
  <1>8. QED
    BY <1>6, <1>7

LEMMA CacheInit ==
  ASSUME Init
  PROVE  CacheInv
  <1>1. Typed
    BY DEF Init, Typed, Places
  <1>2. Pending = {} /\ \A r : Bumped(r) = {}
    BY DEF Init, Pending, Bumped, Requests
  <1>3. Cardinality({}) = 0
    BY FS_EmptySet
  <1>4. Counted /\ \A r : Reached(r) = 0
    <2>1. db = 0 /\ remote = 0 /\ 0 + 0 = 0
      BY DEF Init
    <2>2. Counted
      BY <1>2, <1>3, <2>1 DEF Counted
    <2>3. ASSUME NEW r PROVE Reached(r) = 0
      BY <1>2, <1>3, <2>1 DEF Reached
    <2>4. QED
      BY <2>2, <2>3
  <1>5. VersionsKnown
    BY <1>4 DEF Init, VersionsKnown
  <1>6. Outdated
    BY <1>2 DEF Init, Outdated, Requests
  <1>7. DOMAIN <<>> = {}
    OBVIOUS
  <1>8. PagesDated
    BY <1>7 DEF Init, PagesDated, Dated
  <1>9. Owed
    BY DEF Init, Owed, Requests
  <1>10. QED
    BY <1>1, <1>4, <1>5, <1>6, <1>8, <1>9 DEF CacheInv, Kept

----------------------------------------------------------------------------
(* The theorems *)

\* While no INCR is lost, versions count the writes that have reached Redis,
\* a replica is ahead by no more than its own INCRs to come, and a page holds
\* at least as many writes as its version says.
THEOREM VersionsCount == Spec => []CacheInv
  <1>1. Init => CacheInv
    BY CacheInit
  <1>2. CacheInv /\ [Next]_vars => CacheInv'
    BY CacheNext
  <1>3. QED
    BY <1>1, <1>2, PTL DEF Spec

\* A GET that asked Redis misses no write it was owed, unless an INCR was lost.
THEOREM AskedIsFresh == Spec => []FreshOnceAsked
  <1>1. CacheInv => FreshOnceAsked
    BY DEF CacheInv, Kept, Owed, FreshOnceAsked
  <1>2. QED
    BY <1>1, VersionsCount, PTL

\* Redis' version never goes back, unless an INCR was lost: no local version is
\* republished before that.
THEOREM VersionsOnlyGrow == Spec => VersionGrows
  <1>1. ASSUME CacheInv, [Next]_vars PROVE [~lost' => remote' >= remote]_vars
    <2>1. Typed /\ remote \in Nat
      BY <1>1 DEF CacheInv, Typed
    <2>2. SUFFICES ASSUME ~lost' PROVE remote' >= remote
      OBVIOUS
    <2>3. republished = {}
      BY <1>1, <2>1, <2>2, LostStays DEF CacheInv, Kept, Outdated
    <2>4. ASSUME NEW g \in Gets, Get(g) PROVE remote' = remote
      BY <2>4 DEF Get, Begin, Ask, AskFails, StoreVersion, HitL1, StartLoad, HitL2, MissL2, Load, LoadFails, redis
    <2>5. ASSUME NEW w \in Writes, Write(w) PROVE remote' = remote \/ remote' = remote + 1
      BY <2>5 DEF Write, Commit, BumpLocal, Incr, StoreBumped, IncrFails, redis
    <2>6. CASE \/ \E f \in fills : Fill(f)
               \/ DropDetached
               \/ \E v \in DOMAIN l2 : ExpireL2(v)
               \/ UNCHANGED vars
      <3>1. remote' = remote
        BY <2>6 DEF Fill, DropDetached, ExpireL2, vars, redis
      <3>2. QED
        BY <2>1, <3>1
    <2>7. CASE \E r \in Replicas : Age(r) \/ Restart(r) \/ \E v \in DOMAIN l1[r] : EvictL1(r, v)
      <3>1. remote' = remote
        BY <2>7 DEF Age, Restart, EvictL1, redis
      <3>2. QED
        BY <2>1, <3>1
    <2>8. CASE \E g \in Gets : Get(g)
      BY <2>1, <2>4, <2>8
    <2>9. CASE \E w \in Writes : Write(w)
      BY <2>1, <2>5, <2>9
    <2>10. QED
      BY <1>1, <2>3, <2>6, <2>7, <2>8, <2>9 DEF Next
  <1>2. QED
    BY <1>1, VersionsCount, PTL DEF Spec, VersionGrows

=============================================================================
