------------------------------ MODULE RouteCache ------------------------------
(***************************************************************************)
(* The read cache of one GET page (data_read_service.rs): an L1 entry in    *)
(* each replica and an L2 entry in Redis, addressed by the version of the   *)
(* route.  A write bumps the version, first in its process and then in      *)
(* Redis (bump_route_version); a GET takes the version its replica knows,   *)
(* or asks Redis when that is older than ROUTE_VERSION_REFRESH_MS           *)
(* (route_version).  Redis is on (`is_cachedb`); without it versions and    *)
(* pages stay in one process.  The data behind the page is the number of    *)
(* writes committed.                                                        *)
(***************************************************************************)
EXTENDS Naturals, FiniteSets, Functions

CONSTANTS
  Replicas,   \* API processes
  Gets,       \* GET requests for the page
  Writes,     \* POST, PUT and DELETE requests of the route
  MaxFaults,  \* bound on lost Redis calls, failed queries and restarts
  MayRestart  \* whether processes die

ASSUME RouteCacheAssumption ==
  /\ MaxFaults \in Nat /\ MayRestart \in BOOLEAN
  /\ IsFiniteSet(Writes) /\ Gets \cap Writes = {}

Requests == Gets \cup Writes

VARIABLES
  db,       \* writes committed
  remote,   \* flx:ver:<route>, 0 when absent
  local,    \* ROUTE_VERSION_LOCAL of each replica; fresh: within the window
  l1, l2,   \* cached pages: version |-> data
  fills,    \* detached L2 writes under way
  republished, \* detached SETs of the version under way
  pc, at,   \* progress of each request, and its replica
  ver,      \* the version each request holds
  asked,    \* GETs under way that were told the version by Redis
  owed,     \* writes committed when each GET began, 0 if some were in progress
  behind,   \* how many of them its answer misses, 0 unless it asked Redis
  lost,     \* whether a write ended without its INCR
  faults

redis == <<remote, l2>>
detached == <<fills, republished>>
ghosts == <<asked, owed, behind, lost>>

vars == <<db, redis, local, l1, detached, pc, at, ver, ghosts, faults>>

Bigger(m, n) == IF m < n THEN n ELSE m

Cached(pages, v, data) == [x \in DOMAIN pages \cup {v} |-> IF x = v THEN data ELSE pages[x]]

Fault == faults < MaxFaults /\ faults' = faults + 1

\* Writes that have committed and not yet invalidated everywhere.
InProgress == {w \in Writes : pc[w] \in {"committed", "bumped", "incremented"}}

\* The states a request stays in.
Ended == {"answered", "done", "error"}

Goto(q, where) == pc' = [pc EXCEPT ![q] = where]

----------------------------------------------------------------------------

Init ==
  /\ db = 0 /\ remote = 0
  /\ local = [r \in Replicas |-> [ver |-> 0, fresh |-> FALSE]]
  /\ l1 = [r \in Replicas |-> <<>>]
  /\ l2 = <<>>
  /\ fills = {} /\ republished = {}
  /\ pc = [q \in Requests |-> "new"]
  /\ at \in [Requests -> Replicas]
  /\ ver = [q \in Requests |-> 0]
  /\ asked = {}
  /\ owed = [g \in Gets |-> 0] /\ behind = [g \in Gets |-> 0]
  /\ lost = FALSE
  /\ faults = 0

----------------------------------------------------------------------------
(* GET: route_version, then try_get_with *)

Begin(g) ==
  LET known == local[at[g]] IN
  /\ pc[g] = "new"
  /\ ver' = [ver EXCEPT ![g] = known.ver]
  /\ Goto(g, IF known.fresh THEN "lookup" ELSE "ask")
  /\ owed' = [owed EXCEPT ![g] = IF InProgress = {} THEN db ELSE 0]
  /\ UNCHANGED <<db, redis, local, l1, detached, at, asked, behind, lost, faults>>

\* A version that Redis has lost is published again.
Ask(g) ==
  /\ pc[g] = "ask"
  /\ ver' = [ver EXCEPT ![g] = Bigger(@, remote)]
  /\ republished' = IF remote < ver[g] THEN republished \cup {ver[g]} ELSE republished
  /\ asked' = asked \cup {g}
  /\ Goto(g, "store")
  /\ UNCHANGED <<db, redis, local, l1, fills, at, owed, behind, lost, faults>>

\* Redis error or timeout: the version the replica knows is used.
AskFails(g) ==
  /\ pc[g] = "ask" /\ Fault
  /\ Goto(g, "store")
  /\ UNCHANGED <<db, redis, local, l1, detached, at, ver, ghosts>>

\* The version is stored over whatever the replica holds by now.
StoreVersion(g) ==
  /\ pc[g] = "store"
  /\ local' = [local EXCEPT ![at[g]] = [ver |-> ver[g], fresh |-> TRUE]]
  /\ Goto(g, "lookup")
  /\ UNCHANGED <<db, redis, l1, detached, at, ver, ghosts, faults>>

\* Requests end; what they held is forgotten.
End(qs, where) ==
  /\ pc' = [q \in Requests |-> IF q \in qs THEN where ELSE pc[q]]
  /\ ver' = [q \in Requests |-> IF q \in qs THEN 0 ELSE ver[q]]
  /\ asked' = asked \ qs
  /\ owed' = [g \in Gets |-> IF g \in qs THEN 0 ELSE owed[g]]

Answer(g, data) ==
  /\ behind' = [behind EXCEPT ![g] = IF g \in asked /\ data < owed[g] THEN owed[g] - data ELSE 0]
  /\ End({g}, "answered")

HitL1(g) ==
  /\ pc[g] = "lookup" /\ ver[g] \in DOMAIN l1[at[g]]
  /\ Answer(g, l1[at[g]][ver[g]])
  /\ UNCHANGED <<db, redis, local, l1, detached, at, lost, faults>>

\* One loader for each key of a replica; the others wait for its page.
StartLoad(g) ==
  /\ pc[g] = "lookup" /\ ver[g] \notin DOMAIN l1[at[g]]
  /\ \A h \in Gets : pc[h] \in {"get", "query"} => <<at[h], ver[h]>> # <<at[g], ver[g]>>
  /\ Goto(g, "get")
  /\ UNCHANGED <<db, redis, local, l1, detached, at, ver, ghosts, faults>>

HitL2(g) ==
  /\ pc[g] = "get" /\ ver[g] \in DOMAIN l2
  /\ l1' = [l1 EXCEPT ![at[g]] = Cached(@, ver[g], l2[ver[g]])]
  /\ Answer(g, l2[ver[g]])
  /\ UNCHANGED <<db, redis, local, detached, at, lost, faults>>

\* No entry, or Redis does not answer.
MissL2(g) ==
  /\ pc[g] = "get"
  /\ \/ ver[g] \notin DOMAIN l2 /\ UNCHANGED faults
     \/ ver[g] \in DOMAIN l2 /\ Fault
  /\ Goto(g, "query")
  /\ UNCHANGED <<db, redis, local, l1, detached, at, ver, ghosts>>

\* fetch_dynamic_data; the L2 write is left to a task of its own.
Load(g) ==
  /\ pc[g] = "query"
  /\ l1' = [l1 EXCEPT ![at[g]] = Cached(@, ver[g], db)]
  /\ fills' = fills \cup {[ver |-> ver[g], data |-> db]}
  /\ Answer(g, db)
  /\ UNCHANGED <<db, redis, local, republished, at, lost, faults>>

\* The loader's error is also the answer to those waiting for its page.
LoadFails(g) ==
  /\ pc[g] = "query" /\ Fault
  /\ \E waiting \in SUBSET {h \in Gets : pc[h] = "lookup" /\ at[h] = at[g] /\ ver[h] = ver[g]} :
       End(waiting \cup {g}, "error")
  /\ UNCHANGED <<db, redis, local, l1, detached, at, behind, lost>>

----------------------------------------------------------------------------
(* A write, and bump_route_version after its commit *)

Commit(w) ==
  /\ pc[w] = "new"
  /\ db' = db + 1
  /\ Goto(w, "committed")
  /\ UNCHANGED <<redis, local, l1, detached, at, ver, ghosts, faults>>

BumpLocal(w) ==
  LET v == local[at[w]].ver + 1 IN
  /\ pc[w] = "committed"
  /\ local' = [local EXCEPT ![at[w]] = [ver |-> v, fresh |-> TRUE]]
  /\ ver' = [ver EXCEPT ![w] = v]
  /\ Goto(w, "bumped")
  /\ UNCHANGED <<db, redis, l1, detached, at, ghosts, faults>>

\* Mutant: the local version is SET in place of the INCR.
PublishLocal(w) ==
  /\ pc[w] = "bumped"
  /\ remote' = ver[w]
  /\ Goto(w, "incremented")
  /\ UNCHANGED <<db, l2, local, l1, detached, at, ver, ghosts, faults>>

Incr(w) ==
  /\ pc[w] = "bumped"
  /\ remote' = remote + 1
  /\ ver' = [ver EXCEPT ![w] = Bigger(@, remote + 1)]
  /\ Goto(w, "incremented")
  /\ UNCHANGED <<db, l2, local, l1, detached, at, ghosts, faults>>

StoreBumped(w) ==
  /\ pc[w] = "incremented"
  /\ local' = [local EXCEPT ![at[w]] = [ver |-> ver[w], fresh |-> TRUE]]
  /\ End({w}, "done")
  /\ UNCHANGED <<db, redis, l1, detached, at, behind, lost, faults>>

\* Error or timeout, the INCR executed or not (one executed later counts as
\* lost): the local bump must do.
IncrFails(w) ==
  /\ pc[w] = "bumped" /\ Fault
  /\ \/ remote' = remote + 1 /\ UNCHANGED lost
     \/ lost' = TRUE /\ UNCHANGED remote
  /\ End({w}, "done")
  /\ UNCHANGED <<db, l2, local, l1, detached, at, behind>>

----------------------------------------------------------------------------
(* Detached tasks, time and restarts *)

Fill(f) ==
  /\ l2' = Cached(l2, f.ver, f.data)
  /\ fills' = fills \ {f}
  /\ UNCHANGED <<db, remote, local, l1, republished, pc, at, ver, ghosts, faults>>

Republish(v) ==
  /\ remote' = v
  /\ republished' = republished \ {v}
  /\ UNCHANGED <<db, l2, local, l1, fills, pc, at, ver, ghosts, faults>>

\* A detached SET fails, or its process ends.
DropDetached ==
  /\ Fault
  /\ \/ \E f \in fills : fills' = fills \ {f} /\ UNCHANGED republished
     \/ \E v \in republished : republished' = republished \ {v} /\ UNCHANGED fills
  /\ UNCHANGED <<db, redis, local, l1, pc, at, ver, ghosts>>

\* Mutant: REDIS_CACHE_TIMEOUT_MS above ROUTE_VERSION_REFRESH_MS.
AnyAge(r) == local[r].fresh

\* ROUTE_VERSION_REFRESH_MS (1000 ms) is longer than REDIS_CACHE_TIMEOUT_MS
\* (100 ms), which bounds an INCR.
OldEnough(r) == local[r].fresh /\ \A w \in Writes : pc[w] = "bumped" => at[w] # r

Age(r) ==
  /\ OldEnough(r)
  /\ local' = [local EXCEPT ![r].fresh = FALSE]
  /\ UNCHANGED <<db, redis, l1, detached, pc, at, ver, ghosts, faults>>

\* Time to live, or the byte budget.
EvictL1(r, v) ==
  /\ l1' = [l1 EXCEPT ![r] = Restrict(@, DOMAIN @ \ {v})]
  /\ UNCHANGED <<db, redis, local, detached, pc, at, ver, ghosts, faults>>

ExpireL2(v) ==
  /\ l2' = Restrict(l2, DOMAIN l2 \ {v})
  /\ UNCHANGED <<db, remote, local, l1, detached, pc, at, ver, ghosts, faults>>

\* The process dies, with the requests it was serving, and starts anew.
Restart(r) ==
  /\ MayRestart /\ Fault
  /\ local' = [local EXCEPT ![r] = [ver |-> 0, fresh |-> FALSE]]
  /\ l1' = [l1 EXCEPT ![r] = <<>>]
  /\ lost' = (lost \/ \E w \in Writes : at[w] = r /\ pc[w] \in {"committed", "bumped"})
  /\ End({q \in Requests : at[q] = r /\ pc[q] \notin {"new"} \cup Ended}, "error")
  /\ UNCHANGED <<db, redis, detached, at, behind>>

Get(g) ==
  \/ Begin(g) \/ Ask(g) \/ AskFails(g) \/ StoreVersion(g) \/ HitL1(g) \/ StartLoad(g)
  \/ HitL2(g) \/ MissL2(g) \/ Load(g) \/ LoadFails(g)

Write(w) == Commit(w) \/ BumpLocal(w) \/ Incr(w) \/ StoreBumped(w) \/ IncrFails(w)

Finished == \A q \in Requests : pc[q] \in Ended

Next ==
  \/ \E g \in Gets : Get(g)
  \/ \E w \in Writes : Write(w)
  \/ \E f \in fills : Fill(f)
  \/ \E v \in republished : Republish(v)
  \/ DropDetached
  \/ \E r \in Replicas : Age(r) \/ Restart(r) \/ \E v \in DOMAIN l1[r] : EvictL1(r, v)
  \/ \E v \in DOMAIN l2 : ExpireL2(v)
  \/ Finished /\ UNCHANGED vars

Spec == Init /\ [][Next]_vars

----------------------------------------------------------------------------
(* Properties *)

Versions == 0..Cardinality(Writes)

Pages(p) == DOMAIN p \subseteq Versions /\ \A v \in DOMAIN p : p[v] \in 0..db

TypeOK ==
  /\ db \in Versions /\ remote \in Versions
  /\ local \in [Replicas -> [ver : Versions, fresh : BOOLEAN]]
  /\ \A r \in Replicas : Pages(l1[r])
  /\ Pages(l2)
  /\ fills \subseteq [ver : Versions, data : 0..db]
  /\ republished \subseteq Versions
  /\ at \in [Requests -> Replicas]
  /\ \A g \in Gets : pc[g] \in {"new", "ask", "store", "lookup", "get", "query", "answered", "error"}
  /\ \A w \in Writes : pc[w] \in {"new", "committed", "bumped", "incremented", "done", "error"}
  /\ ver \in [Requests -> Versions]
  /\ behind \in [Gets -> 0..db] /\ owed \in [Gets -> 0..db]
  /\ asked \subseteq Gets /\ lost \in BOOLEAN /\ faults \in 0..MaxFaults

\* A GET that asks Redis for the version, and begins when no write is being
\* invalidated, answers with every write committed by then, whatever pages the
\* replicas share and however local bumps, INCRs and detached fills interleave,
\* as long as no INCR was lost.
FreshOnceAsked == ~lost => \A g \in Gets : behind[g] = 0

\* Versions are not used twice: Redis' version only grows, unless an INCR was
\* lost, in spite of the SET that republishes a local version.
VersionGrows == [][~lost' => remote' >= remote]_vars

=============================================================================
