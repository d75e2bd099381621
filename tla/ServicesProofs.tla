---------------------------- MODULE ServicesProofs ----------------------------
(***************************************************************************)
(* Proofs about the configuration and what is served under it.  About       *)
(* Registry, for any files, edits, tables and any number of reloads that    *)
(* overlap: types, what is in service, and the schema of a cached page.     *)
(* About Services, part by part, for any configurations, callers, values,   *)
(* files and rows: under which rules a request or a tool call is done or    *)
(* refused (Requests, Mcp), what a row comes to hold (FieldValues), that    *)
(* what the lint had nothing to say of runs (ConfigLint), that an import is *)
(* whole (Import), that a DELETE leaves no orphan it did not race           *)
(* (References), that a client gets each row once (Paging), and that the     *)
(* tables of what is served are in place (TableGeneration).                  *)
(***************************************************************************)
EXTENDS Registry, Services, FiniteSetTheorems, WellFoundedInduction, TLAPS

\* What a reload knows between its diff and its swap: the configuration it
\* holds is sound, and each generated entity has its table or is still to get
\* one.  The entities the diff left out had theirs in the registry of the diff.
Prepared ==
  \A p \in Reloads : reload[p].pc = "ddl" =>
    /\ Sound(reload[p].routes, reload[p].entity)
    /\ \A r \in reload[p].routes :
         reload[p].entity[r] \in Generated => r \in reload[p].todo \/ TableOf[reload[p].entity[r]] \in tables \cup lost

IInv == TypeOK /\ LiveIsServable /\ Prepared

RegistryType == [routes : SUBSET Routes, entity : [Routes -> Texts], rules : RuleFiles, gen : Nat]

ReloadType ==
  [pc : {"start", "read", "loaded", "ddl", "bump", "ok"}, routes : SUBSET Routes,
   entity : [Routes -> Texts], unread : SUBSET Routes, rules : RuleFiles, todo : SUBSET Routes,
   old : [routes : SUBSET Routes, entity : [Routes -> Texts], gen : Nat]]

LEMMA BootTypes ==
  /\ BootDisk.routes \in SUBSET Routes /\ BootDisk.entity \in [Routes -> Texts]
  /\ BootDisk.rules \in RuleFiles
  BY RegistryAssumption DEF Disks

LEMMA NotLoadedType == NotLoaded \in ReloadType
  BY BootTypes, RegistryAssumption DEF NotLoaded, ReloadType

LEMMA InitInv == Init => IInv
  <1> SUFFICES ASSUME Init PROVE IInv
    OBVIOUS
  <1>1. TypeOK
    <2>1. tables \subseteq Tables /\ lost \subseteq Tables
      BY BootTypes, RegistryAssumption DEF Init, TablesOf
    <2>2. reload \in [Reloads -> ReloadType]
      BY NotLoadedType DEF Init
    <2>3. live \in RegistryType
      BY BootTypes DEF Init, RegistryType
    <2>4. QED
      BY <2>1, <2>2, <2>3, RegistryAssumption DEF Init, TypeOK, ReloadType, RegistryType
  <1>2. LiveIsServable
    BY RegistryAssumption DEF Init, LiveIsServable
  <1>3. Prepared
    BY DEF Init, Prepared, NotLoaded
  <1>4. QED
    BY <1>1, <1>2, <1>3 DEF IInv

\* Every action keeps the types.
LEMMA TypeStep == TypeOK /\ [Next]_vars => TypeOK'
  <1> SUFFICES ASSUME TypeOK, [Next]_vars PROVE TypeOK'
    OBVIOUS
  <1> USE DEF TypeOK, Step
  <1>1. CASE Edit
    <2>1. disk' \in Disks
      <3>1. ASSUME NEW listed \in SUBSET Routes, disk' = [disk EXCEPT !.routes = listed] PROVE disk' \in Disks
        BY <3>1 DEF Disks
      <3>2. ASSUME NEW r \in Routes, NEW t \in Texts, disk' = [disk EXCEPT !.entity[r] = t]
            PROVE  disk' \in Disks
        BY <3>2 DEF Disks
      <3>3. ASSUME NEW f \in RuleFiles, disk' = [disk EXCEPT !.rules = f] PROVE disk' \in Disks
        BY <3>3 DEF Disks
      <3>4. QED
        BY <1>1, <3>1, <3>2, <3>3 DEF Edit
    <2>2. edits' \in 0..MaxEdits
      BY <1>1, RegistryAssumption DEF Edit
    <2>3. QED
      BY <1>1, <2>1, <2>2 DEF Edit
  <1>2. ASSUME NEW p \in Reloads, Reloading(p) PROVE TypeOK'
    <2>0. reload[p] \in ReloadType /\ NotLoaded \in ReloadType
      BY NotLoadedType DEF ReloadType
    <2> USE DEF ReloadType
    <2>1. CASE ReadRoutes(p)
      BY <2>0, <2>1 DEF ReadRoutes, requests, Disks
    <2>2. CASE ReadRules(p)
      BY <2>0, <2>2 DEF ReadRules, requests, Disks
    <2>3. CASE Refuse(p)
      BY <2>0, <2>3 DEF Refuse, requests
    <2>4. CASE Diff(p)
      BY <2>0, <2>4 DEF Diff, ForAddedOrChanged, requests
    <2>5. CASE Swap(p)
      <3>1. reload' \in [Reloads -> ReloadType]
        BY <2>0, <2>5 DEF Swap
      <3>2. live' \in RegistryType /\ swaps' \in Nat
        BY <2>0, <2>5 DEF Swap, RegistryType
      <3>3. QED
        BY <2>5, <3>1, <3>2 DEF Swap, RegistryType
    <2>6. CASE Reloaded(p)
      BY <2>0, <2>6 DEF Reloaded, requests
    <2>7. ASSUME NEW r \in Routes, ReadEntity(p, r) PROVE TypeOK'
      BY <2>0, <2>7 DEF ReadEntity, requests, Disks
    <2>8. ASSUME NEW r \in Routes, Generate(p, r) PROVE TypeOK'
      <3>1. reload' \in [Reloads -> ReloadType]
        BY <2>0, <2>8 DEF Generate
      <3>2. tables' \subseteq Tables /\ lost' \subseteq Tables
        BY <2>0, <2>8, RegistryAssumption DEF Generate
      <3>3. QED
        BY <2>8, <3>1, <3>2 DEF Generate
    <2>9. ASSUME NEW r \in Routes, GenerateFails(p, r) PROVE TypeOK'
      BY <2>0, <2>9, RegistryAssumption DEF GenerateFails, requests
    <2>10. ASSUME NEW r \in Routes, Bump(p, r) PROVE TypeOK'
      <3>1. reload' \in [Reloads -> ReloadType]
        BY <2>0, <2>10 DEF Bump
      <3>2. version' \in [Routes -> Nat]
        BY <2>10 DEF Bump
      <3>3. QED
        BY <2>10, <3>1, <3>2 DEF Bump
    <2>11. QED
      BY <1>2, <2>1, <2>2, <2>3, <2>4, <2>5, <2>6, <2>7, <2>8, <2>9, <2>10 DEF Reloading
  <1>3. ASSUME NEW q \in Readers, Load(q) \/ \E r \in Routes : Resolve(q, r) PROVE TypeOK'
    BY <1>3 DEF Load, Resolve, requests
  <1>4. CASE UNCHANGED vars
    BY <1>4 DEF vars
  <1>5. QED
    BY <1>1, <1>2, <1>3, <1>4 DEF Next

\* Tables and lost ones only come: what was prepared stays prepared while a reload keeps
\* its configuration.
LEMMA PreparedKept ==
  ASSUME Prepared, tables \cup lost \subseteq tables' \cup lost',
         \A p \in Reloads : reload'[p].pc = "ddl" => reload'[p] = reload[p]
  PROVE  Prepared'
  BY DEF Prepared, Sound, Linted, NoTableTwice

LEMMA ServableKept ==
  ASSUME LiveIsServable, live' = live, tables \cup lost \subseteq tables' \cup lost'
  PROVE  LiveIsServable'
  BY DEF LiveIsServable, TablesOf, Sound, Linted, NoTableTwice

\* One step per action; only the diff, the DDL and the swap disturb it.
LEMMA InvStep == IInv /\ [Next]_vars => IInv'
  <1> SUFFICES ASSUME IInv, [Next]_vars PROVE IInv'
    OBVIOUS
  <1>0. TypeOK /\ LiveIsServable /\ Prepared /\ TypeOK'
    BY TypeStep DEF IInv
  <1>a. reload \in [Reloads -> ReloadType]
    BY <1>0 DEF TypeOK, ReloadType
  <1>1. CASE UNCHANGED <<live, tables, lost, reload>>
    BY <1>0, <1>1, PreparedKept, ServableKept DEF IInv
  <1>2. ASSUME NEW p \in Reloads, Reloading(p) PROVE IInv'
    <2> USE DEF Step
    <2>1. CASE ReadRoutes(p) \/ ReadRules(p) \/ Refuse(p) \/ Reloaded(p)
      <3>0. reload'[p].pc # "ddl" /\ \A s \in Reloads \ {p} : reload'[s] = reload[s]
        <4> USE <1>a DEF ReloadType, NotLoaded
        <4>1. CASE ReadRoutes(p)
          BY <4>1 DEF ReadRoutes
        <4>2. CASE ReadRules(p)
          BY <4>2 DEF ReadRules
        <4>3. CASE Refuse(p)
          BY <4>3 DEF Refuse
        <4>4. CASE Reloaded(p)
          BY <4>4 DEF Reloaded
        <4>5. QED
          BY <2>1, <4>1, <4>2, <4>3, <4>4
      <3>1. \A s \in Reloads : reload'[s].pc = "ddl" => reload'[s] = reload[s]
        BY <3>0
      <3>2. UNCHANGED <<live, tables, lost>>
        BY <2>1 DEF ReadRoutes, ReadRules, Refuse, Reloaded
      <3>3. QED
        BY <1>0, <3>1, <3>2, PreparedKept, ServableKept DEF IInv
    <2>2. CASE \E r \in Routes : ReadEntity(p, r) \/ GenerateFails(p, r) \/ Bump(p, r)
      <3>0. reload'[p].pc # "ddl" /\ \A s \in Reloads \ {p} : reload'[s] = reload[s]
        <4> PICK r \in Routes : ReadEntity(p, r) \/ GenerateFails(p, r) \/ Bump(p, r)
          BY <2>2
        <4> USE <1>a DEF ReloadType, NotLoaded
        <4>1. CASE ReadEntity(p, r)
          BY <4>1 DEF ReadEntity
        <4>2. CASE GenerateFails(p, r)
          BY <4>2 DEF GenerateFails
        <4>3. CASE Bump(p, r)
          BY <4>3 DEF Bump
        <4>4. QED
          BY <4>1, <4>2, <4>3
      <3>1. \A s \in Reloads : reload'[s].pc = "ddl" => reload'[s] = reload[s]
        BY <3>0
      <3>2. live' = live /\ tables \cup lost \subseteq tables' \cup lost'
        BY <2>2 DEF ReadEntity, GenerateFails, Bump
      <3>3. QED
        BY <1>0, <3>1, <3>2, PreparedKept, ServableKept DEF IInv
    <2>3. CASE Diff(p)
      <3>1. LiveIsServable'
        BY <1>0, <2>3, ServableKept DEF Diff
      <3>2. reload' = [reload EXCEPT ![p] = reload'[p]]
            /\ reload'[p].routes = reload[p].routes /\ reload'[p].entity = reload[p].entity
            /\ reload'[p].todo = ForAddedOrChanged(p)
        BY <1>a, <2>3 DEF Diff, ReloadType
      <3>3. \A r \in reload[p].routes : reload[p].entity[r] \in Generated =>
              r \in ForAddedOrChanged(p) \/ TableOf[reload[p].entity[r]] \in tables \cup lost
        BY <1>0 DEF ForAddedOrChanged, LiveIsServable, TablesOf
      <3>4. Prepared'
        BY <1>0, <1>a, <2>3, <3>2, <3>3 DEF Prepared, Diff, Sound, Linted, NoTableTwice
      <3>5. QED
        BY <1>0, <3>1, <3>4 DEF IInv
    <2>4. ASSUME NEW r \in Routes, Generate(p, r) PROVE IInv'
      <3>1. LiveIsServable'
        BY <1>0, <2>4, ServableKept DEF Generate
      <3>2. reload' = [reload EXCEPT ![p] = reload'[p]]
            /\ reload'[p].routes = reload[p].routes /\ reload'[p].entity = reload[p].entity
            /\ reload'[p].todo = reload[p].todo \ {r} /\ reload[p].pc = "ddl"
        BY <1>a, <2>4 DEF Generate, ReloadType
      <3>3. tables \cup lost \cup {TableOf[reload[p].entity[r]]} \subseteq tables' \cup lost'
        BY <2>4 DEF Generate
      <3>4. Prepared'
        BY <1>0, <1>a, <3>2, <3>3 DEF Prepared, Sound, Linted, NoTableTwice
      <3>5. QED
        BY <1>0, <3>1, <3>4 DEF IInv
    <2>5. CASE Swap(p)
      <3>1. \A s \in Reloads : reload'[s].pc = "ddl" => reload'[s] = reload[s]
        BY <1>a, <2>5 DEF Swap, ReloadType
      <3>2. Prepared'
        BY <1>0, <2>5, <3>1, PreparedKept DEF Swap
      <3>3. live'.routes = reload[p].routes /\ live'.entity = reload[p].entity /\ tables' = tables /\ lost' = lost
            /\ reload[p].pc = "ddl" /\ reload[p].todo = {}
        BY <2>5 DEF Swap
      <3>4. LiveIsServable'
        BY <1>0, <3>3 DEF Prepared, LiveIsServable, TablesOf, Sound, Linted, NoTableTwice
      <3>5. QED
        BY <1>0, <3>2, <3>4 DEF IInv
    <2>6. QED
      BY <1>2, <2>1, <2>2, <2>3, <2>4, <2>5 DEF Reloading
  <1>3. CASE Edit
    BY <1>1, <1>3 DEF Edit
  <1>4. ASSUME NEW q \in Readers, Load(q) \/ \E r \in Routes : Resolve(q, r) PROVE IInv'
    BY <1>1, <1>4 DEF Load, Resolve
  <1>5. QED
    BY <1>1, <1>2, <1>3, <1>4 DEF Next, vars

LEMMA Invariance == Spec => []IInv
  BY InitInv, InvStep, PTL DEF Spec

\* Types, for any files and reloads.
THEOREM TypeCorrect == Spec => []TypeOK
  BY Invariance, PTL DEF IInv

\* However many reloads overlap, fail or overtake each other, the registry in
\* service is sound and its generated entities have their tables.
THEOREM Servable == Spec => []LiveIsServable
  BY Invariance, PTL DEF IInv

----------------------------------------------------------------------------
(* Pages and the schema they show *)

GetType ==
  [pc : {"new", "served"}]
    \cup [pc : {"resolved"}, route : Routes, text : Texts, swaps : Nat]

PageType == [route : Routes, ver : Nat, text : Texts, across : BOOLEAN]

\* A GET that no swap overtook holds the schema in service.
GetsKnow ==
  /\ get \in [Readers -> GetType]
  /\ \A q \in Readers : get[q].pc = "resolved" =>
       /\ get[q].swaps <= swaps
       /\ get[q].swaps = swaps => get[q].text = live.entity[get[q].route]

\* Versions are not taken before they are reached.
PagesDated == page \subseteq PageType /\ \A g \in page : g.ver <= version[g.route]

\* A page that can still be served shows the schema in service, or some reload
\* has yet to bump its route.
PagesOwed ==
  \A g \in page :
    g.ver = version[g.route] /\ g.route \in live.routes /\ ~g.across =>
      \/ g.text = live.entity[g.route]
      \/ \E p \in Reloads : reload[p].pc = "bump" /\ g.route \in reload[p].todo

PageInv == GetsKnow /\ PagesDated /\ PagesOwed

\* Routes stay owed while nothing is bumped and the registry stays.
LEMMA PagesKept ==
  ASSUME PageInv, UNCHANGED <<live, version, page, get, swaps>>,
         \A p \in Reloads, r \in Routes :
           reload[p].pc = "bump" /\ r \in reload[p].todo => reload'[p].pc = "bump" /\ r \in reload'[p].todo
  PROVE  PageInv'
  <1>1. GetsKnow' /\ PagesDated'
    BY DEF PageInv, GetsKnow, PagesDated
  <1>2. ASSUME NEW g \in page, g.ver = version[g.route], g.route \in live.routes, ~g.across
        PROVE  \/ g.text = live.entity[g.route]
               \/ \E p \in Reloads : reload'[p].pc = "bump" /\ g.route \in reload'[p].todo
    <2>1. g.route \in Routes
      BY DEF PageInv, PagesDated, PageType
    <2>2. \/ g.text = live.entity[g.route]
          \/ \E p \in Reloads : reload[p].pc = "bump" /\ g.route \in reload[p].todo
      BY <1>2 DEF PageInv, PagesOwed
    <2>3. QED
      BY <2>1, <2>2
  <1>3. PagesOwed'
    BY <1>2 DEF PagesOwed
  <1>4. QED
    BY <1>1, <1>3 DEF PageInv

\* The new registry owes a bump to each of its routes.
LEMMA PagesSwap ==
  ASSUME TypeOK, PageInv, NEW p \in Reloads, Swap(p)
  PROVE  PageInv'
  <1>1. reload \in [Reloads -> ReloadType] /\ swaps \in Nat
    BY DEF TypeOK, ReloadType
  <1>2. /\ live'.routes = reload[p].routes /\ swaps' = swaps + 1
        /\ UNCHANGED <<version, page, get>>
    BY DEF Swap, requests
  <1>3. reload'[p].pc = "bump" /\ reload[p].routes \subseteq reload'[p].todo
    BY <1>1 DEF Swap, Step, ReloadType
  <1>4. GetsKnow'
    <2>1. \A q \in Readers : get[q].pc = "resolved" =>
            get[q].swaps \in Nat /\ get[q].swaps <= swaps
      BY DEF PageInv, GetsKnow, GetType
    <2>2. QED
      BY <1>1, <1>2, <2>1 DEF PageInv, GetsKnow
  <1>5. QED
    BY <1>2, <1>3, <1>4 DEF PageInv, PagesDated, PagesOwed

\* After a bump no page has the current version.
LEMMA PagesBumped ==
  ASSUME TypeOK, PageInv, NEW p \in Reloads, NEW r \in Routes, Bump(p, r)
  PROVE  PageInv'
  <1>1. reload \in [Reloads -> ReloadType] /\ version \in [Routes -> Nat]
    BY DEF TypeOK, ReloadType
  <1>2. /\ UNCHANGED <<live, page, get, swaps>>
        /\ version' = [version EXCEPT ![r] = @ + 1]
    BY DEF Bump, requests
  <1>3. \A s \in Reloads, t \in Routes :
          reload[s].pc = "bump" /\ t \in reload[s].todo /\ t # r =>
            reload'[s].pc = "bump" /\ t \in reload'[s].todo
    BY <1>1 DEF Bump, Step, ReloadType
  <1>4. GetsKnow'
    BY <1>2 DEF PageInv, GetsKnow
  <1>5. \A g \in page : /\ g \in PageType /\ g.route \in Routes /\ g.ver \in Nat /\ g.ver <= version[g.route]
    BY DEF PageInv, PagesDated, PageType
  <1>6. PagesDated'
    <2>1. ASSUME NEW g \in page PROVE g.ver <= version'[g.route]
      BY <1>1, <1>2, <1>5
    <2>2. QED
      BY <1>2, <1>5, <2>1 DEF PagesDated
  <1>7. ASSUME NEW g \in page, g.ver = version'[g.route], g.route \in live.routes, ~g.across
        PROVE  \/ g.text = live.entity[g.route]
               \/ \E s \in Reloads : reload'[s].pc = "bump" /\ g.route \in reload'[s].todo
    <2>1. g.route # r /\ g.ver = version[g.route]
      BY <1>1, <1>2, <1>5, <1>7
    <2>2. \/ g.text = live.entity[g.route]
          \/ \E s \in Reloads : reload[s].pc = "bump" /\ g.route \in reload[s].todo
      BY <1>7, <2>1 DEF PageInv, PagesOwed
    <2>3. QED
      BY <1>3, <1>5, <2>1, <2>2
  <1>8. PagesOwed'
    BY <1>2, <1>7 DEF PagesOwed
  <1>9. QED
    BY <1>4, <1>6, <1>8 DEF PageInv

LEMMA PagesRequested ==
  ASSUME TypeOK, PageInv, NEW q \in Readers, Load(q) \/ \E r \in Routes : Resolve(q, r)
  PROVE  PageInv'
  <1>0. /\ version \in [Routes -> Nat] /\ swaps \in Nat /\ live.entity \in [Routes -> Texts]
        /\ live.routes \subseteq Routes
    BY DEF TypeOK
  <1>1. ASSUME NEW r \in Routes, Resolve(q, r) PROVE PageInv'
    <2> DEFINE held == [pc |-> "resolved", route |-> r, text |-> live.entity[r], swaps |-> swaps]
    <2>1. held \in GetType
      BY <1>0 DEF GetType
    <2>2. get' = [get EXCEPT ![q] = held] /\ UNCHANGED <<live, swaps, page, version, reload>>
      BY <1>1 DEF Resolve
    <2>3. get' \in [Readers -> GetType]
      BY <2>1, <2>2 DEF PageInv, GetsKnow
    <2>4. ASSUME NEW s \in Readers, get'[s].pc = "resolved"
          PROVE  get'[s].swaps <= swaps /\ (get'[s].swaps = swaps => get'[s].text = live.entity[get'[s].route])
      <3>1. CASE s = q
        BY <1>0, <2>2, <3>1 DEF PageInv, GetsKnow
      <3>2. CASE s # q
        BY <2>2, <2>4, <3>2 DEF PageInv, GetsKnow
      <3>3. QED
        BY <3>1, <3>2
    <2>5. GetsKnow'
      BY <2>2, <2>3, <2>4 DEF GetsKnow
    <2>6. QED
      BY <2>2, <2>5 DEF PageInv, PagesDated, PagesOwed
  <1>2. CASE Load(q)
    <2> DEFINE r == get[q].route
               new == [route |-> r, ver |-> version[r], text |-> get[q].text, across |-> swaps # get[q].swaps]
    <2>1. get[q] \in GetType /\ get[q].pc = "resolved"
      BY <1>2 DEF Load, PageInv, GetsKnow
    <2>2. r \in Routes /\ get[q].text \in Texts /\ get[q].swaps \in Nat
      BY <2>1 DEF GetType
    <2>3. new \in PageType
      BY <1>0, <2>2 DEF PageType
    <2>4. /\ UNCHANGED <<live, version, reload, swaps>>
          /\ get' = [get EXCEPT ![q] = [pc |-> "served"]]
          /\ page' \in {page, page \cup {new}}
      BY <1>2 DEF Load
    <2>5. GetsKnow'
      <3>1. [pc |-> "served"] \in GetType
        BY DEF GetType
      <3>2. get' \in [Readers -> GetType]
        BY <2>4, <3>1 DEF PageInv, GetsKnow
      <3>3. QED
        BY <2>4, <3>2 DEF PageInv, GetsKnow
    <2>6. ~new.across => new.text = live.entity[new.route]
      BY <2>1 DEF PageInv, GetsKnow
    <2>7. new.ver <= version[new.route]
      BY <1>0, <2>2
    <2> HIDE DEF new
    <2>8. PagesDated' /\ PagesOwed'
      BY <2>3, <2>4, <2>6, <2>7 DEF PageInv, PagesDated, PagesOwed
    <2>9. QED
      BY <2>5, <2>8 DEF PageInv
  <1>3. QED
    BY <1>1, <1>2

LEMMA PageStep == TypeOK /\ PageInv /\ [Next]_vars => PageInv'
  <1> SUFFICES ASSUME TypeOK, PageInv, [Next]_vars PROVE PageInv'
    OBVIOUS
  <1>0. reload \in [Reloads -> ReloadType]
    BY DEF TypeOK, ReloadType
  <1>1. ASSUME NEW p \in Reloads, Reloading(p) PROVE PageInv'
    <2>1. CASE ReadRoutes(p) \/ ReadRules(p) \/ Refuse(p) \/ Diff(p) \/ Reloaded(p)
               \/ \E r \in Routes : ReadEntity(p, r) \/ Generate(p, r) \/ GenerateFails(p, r)
      <3>1. UNCHANGED <<live, version, page, get, swaps>>
        BY <2>1 DEF ReadRoutes, ReadRules, Refuse, Diff, Reloaded, ReadEntity, Generate, GenerateFails, requests
      <3>2. reload[p].pc = "bump" => reload[p].todo = {}
        BY <2>1 DEF ReadRoutes, ReadRules, Refuse, Diff, Reloaded, ReadEntity, Generate, GenerateFails
      <3>3. \A s \in Reloads : s # p => reload'[s] = reload[s]
        BY <1>0, <2>1 DEF ReadRoutes, ReadRules, Refuse, Diff, Reloaded, ReadEntity, Generate, GenerateFails, Step
      <3>4. QED
        BY <3>1, <3>2, <3>3, PagesKept
    <2>2. CASE Swap(p)
      BY <2>2, PagesSwap
    <2>3. ASSUME NEW r \in Routes, Bump(p, r) PROVE PageInv'
      BY <2>3, PagesBumped
    <2>4. QED
      BY <1>1, <2>1, <2>2, <2>3 DEF Reloading
  <1>2. ASSUME NEW q \in Readers, Load(q) \/ \E r \in Routes : Resolve(q, r) PROVE PageInv'
    BY <1>2, PagesRequested
  <1>3. CASE Edit \/ UNCHANGED vars
    BY <1>3, PagesKept DEF Edit, vars, requests
  <1>4. QED
    BY <1>1, <1>2, <1>3 DEF Next

\* registry.rs, "no stale page survives the schema change", for any number of overlapping
\* reloads: each swap owes a bump to every route it puts in service.
THEOREM NoPageStale == Spec => []NoStalePage
  <1>1. Init => PageInv
    <2> SUFFICES ASSUME Init PROVE PageInv
      OBVIOUS
    <2>1. [pc |-> "new"] \in GetType
      BY DEF GetType
    <2>2. GetsKnow
      BY <2>1 DEF Init, GetsKnow
    <2>3. QED
      BY <2>2 DEF Init, PageInv, PagesDated, PagesOwed
  <1>2. PageInv => NoStalePage
    BY DEF PageInv, PagesOwed, NoStalePage
  <1>3. QED
    BY <1>1, <1>2, PageStep, TypeCorrect, PTL DEF Spec
----------------------------------------------------------------------------
(* Requests *)

Permitted(g) == R!Access!Permits(Rules[g], caller, call.path, method)
Fits(g) == R!Access!FieldsPass(R!Access!Restrictions(Rules[g], caller, call.path, method), columns)

\* The registry in service is never older than one that was taken from it.
Generations ==
  /\ gen \in Nat /\ since \in Nat /\ 1 <= gen /\ since <= gen
  /\ pc \in {"resolved", "permitted", "entered"} => schema >= since

\* What a request has passed, it passed since it began or was taken.
Passed ==
  /\ pc \in {"permitted", "entered"} => checked >= since /\ Permitted(checked)
  /\ pc = "entered" => call.service # "read" /\ (R!Restricts => Fits(filter))

\* A request that was not queued is what was asked.
AsAsked == ~job /\ pc \notin {"queued", "done", "rejected"} => columns = call.columns /\ method = call.method

RequestInv == Generations /\ Passed /\ AsAsked /\ R!DoneUnderRules /\ R!RefusedForCause

----------------------------------------------------------------------------

\* What is retained of a page passes the restrictions.
LEMMA RetainedPass ==
  ASSUME NEW restrictions, NEW cols
  PROVE  R!Access!FieldsPass(restrictions, R!Access!Retained(restrictions, cols))
  BY DEF R!Access!FieldsPass, R!Access!Retained

LEMMA RequestInit == R!Init => RequestInv
  BY DEF R!Init, RequestInv, Generations, Passed, AsAsked, R!DoneUnderRules, R!RefusedForCause

\* A step that refuses a request, for the rules in service.
LEMMA Refused ==
  ASSUME RequestInv, ~R!Admits(gen, method, columns), pc' = "denied", pc \in {"resolved", "permitted"},
         UNCHANGED <<gen, call, caller, queued, method, columns, since, job>>
  PROVE  RequestInv'
  <1>1. gen \in 1..gen
    BY DEF RequestInv, Generations
  <1>2. ~job => columns = call.columns /\ method = call.method
    BY DEF RequestInv, AsAsked
  <1>3. R!Admits(gen, method, columns)' <=> R!Admits(gen, method, columns)
    BY DEF R!Admits, R!Restricts
  <1>4. R!RefusedForCause'
    BY <1>1, <1>2, <1>3 DEF R!RefusedForCause
  <1>5. Generations' /\ Passed' /\ AsAsked' /\ R!DoneUnderRules'
    BY DEF RequestInv, Generations, Passed, AsAsked, R!DoneUnderRules
  <1>6. QED
    BY <1>4, <1>5 DEF RequestInv

\* A step that ends a request without a refusal by the rules.
LEMMA GivenUp ==
  ASSUME RequestInv, pc \in {"new", "entered"}, pc' \in {"disabled", "rejected", "failed"},
         UNCHANGED <<gen, since, job>>, columns' = columns, method' = method, call' = call
  PROVE  RequestInv'
  BY DEF RequestInv, Generations, Passed, AsAsked, R!DoneUnderRules, R!RefusedForCause

LEMMA RequestNext ==
  ASSUME RequestInv, [R!Next]_calls
  PROVE  RequestInv'
  <1>1. Generations /\ Passed /\ AsAsked /\ R!DoneUnderRules /\ R!RefusedForCause
    BY DEF RequestInv
  <1> USE DEF R!asked, R!Ended
  <1>2. CASE R!Reload
    <2>1. gen' = gen + 1 /\ UNCHANGED <<call, caller, queued, pc, method, columns, since, schema, checked, filter, job>>
      BY <1>2 DEF R!Reload
    <2>2. Generations' /\ Passed' /\ AsAsked' /\ R!DoneUnderRules'
      BY <1>1, <2>1 DEF Generations, Passed, AsAsked, Permitted, Fits, R!Restricts, R!DoneUnderRules, R!OneRegistry, R!Admits
    <2>3. \A g \in 1..gen : g \in 1..gen' /\ (R!Admits(g, call.method, call.columns)' <=> R!Admits(g, call.method, call.columns))
      BY <1>1, <2>1 DEF Generations, R!Admits, R!Restricts
    <2>4. R!RefusedForCause'
      BY <1>1, <2>1, <2>3 DEF R!RefusedForCause
    <2>5. QED
      BY <2>2, <2>4 DEF RequestInv
  <1>3. CASE R!Resolve
    <2>1. CASE pc' = "disabled"
      BY <1>3, <2>1, GivenUp DEF R!Resolve
    <2>2. CASE pc' # "disabled"
      BY <1>1, <1>3, <2>2 DEF R!Resolve, RequestInv, Generations, Passed, AsAsked, R!DoneUnderRules, R!RefusedForCause
    <2>3. QED
      BY <2>1, <2>2
  <1>4. CASE R!CheckAccess
    <2>1. CASE R!Access!Permits(Rules[gen], caller, call.path, method)
      <3>1. /\ pc = "resolved" /\ pc' = "permitted" /\ checked' = gen
            /\ UNCHANGED <<gen, call, caller, queued, method, columns, since, schema, filter, job>>
        BY <1>4, <2>1 DEF R!CheckAccess
      <3>2. Passed'
        BY <1>1, <2>1, <3>1 DEF Generations, Passed, Permitted
      <3>3. QED
        BY <1>1, <3>1, <3>2 DEF RequestInv, Generations, AsAsked, R!DoneUnderRules, R!RefusedForCause
    <2>2. CASE ~R!Access!Permits(Rules[gen], caller, call.path, method)
      <3>1. ~R!Admits(gen, method, columns)
        BY <2>2 DEF R!Admits
      <3>2. QED
        BY <1>4, <2>2, <3>1, Refused DEF R!CheckAccess
    <2>3. QED
      BY <2>1, <2>2
  <1>5. CASE R!Restrict
    <2>1. CASE R!Restricts => R!Access!FieldsPass(R!RestrictedTo, columns)
      <3>1. /\ pc = "permitted" /\ call.service # "read" /\ pc' = "entered" /\ filter' = gen
            /\ UNCHANGED <<gen, call, caller, queued, method, columns, since, schema, checked, job>>
        BY <1>5, <2>1 DEF R!Restrict
      <3>2. R!Restricts => Fits(gen)
        BY <2>1 DEF R!RestrictedTo, Fits
      <3>3. Passed'
        BY <1>1, <3>1, <3>2 DEF Passed, Permitted, Fits, R!Restricts
      <3>4. QED
        BY <1>1, <3>1, <3>3 DEF RequestInv, Generations, AsAsked, R!DoneUnderRules, R!RefusedForCause
    <2>2. CASE ~(R!Restricts => R!Access!FieldsPass(R!RestrictedTo, columns))
      <3>1. ~R!Admits(gen, method, columns)
        BY <2>2 DEF R!Admits, R!RestrictedTo
      <3>2. QED
        BY <1>5, <2>2, <3>1, Refused DEF R!Restrict
    <2>3. QED
      BY <2>1, <2>2
  <1>6. CASE R!Show
    <2>1. CASE ~Schemas[schema].table
      <3>1. pc' = "rejected"
        BY <1>6, <2>1 DEF R!Show
      <3>2. QED
        BY <1>1, <1>6, <3>1 DEF R!Show, RequestInv, Generations, Passed, AsAsked, R!DoneUnderRules, R!RefusedForCause
    <2>2. CASE Schemas[schema].table
      <3>1. /\ pc = "permitted" /\ call.service = "read" /\ pc' = "done" /\ filter' = gen
            /\ columns' = R!Access!Retained(R!RestrictedTo, columns)
            /\ UNCHANGED <<gen, call, caller, queued, method, since, schema, checked, job>>
        BY <1>6, <2>2 DEF R!Show
      <3>2. R!Access!FieldsPass(R!Access!Restrictions(Rules[gen], caller, call.path, method), columns')
        BY <3>1, RetainedPass DEF R!RestrictedTo
      <3>3. checked >= since /\ Permitted(checked) /\ schema >= since
        BY <1>1, <3>1 DEF Passed, Generations
      <3>4. R!DoneUnderRules'
        BY <2>2, <3>1, <3>2, <3>3 DEF R!DoneUnderRules, R!OneRegistry, R!Admits, Permitted
      <3>5. QED
        BY <1>1, <3>1, <3>4 DEF RequestInv, Generations, Passed, AsAsked, R!RefusedForCause
    <2>3. QED
      BY <2>1, <2>2
  <1>7. CASE R!Enqueue
    BY <1>1, <1>7 DEF R!Enqueue, RequestInv, Generations, Passed, AsAsked, R!DoneUnderRules, R!RefusedForCause
  <1>8. CASE R!Take
    <2>1. Generations'
      BY <1>1, <1>8 DEF R!Take, Generations
    <2>2. QED
      BY <1>1, <1>8, <2>1 DEF R!Take, RequestInv, Passed, AsAsked, R!DoneUnderRules, R!RefusedForCause
  <1>9. CASE R!Perform
    <2>1. CASE R!Acceptable(schema)
      <3>1. /\ pc = "entered" /\ pc' = "done"
            /\ UNCHANGED <<gen, call, caller, queued, method, columns, since, schema, checked, filter, job>>
        BY <1>9, <2>1 DEF R!Perform
      <3>2. /\ checked >= since /\ Permitted(checked) /\ schema >= since
            /\ call.service # "read" /\ (R!Restricts => Fits(filter))
        BY <1>1, <3>1 DEF Passed, Generations
      <3>3. Schemas[schema].table
        BY <2>1 DEF R!Acceptable
      <3>4. R!DoneUnderRules'
        BY <3>1, <3>2, <3>3 DEF R!DoneUnderRules, R!OneRegistry, R!Admits, R!Restricts, Permitted, Fits
      <3>5. QED
        BY <1>1, <3>1, <3>4 DEF RequestInv, Generations, Passed, AsAsked, R!RefusedForCause
    <2>2. CASE ~R!Acceptable(schema)
      BY <1>9, <2>2, GivenUp DEF R!Perform
    <2>3. QED
      BY <2>1, <2>2
  <1>10. CASE R!EnqueueFails \/ R!PerformFails
    BY <1>10, GivenUp DEF R!EnqueueFails, R!PerformFails
  <1>11. CASE UNCHANGED calls
    BY <1>1, <1>11 DEF calls, RequestInv, Generations, Passed, AsAsked, Permitted, Fits, R!Restricts,
       R!DoneUnderRules, R!OneRegistry, R!RefusedForCause, R!Admits
  <1>12. QED
    BY <1>2, <1>3, <1>4, <1>5, <1>6, <1>7, <1>8, <1>9, <1>10, <1>11 DEF R!Next

----------------------------------------------------------------------------
(* FieldValues *)

\* What a write stores of a value, when it was bound and the database takes it.
AsMeant(kind, v, param) ==
  ~V!Garbled(column, v, kind) =>
    V!Means(column, v, kind, param) /\ (~V!Echoed(column, v, kind) => V!Told(kind, v, param) = param)

ValueInv == column \in Columns /\ V!StoredAsMeant

LEMMA Stored ==
  ASSUME ValueInv, NEW kind, NEW v, NEW param, AsMeant(kind, v, param), V!Store(kind, v, param)
  PROVE  ValueInv'
  BY DEF ValueInv, AsMeant, V!Store, V!StoredAsMeant, V!Garbled, V!Echoed, V!Means, V!EmptyDate, V!Boolean, V!Numeric,
         V!Numerals

\* A column, and a value that was neither null nor missing, are of one kind each.
LEMMA Kinds ==
  ASSUME V!FieldValuesAssumption, ValueInv, NEW v \in Values
  PROVE  /\ column.kind \in {"int", "float", "decimal", "bool", "date", "text"}
         /\ v = [json |-> v.json, text |-> v.text, padded |-> v.padded] /\ (v.json \in {"null", "absent"} => v.text = "")
         /\ ~V!TruthWord([json |-> v.json, text |-> ""]) /\ "" \notin V!Numerals(column) /\ "" \notin Dates
  <1>1. "" \notin V!Numerals(column)
    BY DEF V!FieldValuesAssumption, V!Numerals
  <1>2. ~V!TruthWord([json |-> v.json, text |-> ""])
    BY DEF V!FieldValuesAssumption, V!TruthWord
  <1>3. QED
    BY <1>1, <1>2 DEF V!FieldValuesAssumption, ValueInv

LEMMA CellIs ==
  /\ V!NULL.type = "null" /\ V!Default.type = "default" /\ V!JsonNull.json = "null" /\ V!Absent.json = "absent"
  /\ V!JsonNull.text = "" /\ V!Absent.text = ""
  /\ \A t : /\ V!Str(t) = [type |-> "text", text |-> t, padded |-> FALSE]
            /\ V!Str(t).type = "text" /\ V!Str(t).text = t
            /\ V!Num(t).type = "number" /\ V!Truth(t).type = "bool"
  BY DEF V!NULL, V!Default, V!JsonNull, V!Absent, V!Str, V!Num, V!Truth, V!Cell

\* A text that is told as it was sent is told as it is held.
LEMMA EchoIs ==
  ASSUME V!FieldValuesAssumption, ValueInv, NEW v \in Values, NEW kind, v.json \notin {"null", "absent"},
         column.kind \in {"text", "date"}, ~V!Echoed(column, v, kind), kind \in {"post", "item"}
  PROVE  V!Echo(v) = V!Str(v.text)
  <1>1. v.json = "string" /\ v.padded = FALSE
    BY DEF V!Echoed, V!FieldValuesAssumption
  <1>2. QED
    BY <1>1, CellIs DEF V!Echo

\* A converted text that a column takes is the value meant.
LEMMA TypedMeant ==
  ASSUME V!FieldValuesAssumption, ValueInv, NEW v \in Values, NEW kind \in {"post", "put", "item", "seed"},
         v.json \notin {"null", "absent"}, ~V!Misread(column, v) \/ kind = "seed", V!Takes(column, V!Typed(column, v)),
         kind = "seed" => v.text # "null"
  PROVE  AsMeant(kind, v, V!Typed(column, v))
  <1> DEFINE param == V!Typed(column, v)
  <1>1. /\ column.kind \in {"int", "float", "decimal", "bool", "date", "text"}
        /\ "" \notin V!Numerals(column) /\ "" \notin Dates
        /\ v.text = "" => ~V!TruthWord(v)
    BY Kinds DEF V!TruthWord
  <1>2. CASE V!Boolean(column)
    <2>1. CASE V!TruthWord(v)
      <3>1. param = V!Truth(v.text) /\ v.text # ""
        BY <1>1, <1>2, <2>1 DEF V!Typed
      <3>2. V!Means(column, v, kind, param)
        BY <1>2, <3>1 DEF V!Means
      <3>3. V!Told(kind, v, param) = param
        BY <1>2 DEF V!Told
      <3>4. QED
        BY <3>2, <3>3 DEF AsMeant
    <2>2. CASE ~V!TruthWord(v)
      <3>1. param = V!Str(v.text)
        BY <1>2, <2>2 DEF V!Typed, V!Boolean, V!Numeric
      <3>2. param.type = "text"
        BY <3>1, CellIs
      <3>3. QED
        BY <1>2, <3>2 DEF V!Takes, V!Boolean
    <2>3. QED
      BY <2>1, <2>2
  <1>3. CASE V!Numeric(column)
    <2>1. CASE v.text \in V!Numerals(column)
      <3>1. ~V!Boolean(column) /\ v.text # ""
        BY <1>1, <1>3, <2>1 DEF V!Boolean, V!Numeric
      <3>2. param = V!Num(IF column.kind = "int" THEN v.text ELSE Double[v.text])
        BY <1>3, <2>1, <3>1 DEF V!Typed
      <3>3. V!Told(kind, v, param) = param
        <4>1. param.type = "number"
          BY <3>2 DEF V!Num, V!Cell
        <4>2. QED
          BY <4>1 DEF V!Told
      <3>4. ASSUME ~V!Garbled(column, v, kind)
            PROVE  V!Means(column, v, kind, param)
        <4>1. column.kind = "decimal" => Double[v.text] = v.text
          BY <2>1, <3>4 DEF V!Garbled, V!Numerals
        <4>2. param = V!Num(IF column.kind = "float" THEN Double[v.text] ELSE v.text)
          BY <1>3, <3>2, <4>1 DEF V!Numeric
        <4>3. QED
          BY <1>3, <3>1, <4>2 DEF V!Means
      <3>5. QED
        BY <3>3, <3>4 DEF AsMeant
    <2>2. CASE v.text \notin V!Numerals(column)
      <3>1. param = V!Str(v.text)
        BY <1>3, <2>2 DEF V!Typed, V!Boolean, V!Numeric
      <3>2. param.type = "text"
        BY <3>1, CellIs
      <3>3. QED
        BY <1>3, <3>2 DEF V!Takes, V!Numeric
    <2>3. QED
      BY <2>1, <2>2
  <1>4. CASE ~V!Boolean(column) /\ ~V!Numeric(column)
    <2>1. param = V!Str(v.text) /\ column.kind \in {"text", "date"}
      BY <1>1, <1>4 DEF V!Typed, V!Boolean, V!Numeric
    <2>2. V!Means(column, v, kind, param)
      BY <1>4, <2>1 DEF V!Means
    <2>3. ~V!Echoed(column, v, kind) => V!Told(kind, v, param) = param
      <3>1. CASE kind \in {"post", "item"}
        BY <2>1, <3>1, EchoIs DEF V!Told
      <3>2. CASE kind \in {"put", "seed"}
        BY <3>2 DEF V!Told
      <3>3. QED
        BY <3>1, <3>2
    <2>4. QED
      BY <2>2, <2>3 DEF AsMeant
  <1>5. QED
    BY <1>2, <1>3, <1>4

LEMMA PostMeant ==
  ASSUME V!FieldValuesAssumption, ValueInv, NEW v \in Values, NEW param \in V!PostBinds(column, v), V!Takes(column, param)
  PROVE  AsMeant("post", v, param)
  <1>1. /\ column.kind \in {"int", "float", "decimal", "bool", "date", "text"}
        /\ v = [json |-> v.json, text |-> v.text, padded |-> v.padded] /\ (v.json \in {"null", "absent"} => v.text = "")
        /\ "" \notin V!Numerals(column) /\ "" \notin Dates
    BY Kinds
  \* What is left to the database is told as it is.
  <1>4. param \in {V!Default, V!NULL} => V!Told("post", v, param) = param
    BY CellIs DEF V!Told
  <1>2. CASE V!EmptyDate(column, v)
    <2>1. V!Normal(column, v) = V!JsonNull
      BY <1>2 DEF V!Normal
    <2>2. column.kind = "date" /\ v.text \in {"", "null"} /\ v.json \in {"string", "null"}
      BY <1>2 DEF V!EmptyDate
    <2>3. param \in {V!Default, V!NULL}
      BY <2>1, <2>2, CellIs DEF V!PostBinds, V!Refused
    <2>4. V!Means(column, v, "post", param)
      BY <1>2, <2>2, <2>3 DEF V!Means, V!Boolean, V!Numeric
    <2>5. QED
      BY <1>4, <2>3, <2>4 DEF AsMeant
  <1>3. CASE ~V!EmptyDate(column, v)
    <2>1. V!Normal(column, v) = v
      BY <1>3 DEF V!Normal
    <2>2. CASE v.json \in {"null", "absent"}
      <3>2. param \in {V!Default, V!NULL, V!Typed(column, v)}
        BY <2>1 DEF V!PostBinds, V!Refused
      <3>3. CASE param \in {V!Default, V!NULL}
        <4>1. V!Means(column, v, "post", param)
          BY <2>2, <3>3 DEF V!Means
        <4>2. QED
          BY <1>4, <3>3, <4>1 DEF AsMeant
      <3>4. CASE param = V!Typed(column, v) /\ column.kind # "text"
        <4>1. V!Typed(column, v) = V!Str("")
          <5>1. ~V!TruthWord(v) /\ v.text = ""
            BY <1>1, <2>2 DEF V!TruthWord
          <5>2. QED
            BY <1>1, <5>1 DEF V!Typed
        <4>2. param.type = "text" /\ param.text = ""
          BY <3>4, <4>1, CellIs
        <4>3. QED
          BY <1>1, <3>4, <4>2 DEF V!Takes
      <3>5. CASE column.kind = "text"
        BY <2>2, <3>5 DEF AsMeant, V!Garbled
      <3>6. QED
        BY <3>2, <3>3, <3>4, <3>5
    <2>3. CASE v.json \notin {"null", "absent"}
      <3>1. v # V!Absent /\ v # V!JsonNull
        BY <2>3, CellIs
      <3>2. ~V!Misread(column, v) /\ (param = V!Typed(column, v) \/ (v.text = "" /\ param = V!NULL))
        BY <2>1, <3>1 DEF V!PostBinds, V!Refused
      <3>3. CASE v.text = "" /\ param = V!NULL
        <4>1. V!Means(column, v, "post", param)
          BY <2>3, <3>3 DEF V!Means
        <4>2. QED
          BY <1>4, <3>3, <4>1 DEF AsMeant
      <3>4. CASE param = V!Typed(column, v)
        BY <2>3, <3>2, <3>4, TypedMeant
      <3>5. QED
        BY <3>2, <3>3, <3>4
    <2>4. QED
      BY <2>2, <2>3
  <1>5. QED
    BY <1>2, <1>3

LEMMA PutMeant ==
  ASSUME V!FieldValuesAssumption, ValueInv, NEW v \in Values, NEW param \in V!PutBinds(column, v), param # V!Default,
         V!Takes(column, param)
  PROVE  AsMeant("put", v, param)
  <1>1. v.json # "absent"
    <2>1. v = [json |-> v.json, text |-> v.text, padded |-> v.padded] /\ (v.json \in {"null", "absent"} => v.text = "")
      BY Kinds
    <2>2. v # V!Absent
      BY DEF V!PutBinds, V!Refused
    <2>3. v.json = "absent" => v.padded = FALSE
      BY DEF V!FieldValuesAssumption
    <2>4. QED
      BY <2>1, <2>2, <2>3 DEF V!Absent
  <1>2. CASE v.json = "null"
    <2>1. param = V!NULL
      BY <1>2, CellIs DEF V!PutBinds, V!Refused
    <2>2. V!Means(column, v, "put", param)
      BY <1>2, <2>1 DEF V!Means
    <2>3. V!Told("put", v, param) = param
      BY DEF V!Told
    <2>4. QED
      BY <2>2, <2>3 DEF AsMeant
  <1>3. CASE v.json # "null"
    <2>1. param = V!Typed(column, v) /\ ~V!Misread(column, v)
      BY <1>1, <1>3, CellIs DEF V!PutBinds, V!Refused
    <2>2. QED
      BY <1>1, <1>3, <2>1, TypedMeant
  <1>4. QED
    BY <1>2, <1>3

LEMMA ItemMeant ==
  ASSUME V!FieldValuesAssumption, ValueInv, NEW v \in Values, NEW param \in V!ItemBinds(column, v), V!Takes(column, param)
  PROVE  AsMeant("item", v, param)
  <1>1. /\ column.kind \in {"int", "float", "decimal", "bool", "date", "text"}
        /\ v.json \in {"null", "absent"} => v.text = ""
        /\ "" \notin V!Numerals(column) /\ "" \notin Dates
    BY Kinds
  <1>2. CASE V!Numeric(column) /\ v.text \notin V!Numerals(column)
    BY <1>2 DEF AsMeant, V!Garbled
  <1>3. CASE ~V!Numeric(column) /\ V!Boolean(column) /\ v.text = ""
    <2>1. param = V!NULL
      BY <1>3 DEF V!ItemBinds, V!Refused
    <2>2. V!Means(column, v, "item", param)
      BY <1>3, <2>1 DEF V!Means
    <2>3. V!Told("item", v, param) = param
      BY <1>3 DEF V!Told
    <2>4. QED
      BY <2>2, <2>3 DEF AsMeant
  <1>4. CASE (V!Numeric(column) => v.text \in V!Numerals(column)) /\ ~(~V!Numeric(column) /\ V!Boolean(column) /\ v.text = "")
    <2>1. param = V!Typed(column, v) /\ ~V!Misread(column, v)
      BY <1>4 DEF V!ItemBinds, V!Refused, V!Numeric, V!Boolean
    <2>2. CASE v.json \notin {"null", "absent"}
      BY <2>1, <2>2, TypedMeant
    <2>3. CASE v.json \in {"null", "absent"} /\ column.kind = "text"
      BY <2>3 DEF AsMeant, V!Garbled
    <2>4. CASE v.json \in {"null", "absent"} /\ column.kind = "date"
      <3>1. param = V!Str("")
        BY <1>1, <2>1, <2>4 DEF V!Typed, V!Boolean, V!Numeric
      <3>2. QED
        BY <1>1, <2>4, <3>1, CellIs DEF V!Takes
    <2>5. QED
      BY <1>1, <1>4, <2>2, <2>3, <2>4 DEF V!Boolean, V!Numeric
  <1>5. QED
    BY <1>2, <1>3, <1>4

LEMMA SeedMeant ==
  ASSUME V!FieldValuesAssumption, ValueInv, NEW v \in Values, NEW param \in V!SeedBinds(column, v), V!Takes(column, param)
  PROVE  AsMeant("seed", v, param)
  <1>0. V!Told("seed", v, param) = param
    BY DEF V!Told
  <1>1. CASE v = V!Absent
    <2>1. param = V!Default
      BY <1>1 DEF V!SeedBinds
    <2>2. V!Means(column, v, "seed", param)
      BY <1>1, <2>1, CellIs DEF V!Means
    <2>3. QED
      BY <1>0, <2>2 DEF AsMeant
  <1>2. CASE v # V!Absent
    <2>1. v.json = "string"
      BY <1>2 DEF V!SeedBinds, V!Refused
    <2>2. CASE v.text \in {"null", ""} /\ param = V!NULL
      <3>1. V!Means(column, v, "seed", param)
        BY <2>1, <2>2 DEF V!Means
      <3>2. QED
        BY <1>0, <3>1 DEF AsMeant
    <2>3. CASE ~(v.text \in {"null", ""} /\ param = V!NULL) /\ column.kind = "text"
      <3>1. v.text # "null" /\ param = [V!Str(v.text) EXCEPT !.padded = v.padded]
        BY <1>2, <2>1, <2>3 DEF V!SeedBinds, V!Refused
      <3>2. ASSUME ~V!Garbled(column, v, "seed")
            PROVE  V!Means(column, v, "seed", param)
        <4>1. v.padded = FALSE
          BY <2>3, <3>2 DEF V!Garbled, V!FieldValuesAssumption
        <4>2. param = V!Str(v.text)
          BY <3>1, <4>1, CellIs
        <4>3. QED
          BY <2>1, <2>3, <3>1, <4>2 DEF V!Means, V!Boolean, V!Numeric
      <3>3. QED
        BY <1>0, <3>2 DEF AsMeant
    <2>4. CASE ~(v.text \in {"null", ""} /\ param = V!NULL) /\ column.kind # "text"
      <3>1. v.text # "null" /\ param = V!Typed(column, v)
        BY <1>2, <2>1, <2>4 DEF V!SeedBinds, V!Refused
      <3>2. QED
        BY <2>1, <3>1, TypedMeant
    <2>5. QED
      BY <2>2, <2>3, <2>4
  <1>3. QED
    BY <1>1, <1>2

LEMMA ValueInit == V!Init => ValueInv
  BY DEF V!Init, ValueInv, V!StoredAsMeant

LEMMA ValueNext ==
  ASSUME V!FieldValuesAssumption, ValueInv, [V!Next]_values
  PROVE  ValueInv'
  <1>1. CASE UNCHANGED values
    BY <1>1 DEF values, ValueInv, V!StoredAsMeant, V!Garbled, V!Echoed, V!Means, V!EmptyDate, V!Boolean, V!Numeric,
           V!Numerals
  <1>2. ASSUME NEW v \in Values, V!Seed(v) \/ V!Post(v) \/ V!Put(v) \/ V!PostItem(v) \/ V!PutItem(v)
        PROVE  ValueInv'
    <2>1. CASE V!Seed(v)
      BY <2>1, SeedMeant, Stored DEF V!Seed
    <2>2. CASE V!Post(v)
      BY <2>2, PostMeant, Stored DEF V!Post
    <2>3. CASE V!Put(v)
      BY <2>3, PutMeant, Stored DEF V!Put
    <2>4. CASE V!PostItem(v) \/ V!PutItem(v)
      BY <2>4, ItemMeant, Stored DEF V!PostItem, V!PutItem
    <2>5. QED
      BY <1>2, <2>1, <2>2, <2>3, <2>4
  <1>3. QED
    BY <1>1, <1>2 DEF V!Next

----------------------------------------------------------------------------
(* Mcp *)

\* The tool can be called of the entity in a generation.
Takes(g) == tool.entity \in M!Exposed(g) /\ M!Enabled(g, tool.entity, tool.op)

CallTyped ==
  /\ tool.op \in M!Ops
  /\ world \in DOMAIN Worlds /\ ruled \in DOMAIN Worlds \cup {0}
  /\ world \in Nat /\ opened \in Nat /\ taken \in Nat /\ ruled \in Nat /\ offered.world \in Nat
  /\ 1 <= world /\ opened <= world /\ taken <= world /\ ruled <= world
  /\ at \in {"start", "ready", "arrived", "known", "resolved", "entered", "committed", "answered"}

\* How far the call has come, and what it met on the way there.
Come ==
  /\ at \in {"start", "ready"} => opened = 0
  /\ at \notin {"start", "ready", "answered"} => opened >= 1
  /\ at \in {"start", "ready", "arrived", "known"} => taken = 0
  /\ at \notin {"entered", "committed", "answered"} => ruled = 0
  /\ at \in {"resolved", "entered", "committed"} =>
       opened <= taken /\ M!Served(taken) /\ tool.params \ tool.nulls \subseteq used \cup ignored
  /\ at \in {"entered", "committed"} => taken <= ruled /\ (M!Cuts \/ M!Admitted(ruled))
  /\ ruled # 0 => Takes(taken)
  /\ at \in {"start", "ready", "arrived", "known", "resolved", "entered"} => effect = "none" /\ ~stale
  /\ at # "answered" => reply = "none"
  /\ reply # "none" => at = "answered"

\* What list_entities said, it said of one generation.
Told == offered.world # 0 => offered.ops = M!Allowed(offered.world)

\* What an answer says of the generations of the call.
Answers ==
  /\ at = "answered" /\ (reply = "ok" \/ effect # "none") =>
       \E g \in M!During : M!Served(g) /\ (M!Cuts \/ \E h \in g..world : M!Admitted(h))
  /\ reply = "ok" => tool.params \ tool.nulls \subseteq used \cup ignored /\ given.count <= MaxRows
  /\ reply = "error" => ~M!WellFormed \/ M!Cuts \/ \E g \in M!During : ~M!Served(g) \/ ~M!Admitted(g)
  /\ reply = "unknown" => (tool.op \in M!Writes /\ ~writeTools) \/ \E g \in M!During : ~M!Served(g)
  /\ at = "answered" /\ effect = "whole" => reply \in {"ok", "cancelled"}
  /\ at = "answered" /\ stale => reply = "cancelled" \/ tool.op = "run_procedure" \/ effect = "unsure"

CallInv == CallTyped /\ Come /\ Told /\ Answers

----------------------------------------------------------------------------

\* Rules that name no {id} and not the record match it where they match {id}.
LEMMA SameRoutes ==
  ASSUME M!McpAssumption, CallTyped, NEW g \in DOMAIN Worlds, ~M!RuleNamesId(g), NEW i \in DOMAIN Worlds[g].rules
  PROVE  M!Access!RouteMatches(Worlds[g].rules[i].match, M!PathOf(tool.op, tool.entity, "{id}"))
           <=> M!Access!RouteMatches(Worlds[g].rules[i].match, M!PathOf(tool.op, tool.entity, tool.id))
  <1> DEFINE pattern == Worlds[g].rules[i].match
  <1>1. CASE tool.op \in {"update", "patch", "delete"}
    <2>1. M!PathOf(tool.op, tool.entity, "{id}") = <<tool.entity, "{id}">>
      BY <1>1 DEF M!PathOf
    <2>2. M!PathOf(tool.op, tool.entity, tool.id) = <<tool.entity, tool.id>>
      BY <1>1 DEF M!PathOf
    <2>3. \A id : M!Access!RouteMatches(pattern, <<tool.entity, id>>)
                   <=> Len(pattern) = 2 /\ pattern[1] \in {Param, tool.entity} /\ pattern[2] \in {Param, id}
      <3>1. ASSUME NEW id
            PROVE  Len(<<tool.entity, id>>) = 2 /\ DOMAIN <<tool.entity, id>> = {1, 2}
        OBVIOUS
      <3>2. QED
        BY <3>1 DEF M!Access!RouteMatches
    <2>4. Len(pattern) = 2 => pattern[2] # "{id}" /\ pattern[2] # tool.id
      <3>1. \A j \in 1..Len(pattern) : pattern[j] # "{id}"
        BY DEF M!McpAssumption
      <3>2. ~(Len(pattern) = 2 /\ pattern[2] = tool.id)
        BY DEF M!RuleNamesId
      <3>3. Len(pattern) = 2 => 2 \in 1..Len(pattern)
        OBVIOUS
      <3>4. QED
        BY <3>1, <3>2, <3>3
    <2>5. QED
      BY <2>1, <2>2, <2>3, <2>4
  <1>2. CASE tool.op \notin {"update", "patch", "delete"}
    <2>1. M!PathOf(tool.op, tool.entity, "{id}") = M!PathOf(tool.op, tool.entity, tool.id)
      BY <1>2 DEF M!PathOf, CallTyped, M!Ops
    <2>2. QED
      BY <2>1
  <1>3. QED
    BY <1>1, <1>2

\* What {id} is told is what the record is told.
LEMMA SameAnswer ==
  ASSUME M!McpAssumption, CallTyped, NEW g \in DOMAIN Worlds, ~M!RuleNamesId(g)
  PROVE  M!Allows(g, tool.op, tool.entity, "{id}") <=> M!Allows(g, tool.op, tool.entity, tool.id)
  <1> DEFINE asked == M!PathOf(tool.op, tool.entity, "{id}")
             meant == M!PathOf(tool.op, tool.entity, tool.id)
  <1>1. {i \in DOMAIN Worlds[g].rules : M!Access!RouteMatches(Worlds[g].rules[i].match, asked)}
          = {i \in DOMAIN Worlds[g].rules : M!Access!RouteMatches(Worlds[g].rules[i].match, meant)}
    BY SameRoutes
  <1>2. M!Access!RuleFor(Worlds[g].rules, Holder, asked, M!MethodOf(tool.op))
          = M!Access!RuleFor(Worlds[g].rules, Holder, meant, M!MethodOf(tool.op))
    BY <1>1 DEF M!Access!RuleFor
  <1>3. M!Access!MatchAllow(Worlds[g].rules, Holder, asked, M!MethodOf(tool.op))
          = M!Access!MatchAllow(Worlds[g].rules, Holder, meant, M!MethodOf(tool.op))
    BY <1>2 DEF M!Access!MatchAllow
  <1>4. QED
    BY <1>3 DEF M!Allows, M!Access!Permits

\* The request that a tool makes up is the one it stands for.
LEMMA StandsFor ==
  ASSUME tool.op \in M!Ops, NEW g
  PROVE  /\ M!Admitted(g) <=> M!Allows(g, tool.op, tool.entity, tool.id)
         /\ M!Served(g) <=> Takes(g)
  <1>1. M!RestPath = M!PathOf(tool.op, tool.entity, tool.id) /\ M!RestMethod = M!MethodOf(tool.op)
    BY DEF M!RestPath, M!PathOf, M!RestMethod, M!MethodOf, M!Ops
  <1>2. M!Admitted(g) <=> M!Allows(g, tool.op, tool.entity, tool.id)
    BY <1>1 DEF M!Admitted, M!Allows, M!Guarded
  <1>3. tool.entity \in M!Exposed(g) <=>
          tool.entity \in DOMAIN Worlds[g].entity /\ (requireAuth \/ tool.entity \notin CoreTables)
    BY DEF M!Exposed
  <1>4. M!Served(g) <=> Takes(g)
    BY <1>3 DEF M!Served, Takes, M!Enabled, M!Ops
  <1>5. QED
    BY <1>2, <1>4

----------------------------------------------------------------------------

LEMMA CallInit ==
  ASSUME M!McpAssumption, M!Init
  PROVE  CallInv
  <1>1. tool.op \in M!Ops
    BY DEF M!McpAssumption, M!Init
  <1>2. 1 \in DOMAIN Worlds
    BY DEF M!McpAssumption
  <1>3. QED
    BY <1>1, <1>2 DEF M!Init, CallInv, CallTyped, Come, Told, Answers, M!NotOffered

\* What list_entities told is what the rules then say, of the same generation.
LEMMA LastClause ==
  ASSUME M!McpAssumption, CallTyped, Come, Told
  PROVE  (ruled # 0 /\ ~M!Cuts /\ ruled = offered.world /\ taken = ruled /\ ~M!RuleNamesId(ruled)) =>
           (<<tool.op, tool.entity>> \in offered.ops <=> M!Admitted(ruled))
  <1> SUFFICES ASSUME ruled # 0, ~M!Cuts, ruled = offered.world, taken = ruled, ~M!RuleNamesId(ruled)
               PROVE  <<tool.op, tool.entity>> \in offered.ops <=> M!Admitted(ruled)
    OBVIOUS
  <1>1. ruled \in DOMAIN Worlds /\ tool.op \in M!Ops
    BY DEF CallTyped
  <1>2. Takes(ruled)
    BY DEF Come
  <1>3. offered.ops = M!Allowed(ruled)
    BY DEF Told
  <1>4. <<tool.op, tool.entity>> \in M!Allowed(ruled) <=> M!Allows(ruled, tool.op, tool.entity, "{id}")
    <2>1. <<tool.op, tool.entity>> \in M!Ops \X M!Exposed(ruled) /\ M!Enabled(ruled, tool.entity, tool.op)
      BY <1>1, <1>2 DEF Takes
    <2>2. QED
      BY <2>1 DEF M!Allowed
  <1>5. QED
    BY <1>1, <1>3, <1>4, SameAnswer, StandsFor

\* The call stands for the same request throughout.
LEMMA SameRequest ==
  ASSUME UNCHANGED <<requireAuth, tool>>
  PROVE  /\ \A g : M!Served(g)' <=> M!Served(g)
         /\ \A g : M!Admitted(g)' <=> M!Admitted(g)
         /\ \A g : Takes(g)' <=> Takes(g)
         /\ \A g : M!Allowed(g)' = M!Allowed(g)
         /\ (M!WellFormed' <=> M!WellFormed) /\ (M!Cuts' <=> M!Cuts)
  <1>1. \A g : M!Exposed(g)' = M!Exposed(g)
    BY DEF M!Exposed
  <1>2. \A g : M!Served(g)' <=> M!Served(g)
    BY DEF M!Served
  <1>3. \A g : M!Admitted(g)' <=> M!Admitted(g)
    BY DEF M!Admitted, M!RestPath, M!RestMethod
  <1>4. \A g : Takes(g)' <=> Takes(g)
    BY <1>1 DEF Takes, M!Enabled
  <1>5. \A g : M!Allowed(g)' = M!Allowed(g)
    BY <1>1 DEF M!Allowed, M!Enabled, M!Allows, M!Guarded
  <1>6. (M!WellFormed' <=> M!WellFormed) /\ (M!Cuts' <=> M!Cuts)
    BY DEF M!WellFormed, M!Cuts
  <1>7. QED
    BY <1>2, <1>3, <1>4, <1>5, <1>6

LEMMA CallNext ==
  ASSUME M!McpAssumption, CallInv, [M!Next]_tools
  PROVE  CallInv'
  <1>1. CallTyped /\ Come /\ Told /\ Answers
    BY DEF CallInv
  <1>2. DOMAIN Worlds \subseteq Nat \ {0} /\ MaxRows \in Nat \ {0}
    BY DEF M!McpAssumption
  <1>3. UNCHANGED <<requireAuth, tool, writeTools>>
    BY DEF M!Next, M!fixed, tools, M!ReloadWorld, M!EndToken, M!Connect, M!ListEntities, M!Arrive, M!Known, M!Resolve, M!Enter,
       M!Build, M!Fail, M!FailLate, M!CancelLate, M!Unanswered, M!Query, M!Commit, M!Finish, M!Cancel
  <1>4. /\ \A g : (M!Served(g)' <=> M!Served(g)) /\ (M!Admitted(g)' <=> M!Admitted(g))
        /\ \A g : (Takes(g)' <=> Takes(g)) /\ M!Allowed(g)' = M!Allowed(g)
        /\ (M!WellFormed' <=> M!WellFormed) /\ (M!Cuts' <=> M!Cuts)
    BY <1>3, SameRequest
  <1>5. CASE UNCHANGED tools
    <2>1. CallTyped' /\ Come' /\ Told'
      BY <1>1, <1>4, <1>5 DEF tools, CallTyped, Come, Told
    <2>2. Answers'
      BY <1>1, <1>4, <1>5 DEF tools, Answers, M!During
    <2>3. QED
      BY <2>1, <2>2 DEF CallInv
  <1>6. CASE M!ReloadWorld
    <2>1. /\ at # "answered" /\ world' = world + 1 /\ world + 1 \in DOMAIN Worlds
          /\ UNCHANGED <<offered, tool, opened, taken, ruled, at, used, ignored, effect, stale, reply, given>>
      BY <1>6 DEF M!ReloadWorld
    <2>2. CallTyped' /\ Come' /\ Told'
      BY <1>1, <1>4, <2>1 DEF CallTyped, Come, Told
    <2>3. Answers'
      BY <1>1, <2>1 DEF Answers, Come
    <2>4. QED
      BY <2>2, <2>3 DEF CallInv
  <1>7. CASE M!EndToken
    <2>1. UNCHANGED <<world, offered, tool, opened, taken, ruled, at, used, ignored, effect, stale, reply, given>>
      BY <1>7 DEF M!EndToken
    <2>2. CallTyped' /\ Come' /\ Told'
      BY <1>1, <1>4, <2>1 DEF CallTyped, Come, Told
    <2>3. Answers'
      BY <1>1, <1>3, <1>4, <2>1 DEF Answers, M!During
    <2>4. QED
      BY <2>2, <2>3 DEF CallInv
  <1>8. CASE M!Connect
    <2>1. /\ at = "start" /\ at' \in {"ready", "answered"}
          /\ at' = "ready" => reply' = reply
          /\ at' = "answered" => reply' = "unauthorized"
          /\ UNCHANGED <<world, offered, tool, opened, taken, ruled, used, ignored, effect, stale, given>>
      BY <1>8 DEF M!Connect, M!Answered
    <2>2. CallTyped' /\ Come' /\ Told'
      BY <1>1, <1>4, <2>1 DEF CallTyped, Come, Told
    <2>3. Answers'
      BY <1>1, <2>1 DEF Answers, Come
    <2>4. QED
      BY <2>2, <2>3 DEF CallInv
  <1>9. CASE M!ListEntities
    <2>1. /\ at = "ready" /\ offered' = [world |-> world, ops |-> M!Allowed(world)]
          /\ UNCHANGED <<world, tool, opened, taken, ruled, at, used, ignored, effect, stale, reply, given>>
      BY <1>9 DEF M!ListEntities
    <2>2. CallTyped' /\ Come' /\ Told'
      BY <1>1, <1>4, <2>1 DEF CallTyped, Come, Told
    <2>3. Answers'
      BY <1>1, <2>1 DEF Answers, Come
    <2>4. QED
      BY <2>2, <2>3 DEF CallInv
  <1>10. CASE M!Arrive
    <2>1. /\ at = "ready" /\ opened' = world /\ at' \in {"arrived", "answered"}
          /\ at' = "arrived" => reply' = reply
          /\ at' = "answered" => reply' = "unauthorized"
          /\ UNCHANGED <<world, offered, tool, taken, ruled, used, ignored, effect, stale, given>>
      BY <1>10 DEF M!Arrive, M!Answered
    <2>2. CallTyped' /\ Come' /\ Told'
      BY <1>1, <1>4, <2>1 DEF CallTyped, Come, Told
    <2>3. Answers'
      BY <1>1, <2>1 DEF Answers, Come
    <2>4. QED
      BY <2>2, <2>3 DEF CallInv
  <1>11. CASE M!Known
    <2>1. /\ at = "arrived" /\ at' \in {"known", "answered"}
          /\ at' = "known" => reply' = reply
          /\ at' = "answered" => reply' = "unknown" /\ tool.op \notin M!Listed(world)
          /\ UNCHANGED <<world, offered, tool, opened, taken, ruled, used, ignored, effect, stale, given>>
      BY <1>11 DEF M!Known, M!Answered
    <2>2. CallTyped' /\ Come' /\ Told'
      BY <1>1, <1>4, <2>1 DEF CallTyped, Come, Told
    <2>3. tool.op \notin M!Listed(world) => (tool.op \in M!Writes /\ ~writeTools) \/ ~Takes(world)
      BY <1>1 DEF CallTyped, M!Listed, Takes
    <2>4. world \in M!During /\ M!During' = M!During
      BY <1>1, <2>1 DEF M!During, CallTyped
    <2>5. Answers'
      BY <1>1, <1>3, <1>4, <2>1, <2>3, <2>4, StandsFor DEF Answers, Come, CallTyped
    <2>6. QED
      BY <2>2, <2>5 DEF CallInv
  <1>12. CASE M!Resolve
    <2>1. CASE Takes(world) /\ M!WellFormed
      <3>1. /\ at = "known" /\ at' = "resolved" /\ taken' = world
            /\ used' = M!Sent(tool.params \cap M!Accepted(world)) /\ ignored' = tool.params \ M!Accepted(world)
            /\ UNCHANGED <<world, offered, tool, opened, ruled, effect, stale, reply, given>>
        BY <1>12, <2>1 DEF M!Resolve, Takes
      <3>2. M!Served(world) /\ tool.params \ tool.nulls \subseteq used' \cup ignored'
        BY <1>1, <2>1, <3>1, StandsFor DEF M!Sent, CallTyped
      <3>3. CallTyped' /\ Come' /\ Told'
        BY <1>1, <1>4, <3>1, <3>2 DEF CallTyped, Come, Told
      <3>4. Answers'
        BY <1>1, <3>1 DEF Answers, Come
      <3>5. QED
        BY <3>3, <3>4 DEF CallInv
    <2>2. CASE ~(Takes(world) /\ M!WellFormed)
      <3>1. /\ at = "known" /\ at' = "answered" /\ reply' = "error" /\ taken' = world
            /\ UNCHANGED <<world, offered, tool, opened, ruled, used, ignored, effect, stale, given>>
        BY <1>12, <2>2 DEF M!Resolve, Takes, M!Answered
      <3>2. CallTyped' /\ Come' /\ Told'
        BY <1>1, <1>4, <3>1 DEF CallTyped, Come, Told
      <3>3. world \in M!During /\ M!During' = M!During
        BY <1>1, <3>1 DEF M!During, CallTyped
      <3>4. Answers'
        BY <1>1, <1>4, <2>2, <3>1, <3>3, StandsFor DEF Answers, Come, CallTyped
      <3>5. QED
        BY <3>2, <3>4 DEF CallInv
    <2>3. QED
      BY <2>1, <2>2
  <1>13. CASE M!Enter
    <2> DEFINE asked == M!Segment(tool.id)
    <2>a. M!Cuts \/ asked = tool.id
      BY DEF M!Cuts, M!Segment
    <2>1. CASE M!Allows(world, tool.op, tool.entity, asked)
      <3>1. /\ at = "resolved" /\ at' = "entered" /\ ruled' = world
            /\ UNCHANGED <<world, offered, tool, opened, taken, used, ignored, effect, stale, reply, given>>
        BY <1>13, <2>1 DEF M!Enter
      <3>2. (M!Cuts \/ M!Admitted(world)) /\ Takes(taken)
        BY <1>1, <2>1, <2>a, <3>1, StandsFor DEF CallTyped, Come
      <3>3. CallTyped' /\ Come' /\ Told'
        BY <1>1, <1>4, <3>1, <3>2 DEF CallTyped, Come, Told
      <3>4. Answers'
        BY <1>1, <3>1 DEF Answers, Come
      <3>5. QED
        BY <3>3, <3>4 DEF CallInv
    <2>2. CASE ~M!Allows(world, tool.op, tool.entity, asked)
      <3>1. /\ at = "resolved" /\ at' = "answered" /\ reply' = "error" /\ ruled' = world
            /\ UNCHANGED <<world, offered, tool, opened, taken, used, ignored, effect, stale, given>>
        BY <1>13, <2>2 DEF M!Enter, M!Answered
      <3>2. (M!Cuts \/ ~M!Admitted(world)) /\ Takes(taken)
        BY <1>1, <2>2, <2>a, <3>1, StandsFor DEF CallTyped, Come
      <3>3. CallTyped' /\ Come' /\ Told'
        BY <1>1, <1>4, <3>1, <3>2 DEF CallTyped, Come, Told
      <3>4. world \in M!During /\ M!During' = M!During
        BY <1>1, <3>1 DEF M!During, CallTyped
      <3>5. Answers'
        BY <1>1, <1>4, <3>1, <3>2, <3>4 DEF Answers, Come
      <3>6. QED
        BY <3>3, <3>5 DEF CallInv
    <2>3. QED
      BY <2>1, <2>2
  <1>14. CASE M!Fail
    <2>1. /\ at = "entered" /\ at' = "answered" /\ reply' = "failed"
          /\ UNCHANGED <<world, offered, tool, opened, taken, ruled, used, ignored, effect, stale, given>>
      BY <1>14 DEF M!Fail, M!Answered
    <2>2. CallTyped' /\ Come' /\ Told'
      BY <1>1, <1>4, <2>1 DEF CallTyped, Come, Told
    <2>3. Answers'
      BY <1>1, <2>1 DEF Answers, Come
    <2>4. QED
      BY <2>2, <2>3 DEF CallInv
  <1>15. CASE M!Query
    <2>1. /\ at = "entered" /\ at' = "answered" /\ reply' = "ok"
          /\ \E n \in 0..MaxFound : given'.count = IF n > MaxRows THEN MaxRows ELSE n
          /\ UNCHANGED <<world, offered, tool, opened, taken, ruled, used, ignored, effect, stale>>
      BY <1>15 DEF M!Query, M!Answered
    <2>2. CallTyped' /\ Come' /\ Told'
      BY <1>1, <1>4, <2>1 DEF CallTyped, Come, Told
    <2>3. given'.count <= MaxRows
      BY <1>2, <2>1
    <2>4. taken \in M!During /\ ruled \in taken..world /\ M!During' = M!During
      BY <1>1, <2>1 DEF M!During, CallTyped, Come
    <2>5. Answers'
      BY <1>1, <1>4, <2>1, <2>3, <2>4 DEF Answers, Come
    <2>6. QED
      BY <2>2, <2>5 DEF CallInv
  <1>16. CASE M!Commit
    <2>1. /\ at = "entered" /\ at' = "committed"
          /\ UNCHANGED <<world, offered, tool, opened, taken, ruled, used, ignored, reply, given>>
      BY <1>16 DEF M!Commit
    <2>2. CallTyped' /\ Come' /\ Told'
      BY <1>1, <1>4, <2>1 DEF CallTyped, Come, Told
    <2>3. Answers'
      BY <1>1, <2>1 DEF Answers, Come
    <2>4. QED
      BY <2>2, <2>3 DEF CallInv
  <1>17. CASE M!Finish
    <2>1. /\ at = "committed" /\ at' = "answered" /\ reply' = "ok" /\ given'.count = 1
          /\ stale' = (tool.op = "run_procedure")
          /\ UNCHANGED <<world, offered, tool, opened, taken, ruled, used, ignored, effect>>
      BY <1>17 DEF M!Finish, M!Answered
    <2>2. CallTyped' /\ Come' /\ Told'
      BY <1>1, <1>4, <2>1 DEF CallTyped, Come, Told
    <2>3. taken \in M!During /\ ruled \in taken..world /\ M!During' = M!During
      BY <1>1, <2>1 DEF M!During, CallTyped, Come
    <2>4. given'.count <= MaxRows
      BY <1>2, <2>1
    <2>5. tool.params \ tool.nulls \subseteq used \cup ignored /\ M!Served(taken) /\ (M!Cuts \/ M!Admitted(ruled))
      BY <1>1, <2>1 DEF Come
    <2>6. stale' => tool.op = "run_procedure"
      BY <2>1
    <2>7. Answers'
      BY <1>4, <2>1, <2>3, <2>4, <2>5, <2>6 DEF Answers
    <2>8. QED
      BY <2>2, <2>7 DEF CallInv
  <1>18. CASE M!Cancel
    <2>1. /\ at \in {"arrived", "known", "resolved", "entered", "committed"} /\ at' = "answered" /\ reply' = "cancelled"
          /\ UNCHANGED <<world, offered, tool, opened, taken, ruled, used, ignored, effect, stale, given>>
      BY <1>18 DEF M!Cancel, M!Answered
    <2>2. CallTyped' /\ Come' /\ Told'
      BY <1>1, <1>4, <2>1 DEF CallTyped, Come, Told
    <2>3. at = "committed" => taken \in M!During /\ ruled \in taken..world /\ M!During' = M!During
      BY <1>1, <2>1 DEF M!During, CallTyped, Come
    <2>4. Answers'
      BY <1>1, <1>4, <2>1, <2>3 DEF Answers, Come
    <2>5. QED
      BY <2>2, <2>4 DEF CallInv
  <1>19. CASE M!Build
    <2>1. /\ at = "resolved" /\ at' = "answered" /\ reply' = "failed"
          /\ UNCHANGED <<world, offered, tool, opened, taken, ruled, used, ignored, effect, stale, given>>
      BY <1>19 DEF M!Build, M!Answered
    <2>2. CallTyped' /\ Come' /\ Told'
      BY <1>1, <1>4, <2>1 DEF CallTyped, Come, Told
    <2>3. Answers'
      BY <1>1, <2>1 DEF Answers, Come
    <2>4. QED
      BY <2>2, <2>3 DEF CallInv
  <1>20. CASE M!FailLate \/ M!CancelLate
    <2>1. /\ at = "entered" /\ at' = "answered" /\ reply' \in {"failed", "cancelled"} /\ effect' = "unsure"
          /\ UNCHANGED <<world, offered, tool, opened, taken, ruled, used, ignored, given>>
      BY <1>20 DEF M!FailLate, M!CancelLate, M!Unanswered, M!Answered
    <2>2. CallTyped' /\ Come' /\ Told'
      BY <1>1, <1>4, <2>1 DEF CallTyped, Come, Told
    <2>3. taken \in M!During /\ ruled \in taken..world /\ M!During' = M!During
      BY <1>1, <2>1 DEF M!During, CallTyped, Come
    <2>4. M!Served(taken) /\ (M!Cuts \/ M!Admitted(ruled))
      BY <1>1, <2>1 DEF Come
    <2>5. Answers'
      BY <1>3, <1>4, <2>1, <2>3, <2>4 DEF Answers
    <2>6. QED
      BY <2>2, <2>5 DEF CallInv
  <1>21. QED
    BY <1>5, <1>6, <1>7, <1>8, <1>9, <1>10, <1>11, <1>12, <1>13, <1>14, <1>15, <1>16, <1>17, <1>18, <1>19, <1>20 DEF M!Next

----------------------------------------------------------------------------
(* ConfigLint *)

\* Some member of a set of naturals is the least.
LEMMA Smallest ==
  ASSUME NEW set \in SUBSET Nat, set # {}
  PROVE  \E x \in set : \A y \in set : x <= y
  <1> DEFINE less == {ss \in Nat \X Nat : ss[1] < ss[2]}
  <1>1. IsWellFoundedOn(less, Nat)
    BY NatLessThanWellFounded DEF OpToRel
  <1>2. \E x \in set : \A y \in set : <<y, x>> \notin less
    <2> HIDE DEF less
    <2>1. QED
      BY <1>1, WFMin
  <1>3. \A x, y \in Nat : y < x => <<y, x>> \in less
    OBVIOUS
  <1> HIDE DEF less
  <1>4. PICK x \in set : \A y \in set : <<y, x>> \notin less
    BY <1>2
  <1>5. \A y \in set : ~(y < x)
    BY <1>3, <1>4
  <1>6. QED
    BY <1>5

LEMMA Least ==
  ASSUME NEW J \in SUBSET Nat, J # {}
  PROVE  L!Min(J) \in J
  <1>1. \E x \in J : \A y \in J : x <= y
    BY Smallest
  <1>2. QED
    BY <1>1 DEF L!Min

LEMMA OwnerIs ==
  ASSUME NEW cfg, NEW t
  PROVE  LET J == {i \in 1..Len(L!Order(cfg)) :
                      L!Order(cfg)[i] \in DOMAIN cfg.entity /\ cfg.entity[L!Order(cfg)[i]].table = t}
         IN L!Owner(cfg, t) = IF J # {} THEN L!Min(J) ELSE 0
  BY DEF L!Owner, L!SelectInSeq

LEMMA SameFinite == \A S : (L!IsFiniteSet(S) <=> IsFiniteSet(S)) /\ L!Cardinality(S) = Cardinality(S)
  BY DEF L!IsFiniteSet, IsFiniteSet, L!Cardinality, Cardinality

\* The sequence made of a set has the elements of the set.
LEMMA AllInSeq ==
  ASSUME NEW S, IsFiniteSet(S)
  PROVE  /\ L!SetToSeq(S) \in [1..Cardinality(S) -> S] /\ Cardinality(S) \in Nat
         /\ \A x \in S : \E i \in 1..Cardinality(S) : L!SetToSeq(S)[i] = x
  <1> DEFINE n == Cardinality(S)
  <1>1. n \in Nat /\ ExistsBijection(1..n, S)
    BY FS_CardinalityType
  <1>2. \E f \in [1..n -> S] : L!IsInjective(f)
    BY <1>1 DEF ExistsBijection, Bijection, Injection, IsInjective, L!IsInjective
  <1>3. L!SetToSeq(S) \in [1..n -> S] /\ L!IsInjective(L!SetToSeq(S))
    BY <1>2, SameFinite DEF L!SetToSeq
  <1>4. L!SetToSeq(S) \in Injection(1..n, S)
    BY <1>3 DEF Injection, IsInjective, L!IsInjective
  <1>5. Cardinality(1..n) = n
    BY <1>1, FS_Interval
  <1>6. L!SetToSeq(S) \in Surjection(1..n, S)
    BY <1>4, <1>5, FS_Injection
  <1>7. QED
    BY <1>1, <1>3, <1>6 DEF Surjection

LEMMA Joined ==
  ASSUME NEW S, NEW s \in Seq(S), NEW t \in Seq(S)
  PROVE  /\ s \o t \in Seq(S) /\ Len(s \o t) = Len(s) + Len(t) /\ Len(s) \in Nat /\ Len(t) \in Nat
         /\ \A i \in 1..Len(s) : i \in 1..Len(s \o t) /\ (s \o t)[i] = s[i]
         /\ \A i \in 1..Len(t) : Len(s) + i \in 1..Len(s \o t) /\ (s \o t)[Len(s) + i] = t[i]
         /\ \A i \in 1..Len(s \o t) : i \in 1..Len(s) \/ \E j \in 1..Len(t) : i = Len(s) + j
  <1>1. /\ s \o t \in Seq(S) /\ Len(s \o t) = Len(s) + Len(t) /\ Len(s) \in Nat /\ Len(t) \in Nat
        /\ \A i \in 1..Len(s) : (s \o t)[i] = s[i]
        /\ \A i \in 1..Len(t) : (s \o t)[Len(s) + i] = t[i]
    OBVIOUS
  <1>2. ASSUME NEW i \in 1..Len(s \o t), i \notin 1..Len(s)
        PROVE  \E j \in 1..Len(t) : i = Len(s) + j
    <2>1. i - Len(s) \in 1..Len(t) /\ i = Len(s) + (i - Len(s))
      BY <1>1, <1>2
    <2>2. QED
      BY <2>1
  <1>3. QED
    BY <1>1, <1>2

LEMMA Numbered ==
  ASSUME NEW S, NEW T, T \subseteq S, NEW n \in Nat, NEW f \in [1..n -> T]
  PROVE  f \in Seq(S) /\ Len(f) = n
  <1>1. f \in [1..n -> S]
    OBVIOUS
  <1>2. QED
    BY <1>1

\* Every entity is somewhere in the order.
LEMMA AllInOrder ==
  ASSUME L!ConfigLintAssumption, NEW cfg \in Configs
  PROVE  /\ Len(L!Order(cfg)) \in Nat
         /\ \A r \in DOMAIN cfg.entity : \E i \in 1..Len(L!Order(cfg)) : L!Order(cfg)[i] = r
  <1> DEFINE rest == DOMAIN cfg.entity \ L!ToSet(cfg.routes)
             last == L!SetToSeq(rest)
             n == Cardinality(rest)
  <1>1. cfg.routes \in Seq(STRING) /\ rest \subseteq STRING /\ IsFiniteSet(DOMAIN cfg.entity)
    BY SameFinite DEF L!ConfigLintAssumption
  <1>2. IsFiniteSet(rest)
    BY <1>1, FS_Difference
  <1>3. n \in Nat /\ last \in [1..n -> rest] /\ \A x \in rest : \E i \in 1..n : last[i] = x
    BY <1>2, AllInSeq
  <1>4. last \in Seq(STRING) /\ Len(last) = n
    <2>1. rest \subseteq STRING
      BY <1>1
    <2> HIDE DEF last, n, rest
    <2>2. QED
      BY <1>3, <2>1, Numbered
  <1>5. L!Order(cfg) = cfg.routes \o last
    BY DEF L!Order
  <1> HIDE DEF last, n
  <1>6. /\ Len(L!Order(cfg)) = Len(cfg.routes) + n /\ Len(cfg.routes) \in Nat
        /\ \A i \in 1..Len(cfg.routes) : L!Order(cfg)[i] = cfg.routes[i]
        /\ \A i \in 1..n : L!Order(cfg)[Len(cfg.routes) + i] = last[i]
    <2> DEFINE first == cfg.routes
               both == first \o last
    <2> HIDE DEF first
    <2>1. first \in Seq(STRING) /\ last \in Seq(STRING)
      BY <1>1, <1>4 DEF first
    <2>2. /\ Len(both) = Len(first) + Len(last) /\ Len(first) \in Nat
          /\ \A i \in 1..Len(first) : both[i] = first[i]
          /\ \A i \in 1..Len(last) : both[Len(first) + i] = last[i]
      BY <2>1, Joined
    <2> HIDE DEF both
    <2>3. L!Order(cfg) = both
      BY <1>5 DEF both, first
    <2>4. QED
      BY <1>4, <2>2, <2>3 DEF first
  <1>7. ASSUME NEW r \in DOMAIN cfg.entity
        PROVE  \E i \in 1..Len(L!Order(cfg)) : L!Order(cfg)[i] = r
    <2>1. CASE r \in rest
      <3>1. PICK i \in 1..n : last[i] = r
        BY <1>3, <2>1
      <3>2. Len(cfg.routes) + i \in 1..Len(L!Order(cfg)) /\ L!Order(cfg)[Len(cfg.routes) + i] = r
        BY <1>3, <1>6, <3>1
      <3>3. QED
        BY <3>2
    <2>2. CASE r \in L!ToSet(cfg.routes)
      <3>1. PICK i \in 1..Len(cfg.routes) : cfg.routes[i] = r
        BY <1>1, <2>2 DEF L!ToSet
      <3>2. i \in 1..Len(L!Order(cfg)) /\ L!Order(cfg)[i] = r
        BY <1>3, <1>6, <3>1
      <3>3. QED
        BY <3>2
    <2>3. QED
      BY <1>7, <2>1, <2>2
  <1>8. Len(L!Order(cfg)) \in Nat
    BY <1>3, <1>6
  <1>9. QED
    BY <1>7, <1>8

\* The owner of a table is an entity that declares it; a table without one is
\* declared by none.
LEMMA OwnerDeclares ==
  ASSUME L!ConfigLintAssumption, NEW cfg \in Configs, NEW t
  PROVE  /\ L!Owner(cfg, t) = 0 => \A r \in DOMAIN cfg.entity : cfg.entity[r].table # t
         /\ L!Owner(cfg, t) # 0 =>
              L!Order(cfg)[L!Owner(cfg, t)] \in DOMAIN cfg.entity /\ cfg.entity[L!Order(cfg)[L!Owner(cfg, t)]].table = t
  <1> DEFINE J == {i \in 1..Len(L!Order(cfg)) :
                     L!Order(cfg)[i] \in DOMAIN cfg.entity /\ cfg.entity[L!Order(cfg)[i]].table = t}
  <1>1. L!Owner(cfg, t) = IF J # {} THEN L!Min(J) ELSE 0
    BY OwnerIs
  <1>2. J \in SUBSET Nat /\ 0 \notin J
    BY AllInOrder
  <1>3. J # {} => L!Min(J) \in J
    BY <1>2, Least
  <1>4. (\E r \in DOMAIN cfg.entity : cfg.entity[r].table = t) => J # {}
    BY AllInOrder
  <1>5. CASE J = {}
    BY <1>1, <1>4, <1>5
  <1>6. CASE J # {}
    BY <1>1, <1>2, <1>3, <1>6
  <1>7. QED
    BY <1>5, <1>6

LEMMA OwnerLoaded ==
  ASSUME L!ConfigLintAssumption, NEW cfg \in Configs, NEW q, q \notin DOMAIN cfg.entity, L!Loaded(cfg, q)
  PROVE  \E x \in DOMAIN cfg.entity : cfg.entity[x].table = q /\ L!SchemaOf(cfg, q) = cfg.entity[x]
  BY OwnerDeclares DEF L!Loaded, L!SchemaOf

\* What the lint looks up under a name is in the table of that name, unless the
\* name is the route of an entity with another table.
LEMMA LookedUp ==
  ASSUME L!ConfigLintAssumption, config \in Configs, NEW q, NEW col,
         L!Loaded(config, q), col \in L!SchemaOf(config, q).columns,
         q \in DOMAIN config.entity => config.entity[q].table = q
  PROVE  L!IsTable(q) /\ L!InTable(q, col)
  <1>1. \E x \in DOMAIN config.entity : config.entity[x].table = q /\ L!SchemaOf(config, q) = config.entity[x]
    BY OwnerLoaded DEF L!SchemaOf
  <1>2. PICK x \in DOMAIN config.entity : config.entity[x].table = q /\ L!SchemaOf(config, q) = config.entity[x]
    BY <1>1
  <1>3. QED
    BY <1>2 DEF L!IsTable, L!InTable, L!ColumnsOf

\* A table that is not loaded is of no entity.
LEMMA OfNoTable ==
  ASSUME L!ConfigLintAssumption, config \in Configs, NEW q, ~L!Loaded(config, q)
  PROVE  ~L!IsTable(q)
  <1>1. L!Owner(config, q) = 0
    BY DEF L!Loaded
  <1>2. \A r \in DOMAIN config.entity : config.entity[r].table # q
    BY <1>1, OwnerDeclares
  <1>3. QED
    BY <1>2 DEF L!IsTable

LEMMA NoProblem ==
  ASSUME NEW about, NEW S
  PROVE  (L!Error(about, S) = {} => S = {}) /\ (L!Warning(about, S) = {} => S = {})
  BY DEF L!Error, L!Warning

\* What a lint that reports nothing has found of an entity.
LEMMA NoReport ==
  ASSUME NEW cfg, L!Lint(cfg) = {}, NEW r \in DOMAIN cfg.entity
  PROVE  L!Problems(cfg, r) = {}
  <1> DEFINE lintOne(x) == IF cfg.entity[x].table = "" THEN L!Error("no table", {x}) ELSE L!Problems(cfg, x)
             of(x, problems) == {[level |-> p[1], route |-> x, about |-> p[2]] : p \in problems}
  <1>1. of(r, lintOne(r)) \subseteq L!Lint(cfg)
    BY DEF L!Lint
  <1>2. lintOne(r) = {}
    BY <1>1
  <1>3. L!Error("no table", {r}) # {}
    BY DEF L!Error
  <1>4. QED
    BY <1>2, <1>3

LEMMA Clean ==
  ASSUME NEW cfg, L!Lint(cfg) = {}, NEW r \in DOMAIN cfg.entity
  PROVE  LET s == cfg.entity[r] IN
         /\ \A ref \in L!Checked(s) : L!Resolved(cfg, r, ref) = "ok"
         /\ \A n \in L!TriggerTargets(s) : L!Loaded(cfg, n)
         /\ \A fk \in s.fks : L!Loaded(cfg, fk.table) /\ fk.ref \in L!SchemaOf(cfg, fk.table).columns
         /\ \A d \in s.details : L!Loaded(cfg, d.target) /\ d.fk \in L!SchemaOf(cfg, d.target).columns
  <1> DEFINE s == cfg.entity[r]
  <1>1. /\ L!ColumnProblems(cfg, r) = {} /\ L!TriggerProblems(cfg, s) = {}
        /\ L!ReferenceProblems(cfg, s) = {} /\ L!DetailProblems(cfg, s) = {}
    BY NoReport DEF L!Problems
  <1>2. ASSUME NEW ref \in L!Checked(s)
        PROVE  L!Resolved(cfg, r, ref) = "ok"
    <2>1. L!Resolved(cfg, r, ref) \notin {"missing", "unknown"}
      BY <1>1, NoProblem DEF L!ColumnProblems
    <2>2. L!Resolved(cfg, r, ref) \in {"ok", "missing", "unknown"}
      BY DEF L!Resolved
    <2>3. QED
      BY <2>1, <2>2
  <1>3. \A n \in L!TriggerTargets(s) : L!Loaded(cfg, n)
    BY <1>1, NoProblem DEF L!TriggerProblems
  <1>4. \A fk \in s.fks : L!Loaded(cfg, fk.table) /\ fk.ref \in L!SchemaOf(cfg, fk.table).columns
    BY <1>1, NoProblem DEF L!ReferenceProblems
  <1>5. \A d \in s.details : L!Loaded(cfg, d.target) /\ d.fk \in L!SchemaOf(cfg, d.target).columns
    <2> DEFINE missing == {d \in s.details : d.target = "" \/ ~L!Loaded(cfg, d.target)}
               unknown(d) == ({d.fk} \cup d.columns) \ L!SchemaOf(cfg, d.target).columns
    <2>1. L!Error("detail target", missing) = {} /\ L!Error("detail column", UNION {unknown(d) : d \in s.details \ missing}) = {}
      BY <1>1 DEF L!DetailProblems
    <2>2. missing = {} /\ UNION {unknown(d) : d \in s.details \ missing} = {}
      BY <2>1, NoProblem
    <2>3. ASSUME NEW d \in s.details
          PROVE  L!Loaded(cfg, d.target) /\ d.fk \in L!SchemaOf(cfg, d.target).columns
      <3>1. d \notin missing
        BY <2>2
      <3>2. unknown(d) = {}
        BY <2>2, <3>1
      <3>3. d.fk \in L!SchemaOf(cfg, d.target).columns
        BY <3>2
      <3>4. QED
        BY <3>1, <3>3
    <2>4. QED
      BY <2>3
  <1>6. QED
    BY <1>2, <1>3, <1>4, <1>5

\* What each statement of an entity names.
LEMMA StatementIs ==
  ASSUME NEW r, NEW st \in L!Statements(r)
  PROVE  LET s == config.entity[r] IN
         /\ st.route = r
         /\ \/ st.kind \in {"select", "order"} /\ st.ref \in L!Checked(s)
            \/ st.kind = "post" /\ st.ref \in s.post
            \/ st.kind = "put" /\ st.ref \in s.put
            \/ st.kind \in {"items", "embed"} /\ \E d \in s.details : st.ref = [q |-> d.target, col |-> d.fk]
            \/ st.kind = "trigger" /\ st.ref.q \in L!TriggerTargets(s)
            \/ st.kind = "reference" /\ \E fk \in s.fks : st.ref = [q |-> fk.table, col |-> fk.ref]
            \/ st.kind \in {"raw", "nameless", "action"}
  <1> DEFINE s == config.entity[r]
             all(kind, refs) == {[kind |-> kind, route |-> r, ref |-> ref] : ref \in refs}
             items(ds) == {[q |-> d.target, col |-> d.fk] : d \in ds}
             nameless == {d \in s.details : d.field = ""}
             others == {[q |-> a.table, col |-> a.type] : a \in {x \in L!Actions(s) : ~L!Executable(x)}}
  <1>1. \/ st \in all("select", s.get \cup {p.ref : p \in s.params}) \/ st \in all("order", s.order)
        \/ st \in all("raw", s.raw) \/ st \in all("post", s.post) \/ st \in all("put", s.put)
        \/ st \in all("items", items(s.details \ nameless)) \/ st \in all("embed", items(s.details \ nameless))
        \/ st \in all("nameless", items(nameless))
        \/ st \in all("trigger", L!TriggerRefs(s)) \/ st \in all("action", others)
        \/ st \in all("reference", {[q |-> fk.table, col |-> fk.ref] : fk \in s.fks})
    BY DEF L!Statements
  <1>2. ASSUME NEW kind, NEW refs, st \in all(kind, refs)
        PROVE  st.kind = kind /\ st.route = r /\ st.ref \in refs
    BY <1>2
  <1> HIDE DEF all
  <1>3. s.get \cup s.order \cup {p.ref : p \in s.params} \subseteq L!Checked(s)
    BY DEF L!Checked
  <1>4. CASE st \in all("select", s.get \cup {p.ref : p \in s.params}) \/ st \in all("order", s.order)
    BY <1>2, <1>3, <1>4
  <1>5. CASE st \in all("post", s.post) \/ st \in all("put", s.put)
    BY <1>2, <1>5
  <1>6. CASE st \in all("items", items(s.details \ nameless)) \/ st \in all("embed", items(s.details \ nameless))
    <2>1. st.kind \in {"items", "embed"} /\ st.route = r /\ st.ref \in items(s.details \ nameless)
      BY <1>2, <1>6
    <2>2. QED
      BY <2>1
  <1>7. CASE st \in all("trigger", L!TriggerRefs(s))
    <2>1. st.kind = "trigger" /\ st.route = r /\ st.ref \in L!TriggerRefs(s)
      BY <1>2, <1>7
    <2>2. PICK a \in L!OnTables(s) : st.ref \in L!ActionRefs(a)
      BY <2>1 DEF L!TriggerRefs
    <2>3. st.ref.q = a.table
      <3>1. PICK col : st.ref = [q |-> a.table, col |-> col]
        BY <2>2 DEF L!ActionRefs
      <3>2. QED
        BY <3>1
    <2>4. a \in L!Actions(s) /\ a.table # ""
      BY DEF L!OnTables
    <2>5. a.table \in L!TriggerTargets(s)
      BY <2>4 DEF L!TriggerTargets
    <2>6. QED
      BY <2>1, <2>3, <2>5
  <1>8. CASE st \in all("reference", {[q |-> fk.table, col |-> fk.ref] : fk \in s.fks})
    <2>1. st.kind = "reference" /\ st.route = r /\ st.ref \in {[q |-> fk.table, col |-> fk.ref] : fk \in s.fks}
      BY <1>2, <1>8
    <2>2. QED
      BY <2>1
  <1>9. CASE st \in all("raw", s.raw) \/ st \in all("nameless", items(nameless)) \/ st \in all("action", others)
    BY <1>2, <1>9
  <1>10. QED
    BY <1>1, <1>4, <1>5, <1>6, <1>7, <1>8, <1>9

----------------------------------------------------------------------------

Excused(st) == L!Unlinted(st) \/ L!Ambiguous(st) \/ L!LetPass(st) \/ L!Unjoined(st)

\* The column of a GET that the lint found, and that is no name of two things.
LEMMA SelectRuns ==
  ASSUME L!ConfigLintAssumption, config \in Configs, NEW r \in DOMAIN config.entity, NEW st,
         st.kind \in {"select", "order"}, st.route = r, L!Resolved(config, r, st.ref) = "ok", ~Excused(st)
  PROVE  L!Outcome(st) = "ran"
  <1> DEFINE s == config.entity[r]
             ref == st.ref
  <1>1. L!Loaded(config, r) /\ (L!Loaded(config, ref.q) /\ ref.q \in DOMAIN config.entity => config.entity[ref.q].table = ref.q)
    BY DEF Excused, L!Ambiguous, L!Loaded
  <1>2. \A col \in s.columns : L!InTable(s.table, col)
    BY DEF L!InTable, L!ColumnsOf
  <1>3. ref.q # Expr /\ Expr # "" /\ (st.kind = "order" => ref.col \in L!Orders(s))
    BY DEF Excused, L!Unlinted, L!ConfigLintAssumption
  <1>4. SUFFICES L!Readable(s, ref)
    BY <1>3 DEF L!Outcome, L!Runs
  <1>5. CASE ref.q = ""
    <2>1. ref.col \in s.columns
      BY <1>3, <1>5 DEF L!Resolved
    <2>2. QED
      BY <1>2, <1>5, <2>1 DEF L!Readable
  <1>6. CASE ref.q # ""
    <2>1. ref.q \in s.joins
      BY <1>3, <1>6 DEF Excused, L!Unjoined
    <2>2. CASE ref.q \in {s.table, r}
      <3>1. ref.col \in s.columns
        BY <1>3, <2>2 DEF L!Resolved
      <3>2. ref.q = s.table
        BY <1>1, <2>2
      <3>3. QED
        BY <1>2, <1>3, <1>6, <2>1, <3>1, <3>2 DEF L!Readable
    <2>3. CASE ref.q \notin {s.table, r} /\ L!Loaded(config, ref.q)
      <3>1. ref.col \in L!SchemaOf(config, ref.q).columns
        BY <1>3, <1>6, <2>3 DEF L!Resolved
      <3>2. L!InTable(ref.q, ref.col)
        BY <1>1, <2>3, <3>1, LookedUp
      <3>3. QED
        BY <1>3, <1>6, <2>1, <3>2 DEF L!Readable
    <2>4. CASE ~L!Loaded(config, ref.q)
      <3>1. L!InTable(ref.q, ref.col)
        BY <2>4, OfNoTable DEF L!InTable
      <3>2. QED
        BY <1>3, <1>6, <2>1, <3>1 DEF L!Readable
    <2>5. QED
      BY <2>2, <2>3, <2>4
  <1>7. QED
    BY <1>5, <1>6

\* A table that a statement other than a GET names, and a column of it.
LEMMA NamedRuns ==
  ASSUME L!ConfigLintAssumption, config \in Configs, NEW st, st.kind \in {"items", "embed", "reference"},
         L!Loaded(config, st.ref.q), st.ref.col \in L!SchemaOf(config, st.ref.q).columns, ~Excused(st)
  PROVE  L!Outcome(st) = "ran"
  <1>1. st.ref.q \in DOMAIN config.entity => config.entity[st.ref.q].table = st.ref.q
    BY DEF Excused, L!Ambiguous
  <1>2. L!IsTable(st.ref.q) /\ L!InTable(st.ref.q, st.ref.col)
    BY <1>1, LookedUp
  <1>3. st.kind = "items" => st.ref.q \in DOMAIN config.entity
    BY DEF Excused, L!Ambiguous
  <1>4. L!TableExists(st.ref.q)
    BY <1>2 DEF L!TableExists
  <1>5. QED
    BY <1>2, <1>3, <1>4 DEF L!Outcome, L!ItemsOutcome, L!EmbedOutcome, L!ReferenceOutcome, L!Runs

LEMMA TriggerRuns ==
  ASSUME L!ConfigLintAssumption, config \in Configs, NEW st, st.kind = "trigger",
         L!Loaded(config, st.ref.q), ~Excused(st)
  PROVE  L!Outcome(st) = "ran"
  <1>1. L!TableExists(st.ref.q)
    BY OwnerLoaded DEF Excused, L!Ambiguous, L!TableExists, L!IsTable
  <1>2. L!InTable(st.ref.q, st.ref.col)
    BY DEF Excused, L!Unlinted
  <1>3. QED
    BY <1>1, <1>2 DEF L!Outcome, L!TriggerOutcome, L!Runs

\* A column of a body: the lint found it, or a generator of the entity reads it.
LEMMA WriteRuns ==
  ASSUME NEW r \in DOMAIN config.entity, NEW st, st.kind \in {"post", "put"}, st.route = r, ~Excused(st),
         ~L!RequestInput(config.entity[r], st.ref) => L!Resolved(config, r, st.ref) = "ok"
  PROVE  L!Outcome(st) = "ran"
  <1>1. st.ref.q = "" /\ (st.kind = "put" => ~L!RequestInput(config.entity[r], st.ref))
    BY DEF Excused, L!LetPass
  <1>2. L!RequestInput(config.entity[r], st.ref) => st.ref.col \in config.entity[r].inputs
    BY DEF L!RequestInput
  <1>3. ~L!RequestInput(config.entity[r], st.ref) => st.ref.col \in config.entity[r].columns
    BY <1>1 DEF L!Resolved, Excused, L!Unlinted
  <1>4. CASE st.kind = "post"
    <2>1. L!PostTakes(config.entity[r], st.ref)
      BY <1>1, <1>2, <1>3 DEF L!PostTakes
    <2>2. QED
      BY <1>4, <2>1 DEF L!Outcome
  <1>5. CASE st.kind = "put"
    <2>1. L!PutTakes(config.entity[r], st.ref)
      BY <1>1, <1>3, <1>5 DEF L!PutTakes
    <2>2. QED
      BY <1>5, <2>1 DEF L!Outcome, L!Runs
  <1>6. QED
    BY <1>4, <1>5

\* Each statement of an entity that the lint had nothing to say of.
LEMMA CleanRuns ==
  ASSUME L!ConfigLintAssumption, config \in Configs, L!Lint(config) = {}, NEW r \in DOMAIN config.entity,
         NEW st \in L!Statements(r), ~Excused(st)
  PROVE  L!Outcome(st) = "ran"
  <1> DEFINE s == config.entity[r]
  <1>1. /\ \A ref \in L!Checked(s) : L!Resolved(config, r, ref) = "ok"
        /\ \A n \in L!TriggerTargets(s) : L!Loaded(config, n)
        /\ \A fk \in s.fks : L!Loaded(config, fk.table) /\ fk.ref \in L!SchemaOf(config, fk.table).columns
        /\ \A d \in s.details : L!Loaded(config, d.target) /\ d.fk \in L!SchemaOf(config, d.target).columns
    BY Clean
  <1>2. st.route = r
    BY StatementIs
  <1>3. CASE st.kind \in {"select", "order"} /\ st.ref \in L!Checked(s)
    BY <1>1, <1>2, <1>3, SelectRuns
  <1>4. CASE st.kind \in {"post", "put"} /\ st.ref \in s.post \cup s.put
    <2>1. ~L!RequestInput(s, st.ref) => st.ref \in L!Checked(s)
      BY <1>4 DEF L!Checked
    <2>2. QED
      BY <1>1, <1>2, <1>4, <2>1, WriteRuns
  <1>5. CASE st.kind \in {"items", "embed"} /\ \E d \in s.details : st.ref = [q |-> d.target, col |-> d.fk]
    <2>1. L!Loaded(config, st.ref.q) /\ st.ref.col \in L!SchemaOf(config, st.ref.q).columns
      BY <1>1, <1>5
    <2>2. QED
      BY <1>5, <2>1, NamedRuns
  <1>6. CASE st.kind = "trigger" /\ st.ref.q \in L!TriggerTargets(s)
    BY <1>1, <1>6, TriggerRuns
  <1>7. CASE st.kind = "reference" /\ \E fk \in s.fks : st.ref = [q |-> fk.table, col |-> fk.ref]
    <2>1. L!Loaded(config, st.ref.q) /\ st.ref.col \in L!SchemaOf(config, st.ref.q).columns
      BY <1>1, <1>7
    <2>2. QED
      BY <1>7, <2>1, NamedRuns
  <1>8. CASE st.kind \in {"raw", "nameless", "action"}
    BY <1>8 DEF Excused, L!Unlinted
  <1>9. \/ st.kind \in {"select", "order"} /\ st.ref \in L!Checked(s)
        \/ st.kind = "post" /\ st.ref \in s.post
        \/ st.kind = "put" /\ st.ref \in s.put
        \/ st.kind \in {"items", "embed"} /\ \E d \in s.details : st.ref = [q |-> d.target, col |-> d.fk]
        \/ st.kind = "trigger" /\ st.ref.q \in L!TriggerTargets(s)
        \/ st.kind = "reference" /\ \E fk \in s.fks : st.ref = [q |-> fk.table, col |-> fk.ref]
        \/ st.kind \in {"raw", "nameless", "action"}
    BY StatementIs
  <1>10. QED
    BY <1>3, <1>4, <1>5, <1>6, <1>7, <1>8, <1>9

\* The report is that of the configuration, and the statement one of its.
LintInv ==
  /\ config \in Configs
  /\ phase = "boot" => stmt = L!NoStatement /\ outcome = "none"
  /\ phase # "boot" /\ lintMode # "off" => report = L!Lint(config)
  /\ outcome # "none" =>
       \E r \in DOMAIN config.entity : stmt \in L!Statements(r) /\ outcome = L!Outcome(stmt)

LEMMA LintNext ==
  ASSUME LintInv, [L!Next]_lints
  PROVE  LintInv'
  <1>1. CASE UNCHANGED lints
    <2>1. (outcome = L!Outcome(stmt))' <=> outcome = L!Outcome(stmt)
      BY <1>1 DEF lints, L!Outcome, L!Readable, L!ItemsOutcome, L!EmbedOutcome, L!TriggerOutcome, L!ReferenceOutcome,
                  L!InTable, L!IsTable, L!ColumnsOf, L!TableExists
    <2>2. \A r : L!Statements(r)' = L!Statements(r)
      BY <1>1 DEF lints, L!Statements
    <2>3. QED
      BY <1>1, <2>1, <2>2 DEF lints, LintInv
  <1>2. CASE L!Boot
    BY <1>2 DEF L!Boot, LintInv
  <1>3. CASE L!Run
    <2>1. PICK r \in DOMAIN config.entity : \E st \in L!Statements(r) : stmt' = st /\ outcome' = L!Outcome(st)
      BY <1>3 DEF L!Run
    <2>2. config' = config /\ lintMode' = lintMode /\ report' = report /\ phase' = phase /\ phase = "serving"
      BY <1>3 DEF L!Run
    <2>3. L!Statements(r)' = L!Statements(r)
      BY <2>2 DEF L!Statements
    <2>4. outcome' = L!Outcome(stmt')
      BY <2>1
    <2>5. outcome' = L!Outcome(stmt)'
      BY <2>2, <2>4 DEF L!Outcome, L!Readable, L!ItemsOutcome, L!EmbedOutcome, L!TriggerOutcome, L!ReferenceOutcome,
                        L!InTable, L!IsTable, L!ColumnsOf, L!TableExists
    <2>6. QED
      BY <2>1, <2>2, <2>3, <2>5 DEF LintInv
  <1>4. QED
    BY <1>1, <1>2, <1>3 DEF L!Next

----------------------------------------------------------------------------
(* Import *)

Givers == Imports \cup Posts \cup {I!Old}

ImportTyped ==
  /\ backend \in {"sql", "mongo"} /\ file \in [Imports -> Files]
  /\ ids \in SUBSET [id : Int, by : Givers] /\ counter \in Nat
  /\ step \in [Imports -> {"new", "open", "queue", "done", "rejected", "refused", "failed", "torn"}]
  /\ mode \in [Imports -> {"rows", "queue", "seed"}]
  /\ nextNum \in [Imports -> Nat] /\ inserted \in [Imports -> Nat]
  /\ jobs \in [Imports -> Nat] /\ answer \in [Imports -> Nat]
  /\ open \in [Imports -> SUBSET Int] /\ seen \in [Imports -> SUBSET Nat]
  /\ posts \in [Posts -> {"new", "done", "refused"}] /\ faults \in Nat

\* The rows an import has inserted are in its open transaction, or, in MongoDB,
\* in the table; the ids that MongoDB makes up are those of rows inserted.
Holds(i) ==
  IF backend = "sql" THEN I!Left(i) = {} /\ IsFiniteSet(open[i]) /\ Cardinality(open[i]) = inserted[i]
  ELSE /\ open[i] = {} /\ IsFiniteSet(I!Left(i)) /\ Cardinality(I!Left(i)) = inserted[i]
       /\ \A r \in I!Left(i) : r.id < 0 => -r.id <= inserted[i]

Answered(i) ==
  /\ step[i] = "done" => Len(file[i]) = IF mode[i] = "queue" THEN jobs[i] ELSE Cardinality(I!Left(i))
  /\ step[i] \in {"rejected", "refused", "failed"} =>
       Cardinality(I!Left(i)) = IF backend = "sql" THEN 0 ELSE answer[i]
  /\ step[i] = "torn" => Cardinality(I!Left(i)) \in {0, Len(file[i])}

\* An import has inserted what is in its hands, and answers with it.
InHand(i) ==
  /\ step[i] = "new" => jobs[i] = 0
  /\ step[i] \in {"new", "queue"} => inserted[i] = 0 /\ I!Left(i) = {} /\ open[i] = {}
  /\ step[i] = "open" => inserted[i] <= Len(file[i]) /\ mode[i] # "queue" /\ Holds(i)
  /\ step[i] = "queue" => mode[i] = "queue" /\ jobs[i] <= Len(file[i])
  /\ Answered(i)

AllBlank(i) == ~I!Seeding(i) /\ \A k \in 1..Len(file[i]) : file[i][k].id = 0

\* The number of an import is beyond those it has read, while these are of the
\* width, and, when its file brings none, beyond those it has newNum out.
Beyond(i) ==
  step[i] = "open" =>
    /\ ~I!Seeding(i) /\ (\A n \in seen[i] : n < TenToWidth) => \A n \in seen[i] : n <= nextNum[i]
    /\ AllBlank(i) => (\A n \in open[i] : n <= nextNum[i]) /\ \A r \in I!Left(i) : r.id <= nextNum[i]

\* Why a primary key has refused an import.
Caused(i) ==
  step[i] = "refused" =>
    \/ I!Seeding(i) \/ \E k \in 1..Len(file[i]) : file[i][k].id # 0
    \/ \E r \in ids : r.by # i /\ r.id \notin seen[i]
    \/ I!Wide

\* An import has gone past the counter, or the table past the width.
Passed0 == (\E r \in ids : r.by \in Imports /\ r.id > Counter0) \/ I!Wide

\* Until then the counter, once it has a row, covers every number in the table.
Covered ==
  /\ counter >= Counter0
  /\ Passed0 \/ counter = 0 \/ \A n \in I!Numbers : n <= counter
  /\ \A p \in Posts : posts[p] = "refused" => Passed0

EachImport(i) == InHand(i) /\ Beyond(i) /\ seen[i] \subseteq I!Numbers /\ Caused(i)
ImportInv == ImportTyped /\ (\A i \in Imports : EachImport(i)) /\ Covered

----------------------------------------------------------------------------

LEMMA SameCardinality == \A S : I!Cardinality(S) = Cardinality(S)
  BY DEF I!Cardinality, Cardinality

\* A set has as many records of one giver as it has ids.
LEMMA RecordsCount ==
  ASSUME NEW i, NEW S, IsFiniteSet(S)
  PROVE  /\ IsFiniteSet({[id |-> n, by |-> i] : n \in S})
         /\ Cardinality({[id |-> n, by |-> i] : n \in S}) = Cardinality(S)
  <1> DEFINE T == {[id |-> n, by |-> i] : n \in S}
             f == [n \in S |-> [id |-> n, by |-> i]]
  <1>1. f \in [S -> T] /\ (\A a, b \in S : f[a] = f[b] => a = b) /\ (\A t \in T : \E s \in S : f[s] = t)
    OBVIOUS
  <1>2. f \in Bijection(S, T)
    BY <1>1 DEF Bijection, Injection, Surjection, IsInjective
  <1>3. ExistsBijection(S, T)
    BY <1>2 DEF ExistsBijection
  <1>4. QED
    BY <1>3, FS_Bijection

\* The rows of a file have an id, or 0, and know whether their parent exists.
LEMMA FileTyped ==
  ASSUME I!ImportAssumption, ImportTyped, NEW i \in Imports
  PROVE  /\ Len(file[i]) \in Nat
         /\ \A k \in 1..Len(file[i]) : file[i][k].id \in Nat
  <1>1. file[i] \in Seq([id : Nat, ref : BOOLEAN])
    BY DEF I!ImportAssumption, ImportTyped
  <1> DEFINE Line == [id : Nat, ref : BOOLEAN]
  <1> HIDE DEF Line
  <1>2. Len(file[i]) \in Nat /\ \A k \in 1..Len(file[i]) : file[i][k] \in Line
    <2>1. file[i] \in Seq(Line)
      BY <1>1 DEF Line
    <2>2. QED
      BY <2>1
  <1>3. QED
    BY <1>2 DEF Line

\* The next batch goes from the first row that is not inserted to a row of the file.
LEMMA BatchIs ==
  ASSUME I!ImportAssumption, ImportTyped, NEW i \in Imports, I!Working(i)
  PROVE  \E last \in 1..Len(file[i]) :
           /\ inserted[i] < last /\ I!Batch(i) = (inserted[i] + 1)..last
           /\ IsFiniteSet(I!Batch(i)) /\ Cardinality(I!Batch(i)) = last - inserted[i]
           /\ (backend = "mongo" => last = inserted[i] + 1)
  <1> DEFINE size == IF backend = "sql" /\ ~I!Seeding(i) THEN BatchSize ELSE 1
             last == IF inserted[i] + size < Len(file[i]) THEN inserted[i] + size ELSE Len(file[i])
  <1>1. inserted[i] \in Nat /\ Len(file[i]) \in Nat /\ inserted[i] < Len(file[i])
    BY FileTyped DEF ImportTyped, I!Working
  <1>2. size \in Nat \ {0} /\ (backend = "mongo" => size = 1)
    BY DEF I!ImportAssumption
  <1> HIDE DEF size
  <1>3. last \in 1..Len(file[i]) /\ inserted[i] < last /\ (backend = "mongo" => last = inserted[i] + 1)
    BY <1>1, <1>2
  <1>4. I!Batch(i) = (inserted[i] + 1)..last
    BY DEF I!Batch, size
  <1>5. inserted[i] + 1 \in Int /\ last \in Int /\ inserted[i] + 1 <= last
    BY <1>1, <1>3
  <1> HIDE DEF last
  <1>6. /\ IsFiniteSet((inserted[i] + 1)..last)
        /\ Cardinality((inserted[i] + 1)..last) = last - (inserted[i] + 1) + 1
    BY <1>5, FS_Interval
  <1>7. last - (inserted[i] + 1) + 1 = last - inserted[i]
    BY <1>1, <1>3
  <1>8. QED
    BY <1>3, <1>4, <1>6, <1>7

\* The rows without an id, up to a row, are finitely many.
LEMMA BlankCount ==
  ASSUME NEW i \in Imports, NEW k \in Nat
  PROVE  /\ IsFiniteSet(I!Blank(i, k)) /\ Cardinality(I!Blank(i, k)) \in Nat
         /\ AllBlank(i) /\ k <= Len(file[i]) /\ Len(file[i]) \in Nat => Cardinality(I!Blank(i, k)) = k
  <1>1. IsFiniteSet(1..k) /\ Cardinality(1..k) = k
    <2>1. IsFiniteSet(1..k) /\ Cardinality(1..k) = IF 1 > k THEN 0 ELSE k - 1 + 1
      BY FS_Interval
    <2>2. QED
      BY <2>1
  <1>2. I!Blank(i, k) \in SUBSET (1..k)
    BY DEF I!Blank
  <1>3. IsFiniteSet(I!Blank(i, k))
    BY <1>1, <1>2, FS_Subset
  <1>4. Cardinality(I!Blank(i, k)) \in Nat
    BY <1>3, FS_CardinalityType
  <1>5. AllBlank(i) /\ k <= Len(file[i]) /\ Len(file[i]) \in Nat => I!Blank(i, k) = 1..k
    BY DEF AllBlank, I!Blank
  <1>6. QED
    BY <1>1, <1>3, <1>4, <1>5

\* The ids of a batch: those of the file, numbers in order, or made up.
LEMMA IdOfIs ==
  ASSUME I!ImportAssumption, ImportTyped, NEW i \in Imports, I!Working(i), NEW k \in I!Batch(i)
  PROVE  /\ k \in 1..Len(file[i]) /\ k > inserted[i] /\ I!IdOf(i, k) \in Int
         /\ I!IdOf(i, k) >= 0 \/ (backend = "mongo" /\ I!IdOf(i, k) = -k)
         /\ AllBlank(i) => I!IdOf(i, k) = nextNum[i] + k - inserted[i]
  <1>1. inserted[i] \in Nat /\ nextNum[i] \in Nat /\ Len(file[i]) \in Nat
    BY FileTyped DEF ImportTyped
  <1>2. k \in 1..Len(file[i]) /\ k > inserted[i] /\ k \in Nat
    BY <1>1, BatchIs
  <1>3. file[i][k].id \in Nat
    BY <1>2, FileTyped
  <1>4. I!Blank(i, inserted[i]) \in SUBSET I!Blank(i, k)
    BY <1>1, <1>2 DEF I!Blank
  <1>5. /\ IsFiniteSet(I!Blank(i, k)) /\ Cardinality(I!Blank(i, k)) \in Nat
        /\ AllBlank(i) => Cardinality(I!Blank(i, k)) = k
    BY <1>1, <1>2, BlankCount
  <1>6. /\ Cardinality(I!Blank(i, inserted[i])) \in Nat
        /\ AllBlank(i) => Cardinality(I!Blank(i, inserted[i])) = inserted[i]
    <2>1. inserted[i] <= Len(file[i])
      BY <1>1, <1>2
    <2>2. QED
      BY <1>1, <2>1, BlankCount
  <1>7. Cardinality(I!Blank(i, inserted[i])) <= Cardinality(I!Blank(i, k))
    BY <1>4, <1>5, FS_Subset
  <1>8. backend \in {"sql", "mongo"}
    BY DEF ImportTyped
  <1> DEFINE newNum == nextNum[i] + Cardinality(I!Blank(i, k)) - Cardinality(I!Blank(i, inserted[i]))
  <1>9. newNum \in Nat /\ (AllBlank(i) => newNum = nextNum[i] + k - inserted[i])
    BY <1>1, <1>2, <1>5, <1>6, <1>7
  <1>10. I!IdOf(i, k) = IF file[i][k].id # 0 THEN file[i][k].id
                        ELSE IF I!Seeding(i) THEN IF backend = "mongo" THEN -k ELSE 0 ELSE newNum
    BY SameCardinality DEF I!IdOf
  <1> HIDE DEF newNum
  <1>11. I!IdOf(i, k) \in Int /\ (I!IdOf(i, k) >= 0 \/ (backend = "mongo" /\ I!IdOf(i, k) = -k))
    BY <1>2, <1>3, <1>8, <1>9, <1>10
  <1>12. AllBlank(i) => I!IdOf(i, k) = newNum
    BY <1>2, <1>10 DEF AllBlank
  <1>13. QED
    BY <1>2, <1>9, <1>11, <1>12

\* A batch without duplicates has as many ids as rows.
LEMMA NewIdsCount ==
  ASSUME I!ImportAssumption, ImportTyped, NEW i \in Imports, I!Working(i), ~I!Duplicate(i)
  PROVE  IsFiniteSet(I!NewIds(i)) /\ Cardinality(I!NewIds(i)) = Cardinality(I!Batch(i))
  <1> DEFINE f == [k \in I!Batch(i) |-> I!IdOf(i, k)]
  <1>1. /\ f \in [I!Batch(i) -> I!NewIds(i)]
        /\ \A n \in I!NewIds(i) : \E k \in I!Batch(i) : f[k] = n
    BY DEF I!NewIds
  <1>2. \A j, k \in I!Batch(i) : f[j] = f[k] => j = k
    BY DEF I!Duplicate
  <1>3. f \in Bijection(I!Batch(i), I!NewIds(i))
    BY <1>1, <1>2 DEF Bijection, Injection, Surjection, IsInjective
  <1>4. ExistsBijection(I!Batch(i), I!NewIds(i))
    BY <1>3 DEF ExistsBijection
  <1>5. IsFiniteSet(I!Batch(i))
    BY BatchIs
  <1>6. QED
    BY <1>4, <1>5, FS_Bijection

\* What a step leaves of an import.
Unmoved(j) ==
  /\ step'[j] = step[j] /\ nextNum'[j] = nextNum[j] /\ inserted'[j] = inserted[j] /\ open'[j] = open[j]
  /\ jobs'[j] = jobs[j] /\ answer'[j] = answer[j] /\ seen'[j] = seen[j]
  /\ UNCHANGED <<backend, mode, file>>

\* A step of one import, which writes rows of its own.
OnlyMoves(i) ==
  /\ UNCHANGED <<backend, mode, file, counter, posts>>
  /\ ids \subseteq ids' /\ \A r \in ids' \ ids : r.by = i
  /\ \A j \in Imports \ {i} : Unmoved(j)

\* Numbers in the table stay there.
LEMMA NumbersStay ==
  ASSUME ids \subseteq ids'
  PROVE  I!Numbers \subseteq I!Numbers' /\ (I!Wide => I!Wide')
  <1>1. I!Numbers \subseteq I!Numbers'
    BY DEF I!Numbers
  <1>2. QED
    BY <1>1 DEF I!Wide

\* Rows of others leave an import as it was.
LEMMA Elsewhere ==
  ASSUME NEW j \in Imports, EachImport(j), Unmoved(j), ids \subseteq ids', \A r \in ids' \ ids : r.by # j
  PROVE  EachImport(j)'
  <1>1. I!Left(j)' = I!Left(j)
    BY DEF I!Left
  <1>2. InHand(j)'
    <2>1. Holds(j)' <=> Holds(j)
      BY <1>1 DEF Holds, Unmoved
    <2>2. Answered(j)'
      BY <1>1 DEF EachImport, InHand, Answered, Unmoved
    <2>3. QED
      BY <1>1, <2>1, <2>2 DEF EachImport, InHand, Unmoved
  <1>3. Beyond(j)'
    BY <1>1 DEF EachImport, Beyond, AllBlank, I!Seeding, Unmoved
  <1>4. Caused(j)'
    BY NumbersStay DEF EachImport, Caused, I!Seeding, Unmoved
  <1>5. QED
    BY <1>2, <1>3, <1>4, NumbersStay DEF EachImport, Unmoved

\* Rows of imports leave the counter covering the table, or go past it.
LEMMA StillCovered ==
  ASSUME I!ImportAssumption, ImportTyped, ImportTyped', Covered, UNCHANGED <<counter, posts>>,
         ids \subseteq ids', \A r \in ids' \ ids : r.by \in Imports
  PROVE  Covered'
  <1>1. Passed0 => Passed0'
    BY NumbersStay DEF Passed0
  <1>2. ASSUME ~Passed0', counter # 0, NEW n \in I!Numbers'
        PROVE  n <= counter
    <2>1. PICK r \in ids' : r.id = n /\ n > 0
      BY <1>2 DEF I!Numbers
    <2>2. CASE r \in ids
      BY <1>1, <1>2, <2>1, <2>2 DEF Covered, I!Numbers
    <2>3. CASE r \notin ids
      <3>1. r.by \in Imports /\ r.id \in Int
        BY <2>1, <2>3 DEF ImportTyped
      <3>2. r.id <= Counter0
        BY <1>2, <2>1, <3>1 DEF Passed0, I!ImportAssumption
      <3>3. QED
        BY <2>1, <3>1, <3>2 DEF Covered, ImportTyped, I!ImportAssumption
    <2>4. QED
      BY <2>2, <2>3
  <1>3. QED
    BY <1>1, <1>2 DEF Covered

LEMMA OneMoves ==
  ASSUME I!ImportAssumption, ImportInv, NEW i \in Imports, OnlyMoves(i), ImportTyped', EachImport(i)'
  PROVE  ImportInv'
  <1>1. \A j \in Imports : EachImport(j)'
    <2>1. SUFFICES ASSUME NEW j \in Imports, j # i
                   PROVE  EachImport(j)'
      OBVIOUS
    <2>2. Unmoved(j) /\ EachImport(j) /\ ids \subseteq ids' /\ \A r \in ids' \ ids : r.by # j
      BY <2>1 DEF OnlyMoves, ImportInv
    <2>3. QED
      BY <2>2, Elsewhere
  <1>2. Covered'
    BY StillCovered DEF OnlyMoves, ImportInv
  <1>3. QED
    BY <1>1, <1>2 DEF ImportInv

----------------------------------------------------------------------------

LEMMA ImportInit ==
  ASSUME I!ImportAssumption, I!Init
  PROVE  ImportInv
  <1> USE DEF I!Init
  <1>1. ids \in SUBSET [id : Int, by : Givers]
    BY DEF Givers, I!ImportAssumption
  <1>2. ImportTyped
    BY <1>1 DEF ImportTyped, I!ImportAssumption
  <1>3. \A i \in Imports : I!Left(i) = {}
    BY DEF I!Left, I!ImportAssumption
  <1>4. \A i \in Imports : EachImport(i)
    BY <1>3 DEF EachImport, InHand, Answered, Beyond, Caused
  <1>5. I!Numbers \subseteq Existing
    BY DEF I!Numbers
  <1>6. Covered
    BY <1>5 DEF Covered, I!ImportAssumption
  <1>7. QED
    BY <1>2, <1>4, <1>6 DEF ImportInv

\* A number that no number of the table is beyond is the largest, while they
\* are of the width.
LEMMA MaxIsMax ==
  ASSUME I!ImportAssumption, NEW ns \in SUBSET Nat, NEW m \in ns \cup {0}, I!IsMax(m, ns),
         \A n \in ns : n < TenToWidth
  PROVE  m \in Nat /\ m < TenToWidth /\ \A n \in ns : n <= m
  <1>1. m \in Nat /\ m < TenToWidth
    BY DEF I!ImportAssumption
  <1>2. SUFFICES ASSUME NEW n \in ns
                 PROVE  n <= m
    BY <1>1
  <1>3. n \in Nat /\ n < TenToWidth
    OBVIOUS
  <1>4. n = m \/ I!TextLess(n, m)
    BY DEF I!IsMax
  <1>5. I!TextLess(n, m) => n < m
    BY <1>1, <1>3 DEF I!TextLess
  <1>6. QED
    BY <1>1, <1>3, <1>4, <1>5

LEMMA NumbersTyped ==
  ASSUME ImportTyped
  PROVE  I!Numbers \in SUBSET Nat /\ 0 \notin I!Numbers
  BY DEF ImportTyped, I!Numbers

LEMMA BeginKeeps ==
  ASSUME I!ImportAssumption, ImportInv, NEW i \in Imports, I!Begin(i) \/ I!BeginSeed(i)
  PROVE  ImportInv'
  <1>1. ImportTyped /\ EachImport(i) /\ I!Numbers \in SUBSET Nat
    BY NumbersTyped DEF ImportInv
  <1>2. PICK to \in {"queue", "open"}, s \in SUBSET I!Numbers, m \in I!Numbers \cup {0, nextNum[i]} :
          /\ step[i] = "new" /\ step' = [step EXCEPT ![i] = to] /\ (to = "queue" <=> mode[i] = "queue")
          /\ seen' = [seen EXCEPT ![i] = s] /\ nextNum' = [nextNum EXCEPT ![i] = m]
          /\ faults' \in Nat
          /\ UNCHANGED <<backend, mode, file, ids, counter, inserted, open, jobs, answer, posts>>
          /\ I!Seeding(i) \/ s = {} \/ (s = I!Numbers /\ m \in I!Numbers \cup {0} /\ I!IsMax(m, I!Numbers))
    <2>1. CASE I!Begin(i)
      <3>1. CASE I!Fault /\ UNCHANGED nextNum
        <4>1. faults' # faults /\ faults' \in Nat
          BY <1>1, <3>1 DEF I!Fault, ImportTyped
        <4>2. nextNum' = [nextNum EXCEPT ![i] = nextNum[i]]
          BY <1>1, <3>1 DEF ImportTyped
        <4>3. QED
          BY <2>1, <4>1, <4>2 DEF I!Begin, I!request
      <3>2. CASE UNCHANGED faults
        <4>1. PICK m \in I!Numbers \cup {0} : I!IsMax(m, I!Numbers) /\ nextNum' = [nextNum EXCEPT ![i] = m]
          BY <1>1, <2>1, <3>2 DEF I!Begin, I!Fault, ImportTyped
        <4>2. faults' \in Nat
          BY <1>1, <3>2 DEF ImportTyped
        <4>3. QED
          BY <2>1, <3>2, <4>1, <4>2 DEF I!Begin, I!request
      <3>3. QED
        BY <2>1, <3>1, <3>2 DEF I!Begin
    <2>2. CASE I!BeginSeed(i)
      <3>1. nextNum' = [nextNum EXCEPT ![i] = nextNum[i]] /\ faults' \in Nat
        BY <1>1, <2>2 DEF I!BeginSeed, ImportTyped
      <3>2. mode[i] # "queue"
        BY <2>2 DEF I!BeginSeed, I!Seeding
      <3>3. QED
        BY <2>2, <3>1, <3>2 DEF I!BeginSeed, I!request
    <2>3. QED
      BY <2>1, <2>2
  <1>3. nextNum[i] \in Nat /\ m \in Nat
    BY <1>1, <1>2 DEF ImportTyped
  <1>4. step'[i] = to /\ seen'[i] = s /\ nextNum'[i] = m
    BY <1>1, <1>2 DEF ImportTyped
  <1>5. ImportTyped'
    BY <1>1, <1>2, <1>3 DEF ImportTyped
  <1>6. OnlyMoves(i)
    BY <1>1, <1>2 DEF ImportTyped, OnlyMoves, Unmoved
  <1>7. inserted[i] = 0 /\ I!Left(i)' = {} /\ open[i] = {} /\ jobs[i] = 0
    BY <1>1, <1>2 DEF EachImport, InHand, I!Left
  <1>8. Len(file[i]) \in Nat
    BY <1>1, FileTyped
  <1>9. InHand(i)'
    <2>1. Holds(i)'
      BY <1>2, <1>7, FS_EmptySet DEF Holds
    <2>2. Answered(i)'
      BY <1>2, <1>4 DEF Answered
    <2>3. QED
      BY <1>2, <1>4, <1>7, <1>8, <2>1, <2>2 DEF InHand
  <1>10. Beyond(i)'
    <2>1. ~I!Seeding(i) /\ (\A n \in s : n < TenToWidth) => \A n \in s : n <= m
      BY <1>1, <1>2, MaxIsMax
    <2>2. QED
      BY <1>2, <1>4, <1>7, <2>1 DEF Beyond, I!Seeding
  <1>11. I!Numbers' = I!Numbers
    BY <1>2 DEF I!Numbers
  <1>12. EachImport(i)'
    BY <1>2, <1>4, <1>9, <1>10, <1>11 DEF EachImport, Caused
  <1>13. QED
    BY <1>5, <1>6, <1>12, OneMoves

\* An import that ends without a commit gives its transaction up, and answers
\* with the rows it has inserted.
LEMMA GivesUp ==
  ASSUME I!ImportAssumption, ImportInv, NEW i \in Imports, step[i] = "open",
         NEW how \in {"rejected", "refused", "failed"}, I!End(i, how, inserted[i]),
         open' = [open EXCEPT ![i] = {}], faults' \in Nat, how = "refused" => Caused(i)',
         UNCHANGED <<backend, mode, file, ids, counter, nextNum, inserted, jobs, seen, posts>>
  PROVE  ImportInv'
  <1>1. ImportTyped /\ EachImport(i)
    BY DEF ImportInv
  <1>2. /\ step' = [step EXCEPT ![i] = how] /\ answer' = [answer EXCEPT ![i] = inserted[i]]
        /\ step'[i] = how /\ answer'[i] = inserted[i] /\ open'[i] = {}
    BY <1>1 DEF I!End, ImportTyped
  <1>3. ImportTyped'
    BY <1>1, <1>2 DEF ImportTyped
  <1>4. OnlyMoves(i)
    BY <1>1, <1>2 DEF ImportTyped, OnlyMoves, Unmoved
  <1>5. I!Left(i)' = I!Left(i) /\ I!Numbers' = I!Numbers
    BY DEF I!Left, I!Numbers
  <1>6. InHand(i)'
    <2>1. Cardinality(I!Left(i)) = IF backend = "sql" THEN 0 ELSE inserted[i]
      BY <1>1, FS_EmptySet DEF EachImport, InHand, Holds
    <2>2. Answered(i)'
      BY <1>2, <1>5, <2>1 DEF Answered
    <2>3. QED
      BY <1>2, <2>2 DEF InHand
  <1>7. EachImport(i)'
    BY <1>1, <1>2, <1>5, <1>6 DEF EachImport, Beyond, Caused
  <1>8. QED
    BY <1>3, <1>4, <1>7, OneMoves

\* Ids that continue those of the table, and of the import, are no duplicates.
LEMMA DuplicateCaused ==
  ASSUME I!ImportAssumption, ImportInv, NEW i \in Imports, I!Working(i), I!Duplicate(i)
  PROVE  \/ I!Seeding(i) \/ \E k \in 1..Len(file[i]) : file[i][k].id # 0
         \/ \E r \in ids : r.by # i /\ r.id \notin seen[i]
         \/ I!Wide
  <1>1. SUFFICES ASSUME AllBlank(i), \A r \in ids : r.by # i => r.id \in seen[i], ~I!Wide
                 PROVE  FALSE
    BY DEF AllBlank
  <1>2. ImportTyped /\ EachImport(i) /\ I!Numbers \in SUBSET Nat /\ step[i] = "open"
    BY NumbersTyped DEF ImportInv, I!Working
  <1>3. nextNum[i] \in Nat /\ inserted[i] \in Nat
    BY <1>2 DEF ImportTyped
  <1>4. \A n \in seen[i] : n <= nextNum[i]
    <2>1. \A n \in I!Numbers : n < TenToWidth
      BY <1>1, <1>2 DEF I!Wide, I!ImportAssumption
    <2>2. QED
      BY <1>1, <1>2, <2>1 DEF EachImport, Beyond, AllBlank
  <1>5. (\A n \in open[i] : n <= nextNum[i]) /\ \A r \in I!Left(i) : r.id <= nextNum[i]
    BY <1>1, <1>2 DEF EachImport, Beyond
  <1>6. \A k \in I!Batch(i) : k \in Nat /\ k > inserted[i] /\ I!IdOf(i, k) = nextNum[i] + k - inserted[i]
    BY <1>1, <1>2, IdOfIs
  <1>7. \A n \in I!NewIds(i) : n \in Nat /\ n > nextNum[i]
    BY <1>3, <1>6 DEF I!NewIds
  <1>8. 0 \notin I!NewIds(i)
    BY <1>3, <1>7
  <1>9. I!NewIds(i) \cap open[i] = {}
    <2>1. \A n \in open[i] : n \in Int
      BY <1>2 DEF ImportTyped
    <2>2. QED
      BY <1>3, <1>5, <1>7, <2>1
  <1>10. \A n \in I!Numbers : n <= nextNum[i]
    <2>1. SUFFICES ASSUME NEW n \in I!Numbers
                   PROVE  n <= nextNum[i]
      OBVIOUS
    <2>2. PICK r \in ids : r.id = n
      BY <2>1 DEF I!Numbers
    <2>3. CASE r.by = i
      BY <1>5, <2>2, <2>3 DEF I!Left
    <2>4. CASE r.by # i
      BY <1>1, <1>4, <2>2, <2>4
    <2>5. QED
      BY <2>3, <2>4
  <1>11. I!NewIds(i) \cap I!Numbers = {}
    BY <1>2, <1>3, <1>7, <1>10
  <1>12. \A j, k \in I!Batch(i) : I!IdOf(i, j) = I!IdOf(i, k) => j = k
    BY <1>3, <1>6
  <1>13. QED
    BY <1>8, <1>9, <1>11, <1>12 DEF I!Duplicate

\* What an import has in its hands after a batch, and its numbers.
LEMMA InsertBatchKeeps ==
  ASSUME I!ImportAssumption, ImportInv, NEW i \in Imports, I!InsertBatch(i)
  PROVE  ImportInv'
  <1> DEFINE new == I!NewIds(i)
             rows == {[id |-> n, by |-> i] : n \in new}
             blank == Cardinality({k \in I!Batch(i) : file[i][k].id = 0})
  <1>1. ImportTyped /\ EachImport(i) /\ I!Working(i) /\ ~I!Duplicate(i) /\ step[i] = "open" /\ mode[i] # "queue"
    BY DEF ImportInv, I!InsertBatch, I!Working, EachImport, InHand
  <1>2. PICK last \in 1..Len(file[i]) :
          /\ inserted[i] < last /\ I!Batch(i) = (inserted[i] + 1)..last
          /\ IsFiniteSet(I!Batch(i)) /\ Cardinality(I!Batch(i)) = last - inserted[i]
          /\ (backend = "mongo" => last = inserted[i] + 1)
    BY <1>1, BatchIs
  <1>3. inserted[i] \in Nat /\ nextNum[i] \in Nat /\ Len(file[i]) \in Nat /\ last \in Nat /\ Holds(i)
    BY <1>1, FileTyped DEF ImportTyped, EachImport, InHand
  <1>4. IsFiniteSet(new) /\ Cardinality(new) = last - inserted[i]
    BY <1>1, <1>2, NewIdsCount
  <1>5. blank \in Nat /\ (AllBlank(i) => blank = last - inserted[i])
    <2>1. {k \in I!Batch(i) : file[i][k].id = 0} \in SUBSET I!Batch(i)
      OBVIOUS
    <2>2. IsFiniteSet({k \in I!Batch(i) : file[i][k].id = 0})
      BY <1>2, <2>1, FS_Subset
    <2>3. blank \in Nat
      BY <2>2, FS_CardinalityType
    <2>4. AllBlank(i) => {k \in I!Batch(i) : file[i][k].id = 0} = I!Batch(i)
      BY <1>2, <1>3 DEF AllBlank
    <2>5. QED
      BY <1>2, <2>3, <2>4
  <1>6. \A n \in new : /\ n \in Int /\ (n >= 0 \/ (backend = "mongo" /\ inserted[i] < -n /\ -n <= last))
                       /\ (AllBlank(i) => n <= nextNum[i] + (last - inserted[i]))
    <2>1. SUFFICES ASSUME NEW k \in I!Batch(i), NEW n, n = I!IdOf(i, k)
                   PROVE  /\ n \in Int /\ (n >= 0 \/ (backend = "mongo" /\ inserted[i] < -n /\ -n <= last))
                          /\ (AllBlank(i) => n <= nextNum[i] + (last - inserted[i]))
      BY DEF I!NewIds
    <2>2. /\ k \in Nat /\ k > inserted[i] /\ k <= last
          /\ n \in Int /\ (n >= 0 \/ (backend = "mongo" /\ n = -k))
          /\ AllBlank(i) => n = nextNum[i] + k - inserted[i]
      BY <1>1, <1>2, <1>3, <2>1, IdOfIs
    <2>3. QED
      BY <1>3, <2>2
  <1>7. 0 \notin new /\ new \cap I!Numbers = {} /\ new \cap open[i] = {}
    BY <1>1 DEF I!Duplicate
  <1>8. /\ inserted' = [inserted EXCEPT ![i] = last]
        /\ nextNum' = [nextNum EXCEPT ![i] = nextNum[i] + blank]
    <2>1. inserted[i] + (last - inserted[i]) = last
      BY <1>3
    <2>2. /\ inserted' = [inserted EXCEPT ![i] = inserted[i] + Cardinality(I!Batch(i))]
          /\ nextNum' = [nextNum EXCEPT ![i] = nextNum[i] + blank]
      BY <1>1, SameCardinality DEF I!InsertBatch, I!Advance, ImportTyped
    <2>3. QED
      BY <1>2, <2>1, <2>2
  <1>9. /\ backend = "sql" => open' = [open EXCEPT ![i] = open[i] \cup new] /\ ids' = ids
        /\ backend # "sql" => ids' = ids \cup rows /\ open' = open
        /\ UNCHANGED <<backend, mode, file, counter, step, jobs, answer, seen, posts, faults>>
    BY <1>1 DEF I!InsertBatch, I!request, ImportTyped
  <1> HIDE DEF new, rows, blank
  <1>10. /\ inserted'[i] = last /\ nextNum'[i] = nextNum[i] + blank /\ nextNum'[i] \in Nat
         /\ backend = "sql" => open'[i] = open[i] \cup new
    BY <1>1, <1>3, <1>5, <1>8, <1>9 DEF ImportTyped
  <1>11. rows \in SUBSET [id : Int, by : Givers] /\ (\A r \in rows : r.by = i /\ r.id \in new)
    BY <1>6 DEF rows, Givers
  <1>12. ImportTyped'
    <2>1. ids' \in SUBSET [id : Int, by : Givers]
      BY <1>1, <1>9, <1>11 DEF ImportTyped
    <2>2. open' \in [Imports -> SUBSET Int]
      BY <1>1, <1>6, <1>9 DEF ImportTyped
    <2>3. nextNum[i] + blank \in Nat
      BY <1>3, <1>5
    <2>4. inserted' \in [Imports -> Nat] /\ nextNum' \in [Imports -> Nat]
      BY <1>1, <1>3, <1>8, <2>3 DEF ImportTyped
    <2>5. QED
      BY <1>1, <1>9, <2>1, <2>2, <2>4 DEF ImportTyped
  <1>13. OnlyMoves(i)
    <2>1. ids \subseteq ids' /\ \A r \in ids' \ ids : r.by = i
      BY <1>9, <1>11
    <2>2. \A j \in Imports \ {i} : open'[j] = open[j]
      BY <1>1, <1>9 DEF ImportTyped
    <2>3. QED
      BY <1>1, <1>8, <1>9, <2>1, <2>2 DEF ImportTyped, OnlyMoves, Unmoved
  <1>14. I!Left(i)' = IF backend = "sql" THEN I!Left(i) ELSE I!Left(i) \cup rows
    BY <1>9, <1>11 DEF I!Left
  <1>15. Holds(i)'
    <2>1. CASE backend = "sql"
      <3>1. IsFiniteSet(open[i]) /\ Cardinality(open[i]) = inserted[i] /\ I!Left(i) = {}
        BY <1>3, <2>1 DEF Holds
      <3>2. open[i] \cap new = {}
        BY <1>7
      <3>3. /\ IsFiniteSet(open[i] \cup new)
            /\ Cardinality(open[i] \cup new) = Cardinality(open[i]) + Cardinality(new) - Cardinality({})
        BY <1>4, <3>1, <3>2, FS_Union
      <3>4. inserted[i] + (last - inserted[i]) - 0 = last
        BY <1>3
      <3>5. Cardinality(open[i] \cup new) = last
        BY <1>4, <3>1, <3>3, <3>4, FS_EmptySet
      <3>6. QED
        BY <1>9, <1>10, <1>14, <2>1, <3>1, <3>3, <3>5 DEF Holds
    <2>2. CASE backend # "sql"
      <3>1. /\ IsFiniteSet(I!Left(i)) /\ Cardinality(I!Left(i)) = inserted[i] /\ open[i] = {}
            /\ \A r \in I!Left(i) : r.id < 0 => -r.id <= inserted[i]
        BY <1>3, <2>2 DEF Holds
      <3>2. IsFiniteSet(rows) /\ Cardinality(rows) = last - inserted[i]
        BY <1>4, RecordsCount DEF rows
      <3>3. I!Left(i) \cap rows = {}
        <4>1. SUFFICES ASSUME NEW r \in I!Left(i), r \in rows
                       PROVE  FALSE
          OBVIOUS
        <4>2. r \in ids /\ r.id \in new /\ r.id \in Int
          BY <1>6, <1>11, <4>1 DEF I!Left
        <4>3. ~(r.id > 0)
          BY <1>7, <4>2 DEF I!Numbers
        <4>4. r.id < 0
          BY <1>7, <4>2, <4>3
        <4>5. inserted[i] < -r.id
          BY <1>6, <4>2, <4>4
        <4>6. QED
          BY <1>3, <3>1, <4>1, <4>2, <4>4, <4>5
      <3>4. /\ IsFiniteSet(I!Left(i) \cup rows)
            /\ Cardinality(I!Left(i) \cup rows) = Cardinality(I!Left(i)) + Cardinality(rows) - Cardinality({})
        BY <3>1, <3>2, <3>3, FS_Union
      <3>5. inserted[i] + (last - inserted[i]) - 0 = last
        BY <1>3
      <3>6. Cardinality(I!Left(i) \cup rows) = last
        BY <3>1, <3>2, <3>4, <3>5, FS_EmptySet
      <3>7. \A r \in I!Left(i) \cup rows : r.id < 0 => -r.id <= last
        <4>1. \A r \in I!Left(i) : r.id \in Int
          BY <1>1 DEF I!Left, ImportTyped
        <4>2. \A r \in I!Left(i) : r.id < 0 => -r.id <= last
          BY <1>2, <1>3, <3>1, <4>1
        <4>3. \A r \in rows : r.id < 0 => -r.id <= last
          BY <1>6, <1>11
        <4>4. QED
          BY <4>2, <4>3
      <3>8. QED
        BY <1>9, <1>10, <1>14, <2>2, <3>1, <3>4, <3>6, <3>7 DEF Holds
    <2>3. QED
      BY <2>1, <2>2
  <1>16. InHand(i)'
    <2>1. last <= Len(file[i])
      BY <1>2
    <2>2. QED
      BY <1>1, <1>9, <1>10, <1>15, <2>1 DEF InHand, Answered
  <1>17. Beyond(i)'
    <2>1. ~I!Seeding(i) /\ (\A n \in seen[i] : n < TenToWidth) => \A n \in seen[i] : n <= nextNum[i] + blank
      <3>1. seen[i] \in SUBSET Nat
        BY <1>1 DEF ImportTyped
      <3>2. QED
        BY <1>1, <1>3, <1>5, <3>1 DEF EachImport, Beyond
    <2>2. ASSUME AllBlank(i)
          PROVE  (\A n \in open[i] \cup new : n <= nextNum[i] + blank) /\ \A r \in I!Left(i) \cup rows : r.id <= nextNum[i] + blank
      <3>1. (\A n \in open[i] : n <= nextNum[i]) /\ \A r \in I!Left(i) : r.id <= nextNum[i]
        BY <1>1, <2>2 DEF EachImport, Beyond
      <3>2. open[i] \in SUBSET Int /\ \A r \in I!Left(i) : r.id \in Int
        BY <1>1 DEF ImportTyped, I!Left
      <3>3. \A n \in new : n \in Int /\ n <= nextNum[i] + blank
        BY <1>5, <1>6, <2>2
      <3>4. QED
        BY <1>3, <1>5, <1>11, <3>1, <3>2, <3>3
    <2>3. open'[i] \subseteq open[i] \cup new /\ I!Left(i)' \subseteq I!Left(i) \cup rows
      BY <1>9, <1>10, <1>14
    <2>4. AllBlank(i)' <=> AllBlank(i)
      BY <1>9 DEF AllBlank, I!Seeding
    <2>5. QED
      BY <1>9, <1>10, <2>1, <2>2, <2>3, <2>4 DEF Beyond, I!Seeding
  <1>18. I!Numbers \subseteq I!Numbers'
    BY <1>13, NumbersStay DEF OnlyMoves
  <1>19. EachImport(i)'
    BY <1>1, <1>9, <1>16, <1>17, <1>18 DEF EachImport, Caused
  <1>20. QED
    BY <1>12, <1>13, <1>19, OneMoves

\* Committed, the rows in the transaction are in the table.
LEMMA Committed ==
  ASSUME I!ImportAssumption, ImportInv, NEW i \in Imports, step[i] = "open", inserted[i] = Len(file[i]),
         ids' = ids \cup {[id |-> n, by |-> i] : n \in open[i]}
  PROVE  /\ ids' \in SUBSET [id : Int, by : Givers]
         /\ ids \subseteq ids' /\ \A r \in ids' \ ids : r.by = i
         /\ Cardinality(I!Left(i)') = Len(file[i])
  <1> DEFINE rows == {[id |-> n, by |-> i] : n \in open[i]}
  <1>1. ImportTyped /\ Holds(i)
    BY DEF ImportInv, EachImport, InHand
  <1>2. open[i] \in SUBSET Int
    BY <1>1 DEF ImportTyped
  <1>3. rows \in SUBSET [id : Int, by : Givers] /\ \A r \in rows : r.by = i
    BY <1>2 DEF Givers
  <1>4. CASE backend = "sql"
    <2>1. I!Left(i) = {} /\ IsFiniteSet(open[i]) /\ Cardinality(open[i]) = inserted[i]
      BY <1>1, <1>4 DEF Holds
    <2>2. I!Left(i)' = rows
      BY <1>3, <2>1 DEF I!Left
    <2>3. Cardinality(rows) = Cardinality(open[i])
      <3>1. PICK S : S = open[i]
        OBVIOUS
      <3>2. IsFiniteSet(S)
        BY <2>1, <3>1
      <3>3. Cardinality({[id |-> n, by |-> i] : n \in S}) = Cardinality(S)
        BY <3>2, RecordsCount
      <3>4. QED
        BY <3>1, <3>3
    <2>4. QED
      BY <1>1, <1>3, <2>1, <2>2, <2>3 DEF ImportTyped
  <1>5. CASE backend # "sql"
    <2>1. open[i] = {} /\ Cardinality(I!Left(i)) = inserted[i]
      BY <1>1, <1>5 DEF Holds
    <2>2. ids' = ids
      BY <2>1
    <2>3. I!Left(i)' = I!Left(i)
      BY <2>2 DEF I!Left
    <2>4. QED
      BY <1>1, <2>1, <2>2, <2>3 DEF ImportTyped
  <1>6. QED
    BY <1>4, <1>5

LEMMA CommitKeeps ==
  ASSUME I!ImportAssumption, ImportInv, NEW i \in Imports, I!Commit(i) \/ I!CommitFails(i)
  PROVE  ImportInv'
  <1>1. ImportTyped /\ EachImport(i) /\ step[i] = "open" /\ inserted[i] = Len(file[i]) /\ mode[i] # "queue" /\ Holds(i)
    BY DEF ImportInv, EachImport, InHand, I!Commit, I!CommitFails
  <1>2. PICK how \in {"done", "torn"}, total \in {0, inserted[i]} :
          /\ step' = [step EXCEPT ![i] = how] /\ answer' = [answer EXCEPT ![i] = total]
          /\ open' = [open EXCEPT ![i] = {}] /\ faults' \in Nat
          /\ UNCHANGED <<backend, mode, file, counter, nextNum, inserted, jobs, seen, posts>>
          /\ \/ ids' = ids \cup {[id |-> n, by |-> i] : n \in open[i]}
             \/ how = "torn" /\ backend = "sql" /\ ids' = ids
    <2>1. CASE I!Commit(i)
      BY <1>1, <2>1 DEF I!Commit, I!End, I!request, ImportTyped
    <2>2. CASE I!CommitFails(i)
      <3>1. faults' \in Nat
        BY <1>1, <2>2 DEF I!CommitFails, I!Fault, ImportTyped
      <3>2. QED
        BY <2>2, <3>1 DEF I!CommitFails, I!End, I!request
    <2>3. QED
      BY <2>1, <2>2
  <1>3. /\ ids' \in SUBSET [id : Int, by : Givers]
        /\ ids \subseteq ids' /\ \A r \in ids' \ ids : r.by = i
        /\ Cardinality(I!Left(i)') = Len(file[i]) \/ (how = "torn" /\ Cardinality(I!Left(i)') = 0)
    <2>1. CASE ids' = ids \cup {[id |-> n, by |-> i] : n \in open[i]}
      BY <1>1, <2>1, Committed
    <2>2. CASE how = "torn" /\ backend = "sql" /\ ids' = ids
      <3>1. I!Left(i)' = {}
        BY <1>1, <2>2 DEF Holds, I!Left
      <3>2. QED
        BY <1>1, <2>2, <3>1, FS_EmptySet DEF ImportTyped
    <2>3. QED
      BY <1>2, <2>1, <2>2
  <1>4. step'[i] = how
    BY <1>1, <1>2 DEF ImportTyped
  <1>5. total \in Nat
    BY <1>1 DEF ImportTyped
  <1>6. ImportTyped'
    BY <1>1, <1>2, <1>3, <1>5 DEF ImportTyped
  <1>7. OnlyMoves(i)
    BY <1>1, <1>2, <1>3 DEF ImportTyped, OnlyMoves, Unmoved
  <1>8. InHand(i)'
    <2>1. Answered(i)'
      BY <1>1, <1>2, <1>3, <1>4 DEF Answered
    <2>2. QED
      BY <1>4, <2>1 DEF InHand
  <1>9. EachImport(i)'
    BY <1>1, <1>2, <1>3, <1>4, <1>8, NumbersStay DEF EachImport, Beyond, Caused
  <1>10. QED
    BY <1>6, <1>7, <1>9, OneMoves

\* Rows that are put on the queue.
LEMMA QueueKeeps ==
  ASSUME I!ImportAssumption, ImportInv, NEW i \in Imports,
         I!EnqueueRow(i) \/ I!EnqueueFails(i) \/ I!Enqueued(i)
  PROVE  ImportInv'
  <1>1. ImportTyped /\ EachImport(i) /\ step[i] = "queue" /\ mode[i] = "queue"
    BY DEF ImportInv, EachImport, InHand, I!EnqueueRow, I!EnqueueFails, I!Enqueued
  <1>2. Len(file[i]) \in Nat /\ jobs[i] \in Nat /\ jobs[i] <= Len(file[i])
    BY <1>1, FileTyped DEF ImportTyped, EachImport, InHand
  <1>3. PICK to \in {"queue", "failed", "done"}, put \in {jobs[i], jobs[i] + 1}, total \in {answer[i], 0, jobs[i]} :
          /\ step' = [step EXCEPT ![i] = to] /\ jobs' = [jobs EXCEPT ![i] = put]
          /\ answer' = [answer EXCEPT ![i] = total] /\ faults' \in Nat
          /\ UNCHANGED <<backend, mode, file, ids, counter, nextNum, inserted, open, seen, posts>>
          /\ put <= Len(file[i])
          /\ to = "failed" => total = 0
          /\ to = "done" => put = Len(file[i])
    <2>1. jobs = [jobs EXCEPT ![i] = jobs[i]] /\ answer = [answer EXCEPT ![i] = answer[i]] /\ step = [step EXCEPT ![i] = "queue"]
      BY <1>1 DEF ImportTyped
    <2>2. CASE I!EnqueueRow(i)
      <3>1. jobs[i] + 1 <= Len(file[i]) /\ faults' \in Nat
        BY <1>1, <1>2, <2>2 DEF I!EnqueueRow, ImportTyped
      <3>2. QED
        BY <2>1, <2>2, <3>1 DEF I!EnqueueRow, I!request
    <2>3. CASE I!EnqueueFails(i)
      <3>1. faults' \in Nat
        BY <1>1, <2>3 DEF I!EnqueueFails, I!Fault, ImportTyped
      <3>2. QED
        BY <1>2, <2>1, <2>3, <3>1 DEF I!EnqueueFails, I!End, I!request
    <2>4. CASE I!Enqueued(i)
      <3>1. faults' \in Nat
        BY <1>1, <2>4 DEF I!Enqueued, ImportTyped
      <3>2. QED
        BY <1>2, <2>1, <2>4, <3>1 DEF I!Enqueued, I!End, I!request
    <2>5. QED
      BY <2>2, <2>3, <2>4
  <1>4. put \in Nat /\ total \in Nat
    BY <1>1, <1>2 DEF ImportTyped
  <1>5. step'[i] = to /\ jobs'[i] = put /\ answer'[i] = total
    BY <1>1, <1>3 DEF ImportTyped
  <1>6. ImportTyped'
    BY <1>1, <1>3, <1>4 DEF ImportTyped
  <1>7. OnlyMoves(i)
    BY <1>1, <1>3 DEF ImportTyped, OnlyMoves, Unmoved
  <1>8. I!Left(i)' = {} /\ inserted[i] = 0 /\ open[i] = {} /\ I!Numbers' = I!Numbers
    BY <1>1, <1>3 DEF EachImport, InHand, I!Left, I!Numbers
  <1>9. InHand(i)'
    <2>1. Answered(i)'
      BY <1>1, <1>3, <1>5, <1>8, FS_EmptySet DEF Answered
    <2>2. QED
      BY <1>1, <1>3, <1>5, <1>8, <2>1 DEF InHand
  <1>10. EachImport(i)'
    BY <1>1, <1>3, <1>5, <1>8, <1>9 DEF EachImport, Beyond, Caused
  <1>11. QED
    BY <1>6, <1>7, <1>10, OneMoves

\* A POST draws a number that the counter has not covered.
LEMMA PostKeeps ==
  ASSUME I!ImportAssumption, ImportInv, NEW p \in Posts, I!Post(p)
  PROVE  ImportInv'
  <1>1. ImportTyped /\ Covered /\ I!Numbers \in SUBSET Nat
    BY NumbersTyped DEF ImportInv
  <1>2. PICK n \in I!Drawn :
          /\ IF n \in I!Numbers
               THEN posts' = [posts EXCEPT ![p] = "refused"] /\ UNCHANGED <<ids, counter>>
               ELSE /\ posts' = [posts EXCEPT ![p] = "done"]
                    /\ ids' = ids \cup {[id |-> n, by |-> p]} /\ counter' = n
          /\ UNCHANGED <<backend, mode, file, step, nextNum, inserted, open, jobs, answer, seen, faults>>
    BY DEF I!Post, I!request
  <1>3. n \in Nat \ {0}
    <2>1. CASE counter > 0
      BY <1>1, <2>1 DEF I!Drawn, ImportTyped
    <2>2. CASE ~(counter > 0)
      <3>1. PICK m \in I!Numbers \cup {0} : n = (m % TenToWidth) + 1
        BY <2>2 DEF I!Drawn
      <3>2. m \in Nat /\ TenToWidth \in Nat \ {0}
        BY <1>1 DEF I!ImportAssumption
      <3>3. m % TenToWidth \in Nat
        BY <3>2
      <3>4. QED
        BY <3>1, <3>3
    <2>3. QED
      BY <2>1, <2>2
  <1>4. ids \subseteq ids' /\ \A r \in ids' \ ids : r.by = p
    BY <1>2
  <1>5. ImportTyped'
    <2>1. [id |-> n, by |-> p] \in [id : Int, by : Givers]
      BY <1>3 DEF Givers
    <2>2. ids' \in SUBSET [id : Int, by : Givers] /\ counter' \in Nat
      BY <1>1, <1>2, <1>3, <2>1 DEF ImportTyped
    <2>3. QED
      BY <1>1, <1>2, <2>2 DEF ImportTyped
  <1>6. \A j \in Imports : EachImport(j)'
    <2>1. SUFFICES ASSUME NEW j \in Imports
                   PROVE  EachImport(j)'
      OBVIOUS
    <2>2. p # j /\ EachImport(j) /\ Unmoved(j)
      BY <1>2 DEF I!ImportAssumption, ImportInv, Unmoved
    <2>3. \A r \in ids' \ ids : r.by # j
      BY <1>4, <2>2
    <2>4. QED
      BY <1>4, <2>2, <2>3, Elsewhere
  <1>7. Passed0 => Passed0'
    BY <1>4, NumbersStay DEF Passed0
  <1>8. ~Passed0 => \A m \in I!Numbers : m < n
    <2>1. SUFFICES ASSUME ~Passed0, NEW m \in I!Numbers
                   PROVE  m < n
      OBVIOUS
    <2>2. CASE counter > 0
      <3>1. n = counter + 1
        BY <2>2 DEF I!Drawn
      <3>2. m <= counter
        BY <1>1, <2>1, <2>2 DEF Covered
      <3>3. QED
        BY <1>1, <3>1, <3>2 DEF ImportTyped
    <2>3. CASE ~(counter > 0)
      <3>1. PICK x \in I!Numbers \cup {0} : I!IsMax(x, I!Numbers) /\ n = (x % TenToWidth) + 1
        BY <2>3 DEF I!Drawn
      <3>2. \A y \in I!Numbers : y < TenToWidth
        BY <1>1, <2>1 DEF Passed0, I!Wide, I!ImportAssumption
      <3>3. x \in Nat /\ x < TenToWidth /\ m <= x
        BY <1>1, <3>1, <3>2, MaxIsMax
      <3>4. x % TenToWidth = x
        BY <3>3 DEF I!ImportAssumption
      <3>5. QED
        BY <1>1, <3>1, <3>3, <3>4
    <2>4. QED
      BY <2>2, <2>3
  <1>9. counter' >= Counter0
    <2>1. CASE n \in I!Numbers
      BY <1>1, <1>2, <2>1 DEF Covered
    <2>2. CASE n \notin I!Numbers
      <3>1. counter' = n
        BY <1>2, <2>2
      <3>2. counter > 0 => n = counter + 1
        BY DEF I!Drawn
      <3>3. QED
        BY <1>1, <1>3, <3>1, <3>2 DEF Covered, ImportTyped, I!ImportAssumption
    <2>3. QED
      BY <2>1, <2>2
  <1>10. Covered'
    <2>1. CASE n \in I!Numbers
      <3>1. Passed0 /\ Passed0'
        BY <1>1, <1>3, <1>7, <1>8, <2>1
      <3>2. QED
        BY <1>9, <3>1 DEF Covered
    <2>2. CASE n \notin I!Numbers
      <3>1. counter' = n /\ posts' = [posts EXCEPT ![p] = "done"] /\ ids' = ids \cup {[id |-> n, by |-> p]}
        BY <1>2, <2>2
      <3>2. I!Numbers' \subseteq I!Numbers \cup {n}
        BY <3>1 DEF I!Numbers
      <3>3. Passed0' \/ \A m \in I!Numbers' : m <= n
        BY <1>1, <1>3, <1>7, <1>8, <3>2
      <3>4. \A q \in Posts : posts'[q] = "refused" => posts[q] = "refused"
        BY <1>1, <3>1 DEF ImportTyped
      <3>5. \A q \in Posts : posts'[q] = "refused" => Passed0'
        BY <1>1, <1>7, <3>4 DEF Covered
      <3>6. QED
        BY <1>9, <3>1, <3>3, <3>5 DEF Covered
    <2>3. QED
      BY <2>1, <2>2
  <1>11. QED
    BY <1>5, <1>6, <1>10 DEF ImportInv

LEMMA ImportNext ==
  ASSUME I!ImportAssumption, ImportInv, [I!Next]_imports
  PROVE  ImportInv'
  <1>1. ASSUME NEW i \in Imports,
               \/ I!Begin(i) \/ I!BeginSeed(i) \/ I!RejectReference(i) \/ I!InsertBatch(i) \/ I!RefuseDuplicate(i)
               \/ I!InsertFails(i) \/ I!Commit(i) \/ I!CommitFails(i)
               \/ I!EnqueueRow(i) \/ I!EnqueueFails(i) \/ I!Enqueued(i)
        PROVE  ImportInv'
    <2>1. faults \in Nat
      BY DEF ImportInv, ImportTyped
    <2>2. CASE I!Begin(i) \/ I!BeginSeed(i)
      BY <2>2, BeginKeeps
    <2>3. CASE I!RejectReference(i)
      BY <2>1, <2>3, GivesUp DEF I!RejectReference, I!Working, I!request
    <2>4. CASE I!InsertBatch(i)
      BY <2>4, InsertBatchKeeps
    <2>5. CASE I!RefuseDuplicate(i)
      <3>1. I!Working(i) /\ I!Duplicate(i) /\ UNCHANGED <<backend, mode, file, ids, seen>>
        BY <2>5 DEF I!RefuseDuplicate, I!request
      <3>2. Caused(i)'
        BY <3>1, DuplicateCaused DEF Caused, I!Seeding, I!Wide, I!Numbers
      <3>3. QED
        BY <2>1, <2>5, <3>2, GivesUp DEF I!RefuseDuplicate, I!Working, I!request
    <2>6. CASE I!InsertFails(i)
      <3>1. faults' \in Nat
        BY <2>1, <2>6 DEF I!InsertFails, I!Fault
      <3>2. QED
        BY <2>6, <3>1, GivesUp DEF I!InsertFails, I!Working, I!request
    <2>7. CASE I!Commit(i) \/ I!CommitFails(i)
      BY <2>7, CommitKeeps
    <2>8. CASE I!EnqueueRow(i) \/ I!EnqueueFails(i) \/ I!Enqueued(i)
      BY <2>8, QueueKeeps
    <2>9. QED
      BY <1>1, <2>2, <2>3, <2>4, <2>5, <2>6, <2>7, <2>8
  <1>2. ASSUME NEW p \in Posts, I!Post(p)
        PROVE  ImportInv'
    BY <1>2, PostKeeps
  <1>3. CASE UNCHANGED imports
    <2>1. UNCHANGED <<backend, mode, ids, counter, file, step, nextNum, inserted, open, jobs, answer, seen, posts, faults>>
      BY <1>3 DEF imports
    <2>2. ImportTyped'
      BY <2>1 DEF ImportInv, ImportTyped
    <2>3. \A j \in Imports : EachImport(j)'
      <3>1. SUFFICES ASSUME NEW j \in Imports
                     PROVE  EachImport(j)'
        OBVIOUS
      <3>2. EachImport(j) /\ Unmoved(j) /\ ids \subseteq ids' /\ \A r \in ids' \ ids : r.by # j
        BY <2>1 DEF ImportInv, Unmoved
      <3>3. QED
        BY <3>2, Elsewhere
    <2>4. Covered'
      BY <2>1, <2>2, StillCovered DEF ImportInv
    <2>5. QED
      BY <2>2, <2>3, <2>4 DEF ImportInv
  <1>4. QED
    BY <1>1, <1>2, <1>3 DEF I!Next

----------------------------------------------------------------------------
(* References *)

Rows(states) == [state : states, ref : Parents \cup {D!NoRef}]
Progress ==
  [pc : {"new", "refs", "refused", "done"}, parent : Parents, next : Nat,
   own : [Children -> Rows({"none", "live", "deleted", "removed"})]]

ReferencesTyped ==
  /\ parent \in [Parents -> {"live", "gone"}]
  /\ child \in [Children -> Rows({"none", "live", "deleted"})]
  /\ del \in [Deletes -> Progress]
  /\ add \in [Adds -> {"new", "checked", "refused", "done"}]

\* What a DELETE has made of a child refers to no parent, or is not live.
Detached == \A r \in Deletes, c \in Children : del[r].own[c].state = "live" => del[r].own[c].ref = D!NoRef

Matters(i, c) == i \in 1..Len(Refs) /\ Refs[i].table = ChildTable[c] /\ D!Acts(Refs[i])
Orphan(held, p) == held.state = "live" /\ held.ref = p

\* Past a reference, a DELETE sees no child in its table that refers to the
\* parent, but those written since the DELETE began.
Swept ==
  \A r \in Deletes : del[r].pc \in {"new", "refs"} =>
    /\ del[r].pc = "new" => del[r].next = 1
    /\ \A c \in Children \ raced : \A i \in 1..(del[r].next - 1) :
         Matters(i, c) => ~Orphan(D!Seen(r)[c], del[r].parent)

\* A parent that went after it was checked has marked the child.
CheckedLate == \A a \in Adds : add[a] = "checked" => parent[a.parent] = "live" \/ a.child \in raced

ReferencesInv == ReferencesTyped /\ Detached /\ Swept /\ CheckedLate /\ D!OrphansRaced

----------------------------------------------------------------------------

LEMMA ReferencesInit ==
  ASSUME D!ReferencesAssumption, D!Init
  PROVE  ReferencesInv
  <1> USE DEF D!Init
  <1>1. D!NoRow \in Rows({"none", "live", "deleted"}) /\ D!NoRow \in Rows({"none", "live", "deleted", "removed"})
    BY DEF D!NoRow, Rows
  <1>2. \A p \in Parents : D!Row(p) \in Rows({"none", "live", "deleted"})
    BY DEF D!Row, Rows
  <1>3. child \in [Children -> Rows({"none", "live", "deleted"})]
    BY <1>1, <1>2
  <1>4. PICK to \in [Deletes -> Parents] :
          del = [r \in Deletes |->
                   [pc |-> "new", parent |-> to[r], next |-> 1, own |-> [c \in Children |-> D!NoRow]]]
    OBVIOUS
  <1>5. \A r \in Deletes : /\ del[r] \in Progress /\ del[r].pc = "new" /\ del[r].next = 1
                           /\ \A c \in Children : del[r].own[c] = D!NoRow
    BY <1>1, <1>4 DEF Progress
  <1>6. ReferencesTyped
    BY <1>3, <1>4, <1>5 DEF ReferencesTyped
  <1>7. Detached /\ Swept
    BY <1>5 DEF Detached, Swept, D!NoRow
  <1>8. CheckedLate
    BY DEF CheckedLate
  <1>9. D!OrphansRaced
    BY DEF D!OrphansRaced
  <1>10. QED
    BY <1>6, <1>7, <1>8, <1>9 DEF ReferencesInv

\* The rows of the children, and what a DELETE sees of them, are rows.
LEMMA SeenTyped ==
  ASSUME ReferencesTyped, NEW r \in Deletes, NEW c \in Children
  PROVE  /\ del[r].own[c] \in Rows({"none", "live", "deleted", "removed"})
         /\ D!Seen(r)[c] = IF del[r].own[c] = D!NoRow THEN child[c] ELSE del[r].own[c]
         /\ D!Seen(r)[c] \in Rows({"none", "live", "deleted", "removed"})
  <1>1. del[r] \in Progress /\ child[c] \in Rows({"none", "live", "deleted"})
    BY DEF ReferencesTyped
  <1>2. del[r].own[c] \in Rows({"none", "live", "deleted", "removed"})
    BY <1>1 DEF Progress
  <1>3. Rows({"none", "live", "deleted"}) \subseteq Rows({"none", "live", "deleted", "removed"})
    BY DEF Rows
  <1>4. QED
    BY <1>1, <1>2, <1>3 DEF D!Seen

\* A statement leaves no child of its table that refers to the parent.
LEMMA AfterDetaches ==
  ASSUME NEW fk, NEW held \in Rows({"none", "live", "deleted", "removed"}), D!Changes(fk)
  PROVE  /\ D!After(fk, held) \in Rows({"none", "live", "deleted", "removed"})
         /\ D!After(fk, held).state = "live" => D!After(fk, held).ref = D!NoRef
  <1>1. held.state \in {"none", "live", "deleted", "removed"} /\ held.ref \in Parents \cup {D!NoRef}
    BY DEF Rows
  <1>2. CASE fk.action = "set null"
    <2>1. D!After(fk, held) = [held EXCEPT !.ref = D!NoRef]
      BY <1>2 DEF D!After
    <2>2. D!After(fk, held).ref = D!NoRef /\ D!After(fk, held) \in Rows({"none", "live", "deleted", "removed"})
      BY <2>1 DEF Rows
    <2>3. QED
      BY <2>2
  <1>3. CASE fk.action # "set null"
    <2>1. PICK s \in {"deleted", "removed"} : D!After(fk, held) = [held EXCEPT !.state = s]
      BY <1>3 DEF D!After
    <2>2. D!After(fk, held).state = s /\ D!After(fk, held) \in Rows({"none", "live", "deleted", "removed"})
      BY <2>1 DEF Rows
    <2>3. QED
      BY <2>2
  <1>4. QED
    BY <1>2, <1>3

\* Steps that leave the children and what the DELETEs made of them, and refuse
\* DELETEs or begin them.
LEMMA ProgressOnly ==
  ASSUME ReferencesInv, NEW r \in Deletes, del[r].pc \in {"new", "refs"}, NEW to \in {"refs", "refused"},
         del' = [del EXCEPT ![r].pc = to], UNCHANGED <<parent, child, add, raced>>
  PROVE  ReferencesInv'
  <1>1. ReferencesTyped /\ Detached /\ Swept /\ CheckedLate /\ D!OrphansRaced
    BY DEF ReferencesInv
  <1>2. del \in [Deletes -> Progress] /\ del[r] \in Progress
    BY <1>1 DEF ReferencesTyped
  <1>3. [del[r] EXCEPT !.pc = to] \in Progress
    BY <1>2 DEF Progress
  <1>4. del' \in [Deletes -> Progress]
    BY <1>2, <1>3
  <1>5. /\ \A q \in Deletes : del'[q].own = del[q].own /\ del'[q].parent = del[q].parent /\ del'[q].next = del[q].next
        /\ \A q \in Deletes : del'[q].pc = IF q = r THEN to ELSE del[q].pc
    BY <1>2 DEF Progress
  <1>6. ReferencesTyped'
    BY <1>1, <1>4 DEF ReferencesTyped
  <1>7. Detached'
    BY <1>1, <1>5 DEF Detached
  <1>8. \A q \in Deletes : \A c \in Children : D!Seen(q)[c]' = D!Seen(q)[c]
    BY <1>5 DEF D!Seen
  <1>9. Swept'
    BY <1>1, <1>5, <1>8 DEF Swept
  <1>10. CheckedLate' /\ D!OrphansRaced'
    BY <1>1 DEF CheckedLate, D!OrphansRaced, D!Governed
  <1>11. QED
    BY <1>6, <1>7, <1>9, <1>10 DEF ReferencesInv

\* A reference that is not refused leaves no such child in its table.
LEMMA ReferenceSweeps ==
  ASSUME ReferencesInv, D!ReferencesAssumption, NEW r \in Deletes, D!Reference(r), D!Allowed(r, Refs[del[r].next])
  PROVE  ReferencesInv'
  <1> DEFINE fk == Refs[del[r].next]
             made == [c \in Children |->
                        IF D!Changes(fk) /\ c \in D!Hit(r, fk) THEN D!After(fk, D!Seen(r)[c]) ELSE del[r].own[c]]
  <1>1. ReferencesTyped /\ Detached /\ Swept /\ CheckedLate /\ D!OrphansRaced
    BY DEF ReferencesInv
  <1>2. del \in [Deletes -> Progress] /\ del[r] \in Progress /\ del[r].next \in Nat
    BY <1>1 DEF ReferencesTyped, Progress
  <1>3. /\ del' = [del EXCEPT ![r].next = del[r].next + 1, ![r].own = made]
        /\ del[r].pc = "refs" /\ del[r].next <= Len(Refs)
        /\ UNCHANGED <<parent, child, add, raced>>
    BY <1>2 DEF D!Reference
  <1>4. \A c \in Children : /\ made[c] \in Rows({"none", "live", "deleted", "removed"})
                            /\ made[c].state = "live" => made[c].ref = D!NoRef
    <2>1. SUFFICES ASSUME NEW c \in Children
                   PROVE  /\ made[c] \in Rows({"none", "live", "deleted", "removed"})
                          /\ made[c].state = "live" => made[c].ref = D!NoRef
      OBVIOUS
    <2>2. CASE D!Changes(fk) /\ c \in D!Hit(r, fk)
      <3>1. made[c] = D!After(fk, D!Seen(r)[c])
        BY <2>2
      <3>2. D!Seen(r)[c] \in Rows({"none", "live", "deleted", "removed"})
        BY <1>1, SeenTyped
      <3> HIDE DEF made, fk
      <3>3. QED
        BY <2>2, <3>1, <3>2, AfterDetaches
    <2>3. CASE ~(D!Changes(fk) /\ c \in D!Hit(r, fk))
      <3>1. made[c] = del[r].own[c]
        BY <2>3
      <3>2. QED
        BY <1>1, <3>1, SeenTyped DEF Detached
    <2>4. QED
      BY <2>2, <2>3
  <1>5. made \in [Children -> Rows({"none", "live", "deleted", "removed"})]
    BY <1>4
  <1> HIDE DEF made
  <1>6. /\ del' \in [Deletes -> Progress]
        /\ \A q \in Deletes : q # r => del'[q] = del[q]
        /\ del'[r].own = made /\ del'[r].next = del[r].next + 1
        /\ del'[r].pc = "refs" /\ del'[r].parent = del[r].parent
    <2>1. DOMAIN del[r] = {"pc", "parent", "next", "own"}
      BY <1>2 DEF Progress
    <2>2. [del[r] EXCEPT !.next = del[r].next + 1, !.own = made] \in Progress
      <3>1. \A x \in Nat, m \in [Children -> Rows({"none", "live", "deleted", "removed"})] :
              [del[r] EXCEPT !.next = x, !.own = m] \in Progress
        BY <1>2 DEF Progress
      <3>2. del[r].next + 1 \in Nat
        BY <1>2
      <3>3. QED
        BY <1>5, <3>1, <3>2
    <2>3. del' = [del EXCEPT ![r] = [del[r] EXCEPT !.next = del[r].next + 1, !.own = made]]
      BY <1>2, <1>3
    <2>4. del'[r] = [del[r] EXCEPT !.next = del[r].next + 1, !.own = made]
      BY <1>2, <2>3
    <2>5. del'[r].own = made /\ del'[r].next = del[r].next + 1 /\ del'[r].pc = "refs" /\ del'[r].parent = del[r].parent
      BY <1>3, <2>1, <2>4
    <2>6. QED
      BY <1>2, <2>2, <2>3, <2>5
  <1>7. ReferencesTyped'
    BY <1>1, <1>3, <1>6 DEF ReferencesTyped
  <1>8. Detached'
    <2>1. \A q \in Deletes, c \in Children :
            del'[q].own[c].state = "live" => del'[q].own[c].ref = D!NoRef
      BY <1>1, <1>4, <1>6 DEF Detached
    <2>2. QED
      BY <2>1 DEF Detached
  <1>9. \A c \in Children : made[c] # D!NoRow \/ del[r].own[c] = D!NoRow
    <2>1. SUFFICES ASSUME NEW c \in Children, del[r].own[c] # D!NoRow, made[c] = D!NoRow
                   PROVE  FALSE
      OBVIOUS
    <2>2. D!Changes(fk) /\ c \in D!Hit(r, fk) /\ D!After(fk, D!Seen(r)[c]) = D!NoRow
      BY <2>1 DEF made
    <2>3. D!Seen(r)[c].state \notin {"none", "removed"} /\ D!Seen(r)[c] \in Rows({"none", "live", "deleted", "removed"})
      BY <1>1, <2>2, SeenTyped DEF D!Hit
    <2>4. D!After(fk, D!Seen(r)[c]).state # "none"
      BY <2>3 DEF D!After, Rows
    <2>5. QED
      BY <2>2, <2>4 DEF D!NoRow
  <1>10. \A q \in Deletes : \A c \in Children : Orphan(D!Seen(q)[c]', del[q].parent) => Orphan(D!Seen(q)[c], del[q].parent)
    <2>1. SUFFICES ASSUME NEW q \in Deletes, NEW c \in Children, Orphan(D!Seen(q)[c]', del[q].parent)
                   PROVE  Orphan(D!Seen(q)[c], del[q].parent)
      OBVIOUS
    <2>2. CASE q # r
      BY <1>3, <1>6, <2>1, <2>2 DEF D!Seen
    <2>3. CASE q = r
      <3>1. D!Seen(r)[c]' = IF made[c] = D!NoRow THEN child[c] ELSE made[c]
        BY <1>3, <1>6 DEF D!Seen
      <3>2. del[r].parent \in Parents /\ del[r].parent # D!NoRef
        BY <1>2 DEF Progress, D!NoRef, D!ReferencesAssumption
      <3>3. made[c] = D!NoRow
        BY <1>4, <2>1, <2>3, <3>1, <3>2 DEF Orphan
      <3>4. QED
        BY <1>1, <1>9, <2>1, <2>3, <3>1, <3>3, SeenTyped
    <2>4. QED
      BY <2>2, <2>3
  <1>11. \A c \in Children : Matters(del[r].next, c) => ~Orphan(D!Seen(r)[c]', del[r].parent)
    <2>1. SUFFICES ASSUME NEW c \in Children, Matters(del[r].next, c), Orphan(D!Seen(r)[c]', del[r].parent)
                   PROVE  FALSE
      OBVIOUS
    <2>2. Orphan(D!Seen(r)[c], del[r].parent)
      BY <1>10, <2>1
    <2>3. c \in D!Hit(r, fk)
      BY <2>1, <2>2 DEF Orphan, D!Hit, Matters
    <2>4. D!Changes(fk)
      BY <2>1, <2>3 DEF D!Allowed, Matters, D!Acts
    <2>5. D!Seen(r)[c].state \notin {"none", "removed"} /\ D!Seen(r)[c] \in Rows({"none", "live", "deleted", "removed"})
      BY <1>1, <2>3, SeenTyped DEF D!Hit
    <2>6. made[c] = D!After(fk, D!Seen(r)[c])
      BY <2>3, <2>4 DEF made
    <2>7. D!After(fk, D!Seen(r)[c]).state # "none"
      BY <2>5 DEF D!After, Rows
    <2>8. made[c] # D!NoRow
      BY <2>6, <2>7 DEF D!NoRow
    <2>9. D!Seen(r)[c]' = made[c]
      BY <1>3, <1>6, <2>8 DEF D!Seen
    <2>10. del[r].parent \in Parents /\ del[r].parent # D!NoRef
      BY <1>2 DEF Progress, D!NoRef, D!ReferencesAssumption
    <2>11. QED
      BY <1>4, <2>1, <2>9, <2>10 DEF Orphan
  <1>12. Swept'
    <2>1. SUFFICES ASSUME NEW q \in Deletes, del'[q].pc \in {"new", "refs"}
                   PROVE  /\ del'[q].pc = "new" => del'[q].next = 1
                          /\ \A c \in Children \ raced : \A i \in 1..(del'[q].next - 1) :
                               Matters(i, c) => ~Orphan(D!Seen(q)[c]', del'[q].parent)
      BY <1>3 DEF Swept, Matters, Orphan
    <2>2. CASE q # r
      BY <1>1, <1>6, <1>10, <2>1, <2>2 DEF Swept
    <2>3. CASE q = r
      BY <1>1, <1>2, <1>3, <1>6, <1>10, <1>11, <2>1, <2>3 DEF Swept
    <2>4. QED
      BY <2>2, <2>3
  <1>13. CheckedLate' /\ D!OrphansRaced'
    BY <1>1, <1>3 DEF CheckedLate, D!OrphansRaced, D!Governed
  <1>14. QED
    BY <1>7, <1>8, <1>12, <1>13 DEF ReferencesInv

\* Committed, a DELETE leaves no orphan but those written since it began.
LEMMA CommitDeleteKeeps ==
  ASSUME ReferencesInv, D!ReferencesAssumption, NEW r \in Deletes, D!CommitDelete(r)
  PROVE  ReferencesInv'
  <1>1. ReferencesTyped /\ Detached /\ Swept /\ CheckedLate /\ D!OrphansRaced
    BY DEF ReferencesInv
  <1>2. del \in [Deletes -> Progress] /\ del[r] \in Progress /\ del[r].parent \in Parents /\ del[r].next \in Nat
    BY <1>1 DEF ReferencesTyped, Progress
  <1>3. Len(Refs) \in Nat
    BY DEF D!ReferencesAssumption
  <1>4. /\ del[r].pc = "refs" /\ del[r].next > Len(Refs)
        /\ parent' = [parent EXCEPT ![del[r].parent] = "gone"]
        /\ child' = [c \in Children |->
             IF del[r].own[c].state = "removed" THEN D!NoRow
             ELSE IF del[r].own[c] = D!NoRow THEN child[c] ELSE del[r].own[c]]
        /\ del' = [del EXCEPT ![r].pc = "done"]
        /\ raced' = raced \cup {a.child : a \in {b \in Adds : add[b] = "checked" /\ b.parent = del[r].parent}}
        /\ add' = add
    BY DEF D!CommitDelete
  <1>5. parent' \in [Parents -> {"live", "gone"}] /\ \A p \in Parents : parent[p] = "gone" => parent'[p] = "gone"
    BY <1>1, <1>4 DEF ReferencesTyped
  <1>6. \A c \in Children : del[r].own[c] \in Rows({"none", "live", "deleted", "removed"})
    BY <1>1, SeenTyped
  <1>7. \A c \in Children : child'[c] = IF del[r].own[c].state = "removed" THEN D!NoRow ELSE D!Seen(r)[c]
    BY <1>4 DEF D!Seen
  <1>8. child' \in [Children -> Rows({"none", "live", "deleted"})]
    <2>1. \A c \in Children : child'[c] \in Rows({"none", "live", "deleted"})
      <3>1. SUFFICES ASSUME NEW c \in Children
                     PROVE  child'[c] \in Rows({"none", "live", "deleted"})
        OBVIOUS
      <3>2. CASE del[r].own[c].state = "removed"
        BY <1>7, <3>2 DEF Rows, D!NoRow
      <3>3. CASE del[r].own[c] = D!NoRow
        BY <1>1, <1>4, <3>3 DEF ReferencesTyped, D!NoRow
      <3>4. CASE del[r].own[c].state # "removed" /\ del[r].own[c] # D!NoRow
        BY <1>4, <1>6, <3>4 DEF Rows
      <3>5. QED
        BY <3>2, <3>3, <3>4
    <2>2. QED
      BY <1>4, <2>1
  <1>9. [del[r] EXCEPT !.pc = "done"] \in Progress
    BY <1>2 DEF Progress
  <1>10. /\ del' \in [Deletes -> Progress]
         /\ \A q \in Deletes : q # r => del'[q] = del[q]
         /\ del'[r].own = del[r].own /\ del'[r].pc = "done"
    <2>1. del'[r] = [del[r] EXCEPT !.pc = "done"] /\ del'[r].own = del[r].own /\ del'[r].pc = "done"
      BY <1>2, <1>4 DEF Progress
    <2>2. QED
      BY <1>2, <1>4, <1>9, <2>1
  <1>11. ReferencesTyped'
    BY <1>1, <1>4, <1>5, <1>8, <1>10 DEF ReferencesTyped
  <1>12. Detached'
    <2>1. \A q \in Deletes : del'[q].own = del[q].own
      BY <1>10
    <2>2. QED
      BY <1>1, <2>1 DEF Detached
  <1>13. \A c \in Children : \A p \in Parents :
           Orphan(child'[c], p) => del[r].own[c] = D!NoRow /\ child'[c] = child[c] /\ Orphan(D!Seen(r)[c], p)
    <2>1. SUFFICES ASSUME NEW c \in Children, NEW p \in Parents, Orphan(child'[c], p)
                   PROVE  del[r].own[c] = D!NoRow /\ child'[c] = child[c] /\ Orphan(D!Seen(r)[c], p)
      OBVIOUS
    <2>2. del[r].own[c].state # "removed"
      BY <1>4, <2>1 DEF D!NoRow, Orphan
    <2>3. del[r].own[c] = D!NoRow
      BY <1>1, <1>4, <2>1, <2>2 DEF Detached, Orphan, D!NoRef, D!ReferencesAssumption
    <2>4. QED
      BY <1>4, <1>7, <2>1, <2>2, <2>3
  <1>14. Swept'
    <2>1. SUFFICES ASSUME NEW q \in Deletes, del'[q].pc \in {"new", "refs"}
                   PROVE  /\ del'[q].pc = "new" => del'[q].next = 1
                          /\ \A c \in Children \ raced' : \A i \in 1..(del'[q].next - 1) :
                               Matters(i, c) => ~Orphan(D!Seen(q)[c]', del'[q].parent)
      BY DEF Swept, Matters, Orphan
    <2>2. q # r /\ del'[q] = del[q]
      BY <1>10, <2>1
    <2>3. del[q].parent \in Parents
      BY <1>2 DEF Progress
    <2>4. \A c \in Children : Orphan(D!Seen(q)[c]', del[q].parent) => Orphan(D!Seen(q)[c], del[q].parent)
      <3>1. SUFFICES ASSUME NEW c \in Children, Orphan(D!Seen(q)[c]', del[q].parent)
                     PROVE  Orphan(D!Seen(q)[c], del[q].parent)
        OBVIOUS
      <3>2. D!Seen(q)[c]' = IF del[q].own[c] = D!NoRow THEN child'[c] ELSE del[q].own[c]
        BY <2>2 DEF D!Seen
      <3>3. D!Seen(q)[c] = IF del[q].own[c] = D!NoRow THEN child[c] ELSE del[q].own[c]
        BY DEF D!Seen
      <3>4. CASE del[q].own[c] = D!NoRow
        <4>1. child'[c] = child[c]
          BY <1>13, <2>3, <3>1, <3>2, <3>4
        <4>2. QED
          BY <3>1, <3>2, <3>3, <3>4, <4>1
      <3>5. CASE del[q].own[c] # D!NoRow
        BY <3>1, <3>2, <3>3, <3>5
      <3>6. QED
        BY <3>4, <3>5
    <2>5. QED
      BY <1>1, <1>4, <2>1, <2>2, <2>4 DEF Swept
  <1>15. CheckedLate'
    <2>1. \A a \in Adds : a.parent \in Parents
      BY DEF D!ReferencesAssumption
    <2>2. \A a \in Adds : add'[a] = "checked" => parent'[a.parent] = "live" \/ a.child \in raced'
      BY <1>1, <1>4, <2>1 DEF CheckedLate, ReferencesTyped
    <2>3. QED
      BY <2>2 DEF CheckedLate
  <1>16. D!OrphansRaced'
    <2>1. SUFFICES ASSUME NEW c \in Children, NEW p \in Parents, Orphan(child'[c], p), D!Governed(c), parent'[p] # "live"
                   PROVE  c \in raced'
      BY DEF D!OrphansRaced, D!Governed, Orphan
    <2>2. del[r].own[c] = D!NoRow /\ child'[c] = child[c] /\ Orphan(D!Seen(r)[c], p)
      BY <1>13, <2>1
    <2>3. CASE p = del[r].parent
      <3>1. PICK i \in 1..Len(Refs) : Matters(i, c)
        BY <2>1 DEF D!Governed, Matters
      <3>2. i \in 1..(del[r].next - 1)
        BY <1>2, <1>3, <1>4, <3>1
      <3>3. c \in raced
        BY <1>1, <1>4, <2>2, <2>3, <3>1, <3>2 DEF Swept
      <3>4. QED
        BY <1>4, <3>3
    <2>4. CASE p # del[r].parent
      <3>1. parent[p] # "live"
        BY <1>1, <1>4, <2>1, <2>4 DEF ReferencesTyped
      <3>2. c \in raced
        BY <1>1, <2>1, <2>2, <3>1 DEF D!OrphansRaced, Orphan
      <3>3. QED
        BY <1>4, <3>2
    <2>5. QED
      BY <2>3, <2>4
  <1>17. QED
    BY <1>11, <1>12, <1>14, <1>15, <1>16 DEF ReferencesInv

\* A child is written for a live parent, or marked.
LEMMA InsertChildKeeps ==
  ASSUME ReferencesInv, D!ReferencesAssumption, NEW a \in Adds, D!InsertChild(a)
  PROVE  ReferencesInv'
  <1>1. ReferencesTyped /\ Detached /\ Swept /\ CheckedLate /\ D!OrphansRaced
    BY DEF ReferencesInv
  <1>2. a.child \in Children /\ a.parent \in Parents /\ a.checked \in BOOLEAN
    BY DEF D!ReferencesAssumption
  <1>3. /\ add[a] = (IF a.checked THEN "checked" ELSE "new")
        /\ child' = [child EXCEPT ![a.child] = D!Row(a.parent)]
        /\ add' = [add EXCEPT ![a] = "done"]
        /\ raced' = IF D!RowHolder(a.parent) # {} \/ ~a.checked THEN raced \cup {a.child} ELSE raced
        /\ parent' = parent /\ del' = del
    BY DEF D!InsertChild
  <1>4. raced \subseteq raced'
    BY <1>3
  <1>5. D!Row(a.parent) \in Rows({"none", "live", "deleted"})
    BY <1>2 DEF D!Row, Rows
  <1>6. ReferencesTyped'
    BY <1>1, <1>2, <1>3, <1>5 DEF ReferencesTyped
  <1>7. Detached'
    BY <1>1, <1>3 DEF Detached
  <1>8. child'[a.child] = D!Row(a.parent) /\ \A c \in Children : c # a.child => child'[c] = child[c]
    BY <1>1, <1>2, <1>3 DEF ReferencesTyped
  <1>9. Swept'
    <2>1. SUFFICES ASSUME NEW q \in Deletes, del[q].pc \in {"new", "refs"}
                   PROVE  /\ del[q].pc = "new" => del[q].next = 1
                          /\ \A c \in Children \ raced' : \A i \in 1..(del[q].next - 1) :
                               Matters(i, c) => ~Orphan(D!Seen(q)[c]', del[q].parent)
      BY <1>3 DEF Swept, Matters, Orphan
    <2>2. del[q].pc = "new" => del[q].next = 1
      BY <1>1, <2>1 DEF Swept
    <2>3. SUFFICES ASSUME NEW c \in Children \ raced', NEW i \in 1..(del[q].next - 1), Matters(i, c),
                          Orphan(D!Seen(q)[c]', del[q].parent)
                   PROVE  FALSE
      BY <2>2
    <2>4. ~Orphan(D!Seen(q)[c], del[q].parent)
      BY <1>1, <1>4, <2>1, <2>3 DEF Swept
    <2>5. D!Seen(q)[c]' = (IF del[q].own[c] = D!NoRow THEN child'[c] ELSE del[q].own[c])
      BY <1>3 DEF D!Seen
    <2>6. D!Seen(q)[c] = (IF del[q].own[c] = D!NoRow THEN child[c] ELSE del[q].own[c])
      BY DEF D!Seen
    <2>7. c = a.child /\ D!Seen(q)[c]' = D!Row(a.parent)
      BY <1>8, <2>3, <2>4, <2>5, <2>6
    <2>8. a.parent = del[q].parent
      BY <2>3, <2>7 DEF Orphan, D!Row
    <2>9. del[q].next # 1
      BY <2>3
    <2>10. q \in D!RowHolder(a.parent)
      BY <2>1, <2>2, <2>8, <2>9 DEF D!RowHolder
    <2>11. QED
      BY <1>3, <2>3, <2>7, <2>10
  <1>10. CheckedLate'
    BY <1>1, <1>3, <1>4 DEF CheckedLate, ReferencesTyped
  <1>11. D!OrphansRaced'
    <2>1. SUFFICES ASSUME NEW c \in Children, child'[c].state = "live", D!Governed(c), child'[c].ref \in Parents,
                          parent[child'[c].ref] # "live"
                   PROVE  c \in raced'
      BY <1>3 DEF D!OrphansRaced, D!Governed
    <2>2. CASE c = a.child
      <3>1. child'[c].ref = a.parent
        BY <1>8, <2>2 DEF D!Row
      <3>2. CASE a.checked
        BY <1>1, <1>3, <1>4, <2>1, <2>2, <3>1, <3>2 DEF CheckedLate
      <3>3. CASE ~a.checked
        BY <1>3, <2>2, <3>3
      <3>4. QED
        BY <3>2, <3>3
    <2>3. CASE c # a.child
      BY <1>1, <1>4, <1>8, <2>1, <2>3 DEF D!OrphansRaced
    <2>4. QED
      BY <2>2, <2>3
  <1>12. QED
    BY <1>6, <1>7, <1>9, <1>10, <1>11 DEF ReferencesInv

\* Looking a parent up changes only what is known of it.
LEMMA CheckKeeps ==
  ASSUME ReferencesInv, D!ReferencesAssumption, NEW a \in Adds, D!Check(a) \/ D!CheckFails(a)
  PROVE  ReferencesInv'
  <1>1. ReferencesTyped /\ Detached /\ Swept /\ CheckedLate /\ D!OrphansRaced
    BY DEF ReferencesInv
  <1>2. PICK to \in {"checked", "refused"} :
          /\ add' = [add EXCEPT ![a] = to] /\ (to = "checked" => parent[a.parent] = "live")
          /\ UNCHANGED <<parent, child, del, raced>>
    BY DEF D!Check, D!CheckFails
  <1>3. ReferencesTyped'
    BY <1>1, <1>2 DEF ReferencesTyped
  <1>4. CheckedLate'
    BY <1>1, <1>2 DEF CheckedLate, ReferencesTyped
  <1>5. Detached' /\ Swept' /\ D!OrphansRaced'
    BY <1>1, <1>2 DEF Detached, Swept, Matters, Orphan, D!Seen, D!OrphansRaced, D!Governed
  <1>6. QED
    BY <1>3, <1>4, <1>5 DEF ReferencesInv

LEMMA ReferencesNext ==
  ASSUME ReferencesInv, D!ReferencesAssumption, [D!Next]_references
  PROVE  ReferencesInv'
  <1>1. ASSUME NEW r \in Deletes, D!RemoveParent(r) \/ D!Reference(r) \/ D!ReferenceFails(r) \/ D!CommitDelete(r)
        PROVE  ReferencesInv'
    <2>1. CASE D!RemoveParent(r)
      BY <2>1, ProgressOnly DEF D!RemoveParent
    <2>2. CASE D!Reference(r)
      <3>1. CASE D!Allowed(r, Refs[del[r].next])
        BY <2>2, <3>1, ReferenceSweeps
      <3>2. CASE ~D!Allowed(r, Refs[del[r].next])
        BY <2>2, <3>2, ProgressOnly DEF D!Reference
      <3>3. QED
        BY <3>1, <3>2
    <2>3. CASE D!ReferenceFails(r)
      BY <2>3, ProgressOnly DEF D!ReferenceFails
    <2>4. CASE D!CommitDelete(r)
      BY <2>4, CommitDeleteKeeps
    <2>5. QED
      BY <1>1, <2>1, <2>2, <2>3, <2>4
  <1>2. ASSUME NEW a \in Adds, D!Check(a) \/ D!CheckFails(a) \/ D!InsertChild(a)
        PROVE  ReferencesInv'
    BY <1>2, CheckKeeps, InsertChildKeeps
  <1>3. CASE UNCHANGED references
    BY <1>3 DEF references, ReferencesInv, ReferencesTyped, Detached, Swept, Matters, Orphan, CheckedLate,
       D!Seen, D!OrphansRaced, D!Governed
  <1>4. QED
    BY <1>1, <1>2, <1>3 DEF D!Next

----------------------------------------------------------------------------
(* Paging *)

StoredRow == [key : SortValues \cup {Null}, live : BOOLEAN]

PageTyped ==
  /\ table \in [Ids -> StoredRow] /\ ask \in Asks /\ nullLargest \in BOOLEAN
  /\ pageNumber \in Nat \ {0} /\ shown \in Seq(Ids) /\ touched \in SUBSET Ids

\* A cursor has a number for each key.
Pointed(c) == c # <<>> => \A i \in DOMAIN P!SortKeys : c[i] \in Int /\ c[i] # Null

\* A row beyond a cursor.
Past(id, c) ==
  \E i \in DOMAIN P!SortKeys :
    /\ P!ValueOf(id, P!SortKeys[i].col) # Null
    /\ P!Beyond(P!ValueOf(id, P!SortKeys[i].col), c[i], P!SortKeys[i].asc)
    /\ \A j \in DOMAIN P!SortKeys : j < i => P!ValueOf(id, P!SortKeys[j].col) = c[j]

Delivered(id) == \E i \in 1..Len(shown) : shown[i] = id

Forward ==
  ask.mode = "after" =>
    /\ pageNumber = 1 /\ Pointed(cursor)
    /\ reading /\ cursor = <<>> => shown = <<>>
    /\ "unordered" \notin doubts => \A id \in P!Untouched :
         /\ \A i, j \in 1..Len(shown) : shown[i] = id /\ shown[j] = id => i = j
         /\ cursor # <<>> => \A i \in 1..Len(shown) : shown[i] = id => ~Past(id, cursor)
         /\ doubts = {} =>
              \/ Delivered(id) \/ P!OutOfReach(id)
              \/ reading /\ (cursor # <<>> => Past(id, cursor))

\* The pages by number so far are the first rows of the order.
ByNumber ==
  ask.mode = "page" =>
    /\ cursor = <<>>
    /\ touched = {} /\ doubts = {} /\ P!Unique =>
         /\ \A i, j \in 1..Len(shown) : shown[i] = shown[j] => i = j
         /\ \A i \in 1..Len(shown) : shown[i] \in P!Matching
         /\ \A r \in P!Matching : Delivered(r) \/ \A i \in 1..Len(shown) : ~P!Before(r, shown[i])
         /\ IF reading THEN Len(shown) = (pageNumber - 1) * P!Limit ELSE \A r \in P!Matching : Delivered(r)

PagingInv == PageTyped /\ Forward /\ ByNumber

----------------------------------------------------------------------------

LEMMA PagingInit == P!PagingAssumption /\ P!Init => PagingInv
  <1> SUFFICES ASSUME P!PagingAssumption, P!Init PROVE PagingInv
    OBVIOUS
  <1> USE DEF P!Init
  <1>1. PageTyped
    BY DEF PageTyped, P!PagingAssumption, StoredRow
  <1>2. shown = <<>> /\ Len(shown) = 0 /\ pageNumber = 1 /\ cursor = <<>> /\ reading = TRUE
    OBVIOUS
  <1>3. Forward
    BY <1>2 DEF Forward, Pointed
  <1>4. P!Limit \in Nat
    BY DEF P!Limit, P!PagingAssumption
  <1>5. ByNumber
    <2>1. 0 = (1 - 1) * P!Limit
      BY <1>4
    <2>2. QED
      BY <1>2, <2>1 DEF ByNumber
  <1>6. QED
    BY <1>1, <1>3, <1>5 DEF PagingInv

LEMMA LimitTyped ==
  ASSUME P!PagingAssumption, PageTyped
  PROVE  P!Limit \in Nat \ {0}
  <1>1. ask.limit \in Nat
    BY DEF PageTyped, P!PagingAssumption
  <1>2. QED
    BY <1>1 DEF P!Limit, P!PagingAssumption

LEMMA SortTyped ==
  ASSUME P!PagingAssumption, PageTyped
  PROVE  /\ DOMAIN P!SortKeys \subseteq Nat /\ DOMAIN P!SortKeys # {}
         /\ \A i \in DOMAIN P!SortKeys : P!SortKeys[i].asc \in BOOLEAN
  <1> DEFINE tokens == P!Token
  <1>1. \A t \in tokens : t.asc \in BOOLEAN
    BY DEF tokens, P!Token
  <1> HIDE DEF tokens
  <1>2. ask.sort \in Seq(tokens) /\ OrderBy \in Seq(tokens)
    BY DEF PageTyped, P!PagingAssumption, tokens
  <1>3. /\ DOMAIN ask.sort \subseteq Nat /\ \A i \in DOMAIN ask.sort : ask.sort[i] \in tokens
        /\ DOMAIN OrderBy \subseteq Nat /\ \A i \in DOMAIN OrderBy : OrderBy[i] \in tokens
    BY <1>2
  <1>4. DOMAIN P!Sort \subseteq Nat /\ \A i \in DOMAIN P!Sort : P!Sort[i].asc \in BOOLEAN
    BY <1>1, <1>3 DEF P!Sort, P!Known
  <1>5. DOMAIN P!PrimaryKey = {1} /\ P!PrimaryKey[1].asc = TRUE
    <2> DEFINE first == [col |-> "id", asc |-> TRUE]
    <2>1. \A x : DOMAIN <<x>> = {1} /\ <<x>>[1] = x
      OBVIOUS
    <2>2. P!PrimaryKey = <<first>> /\ first.asc = TRUE
      BY DEF P!PrimaryKey
    <2> HIDE DEF first
    <2>3. QED
      BY <2>1, <2>2
  <1>6. \/ DOMAIN P!Sort # {} /\ P!SortKeys = P!Sort
        \/ P!SortKeys = P!PrimaryKey
    BY DEF P!SortKeys
  <1>7. DOMAIN P!PrimaryKey \subseteq Nat /\ \A i \in DOMAIN P!PrimaryKey : P!PrimaryKey[i].asc \in BOOLEAN
    <2>1. \A i \in {1} : P!PrimaryKey[i].asc \in BOOLEAN
      BY <1>5
    <2>2. QED
      BY <1>5, <2>1
  <1>8. QED
    BY <1>4, <1>5, <1>6, <1>7

\* The value of a row in a column is NULL or a number.
LEMMA ValueTyped ==
  ASSUME P!PagingAssumption, PageTyped, NEW id \in Ids, NEW col
  PROVE  P!ValueOf(id, col) # Null => P!ValueOf(id, col) \in Int
  BY DEF P!ValueOf, PageTyped, StoredRow, P!PagingAssumption

\* A row before a cursor is before every later one.
LEMMA PastEarlier ==
  ASSUME P!PagingAssumption, PageTyped, NEW id \in Ids, NEW c, NEW d, Pointed(c), Pointed(d), c # <<>>, d # <<>>,
         NEW l \in Ids, \A i \in DOMAIN P!SortKeys : d[i] = P!ValueOf(l, P!SortKeys[i].col),
         Past(l, c), Past(id, d)
  PROVE  Past(id, c)
  <1> DEFINE K == DOMAIN P!SortKeys
             val(i) == P!ValueOf(id, P!SortKeys[i].col)
             asc(i) == P!SortKeys[i].asc
  <1>1. K \subseteq Nat /\ \A i \in K : c[i] \in Int /\ d[i] \in Int /\ d[i] # Null
    BY SortTyped DEF Pointed
  <1>2. \A i \in K : val(i) # Null => val(i) \in Int
    BY ValueTyped
  <1>3. PICK k \in K : P!Beyond(d[k], c[k], asc(k)) /\ \A j \in K : j < k => d[j] = c[j]
    BY DEF Past
  <1>4. PICK i \in K : val(i) # Null /\ P!Beyond(val(i), d[i], asc(i)) /\ \A j \in K : j < i => val(j) = d[j]
    BY DEF Past
  <1>5. SUFFICES \E m \in K : val(m) # Null /\ P!Beyond(val(m), c[m], asc(m)) /\ \A j \in K : j < m => val(j) = c[j]
    BY DEF Past
  <1> HIDE DEF K, val, asc
  <1>6. i \in Nat /\ k \in Nat /\ \A j \in K : j \in Nat
    BY <1>1
  <1>7. CASE i < k
    <2>1. P!Beyond(val(i), c[i], asc(i)) /\ \A j \in K : j < i => val(j) = c[j]
      BY <1>3, <1>4, <1>6, <1>7
    <2>2. QED
      BY <1>4, <2>1
  <1>8. CASE i = k
    <2>1. P!Beyond(val(i), c[i], asc(i))
      BY <1>1, <1>2, <1>3, <1>4, <1>8 DEF P!Beyond
    <2>2. QED
      BY <1>3, <1>4, <1>8, <2>1
  <1>9. CASE k < i
    <2>1. val(k) = d[k] /\ val(k) # Null
      BY <1>1, <1>4, <1>9
    <2>2. P!Beyond(val(k), c[k], asc(k)) /\ \A j \in K : j < k => val(j) = c[j]
      BY <1>3, <1>4, <1>6, <1>9, <2>1
    <2>3. QED
      BY <2>1, <2>2
  <1>10. QED
    BY <1>6, <1>7, <1>8, <1>9

\* A row beyond the keys of another is behind it in the order.
LEMMA PastBehind ==
  ASSUME P!PagingAssumption, PageTyped, NEW id \in Ids, NEW l \in Ids, NEW d, Pointed(d), d # <<>>,
         \A i \in DOMAIN P!SortKeys : d[i] = P!ValueOf(l, P!SortKeys[i].col),
         Past(id, d), P!Ordering = P!SortKeys
  PROVE  P!Before(l, id)
  <1>1. PICK i \in DOMAIN P!SortKeys :
          /\ P!ValueOf(id, P!SortKeys[i].col) # Null
          /\ P!Beyond(P!ValueOf(id, P!SortKeys[i].col), d[i], P!SortKeys[i].asc)
          /\ \A j \in DOMAIN P!SortKeys : j < i => P!ValueOf(id, P!SortKeys[j].col) = d[j]
    BY DEF Past
  <1>2. d[i] \in Int /\ d[i] # Null /\ P!ValueOf(id, P!SortKeys[i].col) \in Int
    BY <1>1, ValueTyped DEF Pointed
  <1>3. QED
    BY <1>1, <1>2 DEF P!Before, P!Below, P!Beyond

\* Rows with other keys than one without NULL are before it or beyond it, or
\* have a NULL themselves.
LEMMA PastOrBefore ==
  ASSUME P!PagingAssumption, PageTyped, NEW id \in Ids, NEW l \in Ids, NEW d, Pointed(d), d # <<>>,
         \A i \in DOMAIN P!SortKeys : d[i] = P!ValueOf(l, P!SortKeys[i].col),
         \A i \in DOMAIN P!SortKeys : P!ValueOf(id, P!SortKeys[i].col) # Null,
         \E i \in DOMAIN P!SortKeys : P!ValueOf(id, P!SortKeys[i].col) # d[i],
         P!Ordering = P!SortKeys
  PROVE  Past(id, d) \/ P!Before(id, l)
  <1> DEFINE differ == {i \in DOMAIN P!SortKeys : P!ValueOf(id, P!SortKeys[i].col) # d[i]}
  <1>1. differ \in SUBSET Nat /\ differ # {}
    BY SortTyped
  <1>2. PICK i \in differ : \A j \in differ : i <= j
    <2> HIDE DEF differ
    <2>1. QED
      BY <1>1, Smallest
  <1>3. \A j \in DOMAIN P!SortKeys : j < i => P!ValueOf(id, P!SortKeys[j].col) = d[j]
    BY <1>2, SortTyped
  <1>4. d[i] \in Int /\ d[i] # Null /\ P!ValueOf(id, P!SortKeys[i].col) \in Int /\ P!SortKeys[i].asc \in BOOLEAN
    BY ValueTyped, SortTyped DEF Pointed
  <1>5. QED
    BY <1>2, <1>3, <1>4 DEF Past, P!Before, P!Below, P!Beyond

\* With the primary key among its keys the order tells all rows apart.
LEMMA Total ==
  ASSUME P!PagingAssumption, PageTyped, NEW a \in Ids, NEW b \in Ids, a # b, P!Unique, P!Ordering = P!SortKeys
  PROVE  P!Before(a, b) \/ P!Before(b, a)
  <1> DEFINE differ == {i \in DOMAIN P!SortKeys : P!ValueOf(a, P!SortKeys[i].col) # P!ValueOf(b, P!SortKeys[i].col)}
  <1>1. differ \in SUBSET Nat
    BY SortTyped
  <1>2. differ # {}
    BY DEF P!Unique, P!ValueOf
  <1>3. PICK i \in differ : \A j \in differ : i <= j
    <2> HIDE DEF differ
    <2>1. QED
      BY <1>1, <1>2, Smallest
  <1>4. \A j \in DOMAIN P!SortKeys : j < i => P!ValueOf(a, P!SortKeys[j].col) = P!ValueOf(b, P!SortKeys[j].col)
    BY <1>3, SortTyped
  <1>5. /\ P!ValueOf(a, P!SortKeys[i].col) # Null => P!ValueOf(a, P!SortKeys[i].col) \in Int
        /\ P!ValueOf(b, P!SortKeys[i].col) # Null => P!ValueOf(b, P!SortKeys[i].col) \in Int
    BY ValueTyped
  <1>6. P!ValueOf(a, P!SortKeys[i].col) # P!ValueOf(b, P!SortKeys[i].col)
    BY <1>3
  <1> DEFINE v == P!ValueOf(a, P!SortKeys[i].col)
             w == P!ValueOf(b, P!SortKeys[i].col)
  <1>7. P!Below(v, w) \/ P!Below(w, v)
    BY <1>5, <1>6 DEF P!Below
  <1>8. QED
    BY <1>3, <1>4, <1>7 DEF P!Before

----------------------------------------------------------------------------

LEMMA SamePages == \A S : (P!IsFiniteSet(S) <=> IsFiniteSet(S)) /\ P!Cardinality(S) = Cardinality(S)
  BY DEF P!IsFiniteSet, IsFiniteSet, P!Cardinality, Cardinality

LEMMA MatchingFinite ==
  ASSUME P!PagingAssumption
  PROVE  P!Matching \subseteq Ids /\ IsFiniteSet(P!Matching) /\ Cardinality(P!Matching) \in Nat
  <1>1. P!Matching \in SUBSET Ids /\ IsFiniteSet(Ids)
    BY SamePages DEF P!Matching, P!PagingAssumption
  <1>2. IsFiniteSet(P!Matching)
    BY <1>1, FS_Subset
  <1>3. QED
    BY <1>1, <1>2, FS_CardinalityType

LEMMA OffsetTyped ==
  ASSUME P!PagingAssumption, PageTyped
  PROVE  P!Offset \in Nat /\ (pageNumber = 1 => P!Offset = 0)
  <1> DEFINE p == IF cursor # <<>> \/ pageNumber > MaxInt THEN 1 ELSE pageNumber
             w == 2 * (MaxInt + 1)
  <1>1. P!Limit \in Nat /\ MaxInt \in Nat /\ p \in Nat \ {0} /\ (pageNumber = 1 => p = 1)
    BY LimitTyped DEF PageTyped, P!PagingAssumption
  <1>2. (p - 1) * P!Limit \in Int /\ (p = 1 => (p - 1) * P!Limit = 0)
    <2>1. \A a, b \in Int : a * b \in Int /\ 0 * b = 0
      OBVIOUS
    <2>2. p - 1 \in Int /\ P!Limit \in Int /\ (p = 1 => p - 1 = 0)
      BY <1>1
    <2>3. QED
      BY <2>1, <2>2
  <1> DEFINE n == (p - 1) * P!Limit
  <1> HIDE DEF p
  <1>3. w \in Nat /\ w > 0 /\ \A a \in Int : a % w \in Int
    BY <1>1
  <1>4. P!Wrapped(n) \in Int
    <2>1. n + MaxInt + 1 \in Int
      BY <1>1, <1>2
    <2>2. (n + MaxInt + 1) % w \in Int
      BY <1>3, <2>1
    <2>3. QED
      BY <1>1, <2>2 DEF P!Wrapped
  <1>5. p = 1 => P!Wrapped(n) = 0
    <2>1. \A a, b \in Nat : a < b => a % b = a
      OBVIOUS
    <2>2. (MaxInt + 1) % w = MaxInt + 1
      BY <1>1, <1>3, <2>1
    <2>3. QED
      BY <1>1, <1>2, <2>2 DEF P!Wrapped
  <1>6. P!Offset = IF P!Wrapped(n) < 0 THEN 0 ELSE P!Wrapped(n)
    BY DEF P!Offset, p
  <1>7. QED
    BY <1>1, <1>4, <1>5, <1>6

LEMMA CutLimit ==
  ASSUME NEW S, NEW n \in Nat, NEW s \in [1..n -> S], NEW k \in Nat, NEW t, t = SubSeq(s, k + 1, n)
  PROVE  /\ t \in Seq(S) /\ Len(t) = IF k < n THEN n - k ELSE 0
         /\ \A i \in 1..Len(t) : t[i] = s[k + i]
  <1>1. s \in Seq(S) /\ Len(s) = n
    OBVIOUS
  <1>2. Len(t) = IF k < n THEN n - k ELSE 0
    BY <1>1
  <1>3. \A i \in 1..Len(t) : t[i] = s[k + i]
    BY <1>1, <1>2
  <1>4. t \in Seq(S)
    BY <1>1, <1>2, <1>3
  <1>5. QED
    BY <1>2, <1>3, <1>4

\* An answer is what is left, behind the offset, of distinct rows in order; the
\* rest is behind them, and there is none if the page is not full.
LEMMA AnswerIs ==
  ASSUME P!PagingAssumption, PageTyped, NEW rows \in P!Answers
  PROVE  \E s \in Seq(P!Matching) :
           /\ Len(s) = P!Least(Cardinality(P!Matching), P!Offset + P!Limit)
           /\ rows \in Seq(P!Matching) /\ Len(rows) = IF P!Offset < Len(s) THEN Len(s) - P!Offset ELSE 0
           /\ \A i \in 1..Len(rows) : rows[i] = s[P!Offset + i]
           /\ \A i, j \in 1..Len(s) : i < j => s[i] # s[j] /\ ~P!Before(s[j], s[i])
           /\ \A r \in P!Matching :
                \/ \E i \in 1..Len(s) : s[i] = r
                \/ Len(s) = P!Offset + P!Limit /\ \A i \in 1..Len(s) : ~P!Before(r, s[i])
  <1> DEFINE size == Cardinality(P!Matching)
             n == P!Least(size, P!Offset + P!Limit)
  <1>1. size \in Nat /\ P!Offset \in Nat /\ P!Limit \in Nat \ {0}
    BY MatchingFinite, OffsetTyped, LimitTyped
  <1> HIDE DEF size
  <1>2. n \in Nat /\ (n = size \/ n = P!Offset + P!Limit)
    BY <1>1 DEF P!Least
  <1>3. P!Answers = {SubSeq(s, P!Offset + 1, n) : s \in P!Firsts(P!Matching, n)}
    BY SamePages DEF P!Answers, size
  <1> HIDE DEF n
  <1>4. PICK s \in P!Firsts(P!Matching, n) : rows = SubSeq(s, P!Offset + 1, n)
    BY <1>3
  <1>5. /\ s \in [1..n -> P!Matching]
        /\ \A i, j \in 1..n : i < j => s[i] # s[j] /\ ~P!Before(s[j], s[i])
        /\ \A r \in P!Matching \ {s[i] : i \in 1..n} : \A i \in 1..n : ~P!Before(r, s[i])
    BY <1>4 DEF P!Firsts
  <1>6. /\ rows \in Seq(P!Matching) /\ Len(rows) = IF P!Offset < n THEN n - P!Offset ELSE 0
        /\ \A i \in 1..Len(rows) : rows[i] = s[P!Offset + i]
        /\ s \in Seq(P!Matching) /\ Len(s) = n
    <2> DEFINE k == P!Offset
               set == P!Matching
    <2>1. n \in Nat /\ k \in Nat /\ s \in [1..n -> set] /\ rows = SubSeq(s, k + 1, n)
      BY <1>1, <1>2, <1>4, <1>5
    <2> HIDE DEF k, set
    <2>2. /\ rows \in Seq(set) /\ Len(rows) = IF k < n THEN n - k ELSE 0
          /\ \A i \in 1..Len(rows) : rows[i] = s[k + i]
      BY <2>1, CutLimit
    <2>3. s \in Seq(set) /\ Len(s) = n
      BY <2>1
    <2>4. QED
      BY <2>2, <2>3 DEF k, set
  <1>7. CASE n = size
    <2>1. s \in Injection(1..n, P!Matching)
      <3>1. \A i, j \in 1..n : i < j \/ j < i \/ i = j
        BY <1>2
      <3>2. QED
        BY <1>5, <3>1 DEF Injection, IsInjective
    <2>2. Cardinality(1..n) = Cardinality(P!Matching)
      BY <1>2, <1>7, FS_Interval DEF size
    <2>3. s \in Surjection(1..n, P!Matching)
      BY <2>1, <2>2, MatchingFinite, FS_Injection
    <2>4. \A r \in P!Matching : \E i \in 1..n : s[i] = r
      BY <2>3 DEF Surjection
    <2>5. QED
      BY <1>2, <1>6, <1>5, <2>4 DEF n, size
  <1>8. CASE n = P!Offset + P!Limit
    <2>1. \A r \in P!Matching : (\E i \in 1..n : s[i] = r) \/ \A i \in 1..n : ~P!Before(r, s[i])
      BY <1>5
    <2>2. QED
      BY <1>2, <1>6, <1>5, <1>8, <2>1 DEF n, size
  <1>9. QED
    BY <1>2, <1>7, <1>8

\* The first page.
LEMMA FirstPage ==
  ASSUME P!PagingAssumption, PageTyped, P!Offset = 0, NEW rows \in P!Answers
  PROVE  /\ rows \in Seq(P!Matching) /\ Len(rows) <= P!Limit
         /\ \A i, j \in 1..Len(rows) : i < j => rows[i] # rows[j] /\ ~P!Before(rows[j], rows[i])
         /\ \A r \in P!Matching :
              \/ \E i \in 1..Len(rows) : rows[i] = r
              \/ Len(rows) = P!Limit /\ \A i \in 1..Len(rows) : ~P!Before(r, rows[i])
  <1>1. PICK s \in Seq(P!Matching) :
           /\ Len(s) = P!Least(Cardinality(P!Matching), P!Offset + P!Limit)
           /\ rows \in Seq(P!Matching) /\ Len(rows) = IF P!Offset < Len(s) THEN Len(s) - P!Offset ELSE 0
           /\ \A i \in 1..Len(rows) : rows[i] = s[P!Offset + i]
           /\ \A i, j \in 1..Len(s) : i < j => s[i] # s[j] /\ ~P!Before(s[j], s[i])
           /\ \A r \in P!Matching :
                \/ \E i \in 1..Len(s) : s[i] = r
                \/ Len(s) = P!Offset + P!Limit /\ \A i \in 1..Len(s) : ~P!Before(r, s[i])
    BY AnswerIs
  <1>2. Len(s) <= P!Limit /\ P!Limit \in Nat
    BY <1>1, LimitTyped, MatchingFinite DEF P!Least
  <1>3. Len(rows) = Len(s) /\ \A i \in 1..Len(rows) : rows[i] = s[i]
    BY <1>1
  <1>4. QED
    BY <1>1, <1>2, <1>3


----------------------------------------------------------------------------

\* What the pages are made from stays as it is.
LEMMA SamePage ==
  ASSUME UNCHANGED <<table, ask, nullLargest>>
  PROVE  /\ P!SortKeys' = P!SortKeys /\ P!Limit' = P!Limit /\ (P!Unique <=> P!Unique')
         /\ \A id, col : P!ValueOf(id, col)' = P!ValueOf(id, col)
         /\ \A id, c : Past(id, c)' <=> Past(id, c)
         /\ \A c : Pointed(c)' <=> Pointed(c)
  BY DEF P!SortKeys, P!Sort, P!Known, P!Limit, P!ValueOf, Past, Pointed, P!Beyond, P!Unique, P!PrimaryKey

\* The cursor of a page is the keys of its last row, all of them numbers.
LEMMA CursorIs ==
  ASSUME P!PagingAssumption, PageTyped, NEW id \in Ids, P!CursorAfter(id) # <<>>
  PROVE  /\ Pointed(P!CursorAfter(id)) /\ P!CursorAfter(id) = P!KeysOf(id)
         /\ \A i \in DOMAIN P!SortKeys : P!CursorAfter(id)[i] = P!ValueOf(id, P!SortKeys[i].col)
  BY ValueTyped DEF P!CursorAfter, P!KeysOf, Pointed

LEMMA PassesPast ==
  ASSUME NEW id
  PROVE  P!Passes(id) <=> Past(id, cursor)
  BY DEF P!Passes, Past

LEMMA NotBeforeItself ==
  ASSUME P!PagingAssumption, PageTyped, NEW id \in Ids
  PROVE  ~P!Before(id, id)
  BY ValueTyped DEF P!Before, P!Below

\* How a page by cursor was read.
LEMMA ReadAfter ==
  ASSUME P!PagingAssumption, PageTyped, Forward, P!ReadPage, ask.mode = "after"
  PROVE  \E rows \in P!Answers :
           /\ shown' = shown \o rows /\ doubts' = doubts \cup P!Doubts(Len(rows) >= P!Limit, cursor')
           /\ ends' = ends \cup ({cursor'} \ {<<>>}) /\ pageNumber' = pageNumber /\ reading' = (cursor' # <<>>)
           /\ cursor' = IF Len(rows) >= P!Limit THEN P!CursorAfter(rows[Len(rows)]) ELSE <<>>
  BY DEF P!ReadPage

LEMMA ReadForward ==
  ASSUME P!PagingAssumption, PageTyped, Forward, P!ReadPage
  PROVE  Forward'
  <1> SUFFICES ASSUME ask.mode = "after" PROVE Forward'
    BY DEF P!ReadPage, Forward
  <1>1. PICK rows \in P!Answers :
          /\ shown' = shown \o rows /\ doubts' = doubts \cup P!Doubts(Len(rows) >= P!Limit, cursor')
          /\ ends' = ends \cup ({cursor'} \ {<<>>}) /\ pageNumber' = pageNumber /\ reading' = (cursor' # <<>>)
          /\ cursor' = IF Len(rows) >= P!Limit THEN P!CursorAfter(rows[Len(rows)]) ELSE <<>>
    BY ReadAfter
  <1>2. /\ pageNumber = 1 /\ Pointed(cursor) /\ reading
        /\ UNCHANGED <<table, ask, nullLargest, touched>>
        /\ cursor = <<>> => shown = <<>>
    BY DEF Forward, P!ReadPage
  <1>3. /\ P!SortKeys' = P!SortKeys /\ P!Untouched' = P!Untouched
        /\ \A id, c : Past(id, c)' <=> Past(id, c)
        /\ \A c : Pointed(c)' <=> Pointed(c)
    BY <1>2, SamePage DEF P!Untouched
  <1>4. P!Offset = 0 /\ P!Limit \in Nat \ {0} /\ P!Matching \subseteq Ids
    BY <1>2, OffsetTyped, LimitTyped, MatchingFinite
  <1>5. /\ rows \in Seq(P!Matching) /\ Len(rows) <= P!Limit
        /\ \A i, j \in 1..Len(rows) : i < j => rows[i] # rows[j] /\ ~P!Before(rows[j], rows[i])
        /\ \A r \in P!Matching :
             \/ \E i \in 1..Len(rows) : rows[i] = r
             \/ Len(rows) = P!Limit /\ \A i \in 1..Len(rows) : ~P!Before(r, rows[i])
    BY <1>4, FirstPage
  <1>6. shown \in Seq(Ids) /\ rows \in Seq(Ids)
    BY <1>4, <1>5 DEF PageTyped
  <1> DEFINE last == rows[Len(rows)]
  <1>7. ASSUME cursor' # <<>>
        PROVE  /\ Len(rows) \in 1..Len(rows) /\ last \in P!Matching /\ cursor' = P!KeysOf(last) /\ Pointed(cursor')
               /\ \A i \in DOMAIN P!SortKeys : cursor'[i] = P!ValueOf(last, P!SortKeys[i].col)
    <2>1. Len(rows) \in 1..Len(rows) /\ last \in P!Matching /\ cursor' = P!CursorAfter(last)
      BY <1>1, <1>4, <1>5, <1>7
    <2>2. QED
      BY <1>4, <1>7, <2>1, CursorIs
  <1>8. Pointed(cursor)'
    BY <1>3, <1>7 DEF Pointed
  <1>9. /\ Len(shown') = Len(shown) + Len(rows) /\ Len(shown) \in Nat /\ Len(rows) \in Nat
        /\ \A i \in 1..Len(shown) : i \in 1..Len(shown') /\ shown'[i] = shown[i]
        /\ \A i \in 1..Len(rows) : Len(shown) + i \in 1..Len(shown') /\ shown'[Len(shown) + i] = rows[i]
        /\ \A i \in 1..Len(shown') : i \in 1..Len(shown) \/ \E j \in 1..Len(rows) : i = Len(shown) + j
    BY <1>1, <1>6, Joined
  <1>10. ASSUME "unordered" \notin doubts', NEW id \in P!Untouched
         PROVE  /\ \A i, j \in 1..Len(shown') : shown'[i] = id /\ shown'[j] = id => i = j
                /\ cursor' # <<>> => \A i \in 1..Len(shown') : shown'[i] = id => ~Past(id, cursor')
                /\ doubts' = {} =>
                     \/ Delivered(id)' \/ P!OutOfReach(id)'
                     \/ reading' /\ (cursor' # <<>> => Past(id, cursor'))
    <2>1. /\ id \in Ids /\ table[id].live
          /\ "unordered" \notin doubts /\ "unordered" \notin P!Doubts(Len(rows) >= P!Limit, cursor')
      BY <1>1, <1>10 DEF P!Untouched
    <2>2. P!Ordering = P!SortKeys
      BY <2>1 DEF P!Doubts, P!Ordering, P!SortKeys
    <2>3. /\ \A i, j \in 1..Len(shown) : shown[i] = id /\ shown[j] = id => i = j
          /\ cursor # <<>> => \A i \in 1..Len(shown) : shown[i] = id => ~Past(id, cursor)
          /\ doubts = {} =>
               \/ Delivered(id) \/ P!OutOfReach(id)
               \/ reading /\ (cursor # <<>> => Past(id, cursor))
      BY <2>1, <1>10 DEF Forward
    <2>4. ASSUME NEW i \in 1..Len(shown), shown[i] = id
          PROVE  cursor # <<>> /\ ~Past(id, cursor)
      <3>1. cursor # <<>>
        BY <1>2, <2>4
      <3>2. QED
        BY <3>1, <2>3, <2>4
    <2>5. \A r \in P!Matching : cursor # <<>> => Past(r, cursor)
      BY PassesPast DEF P!Matching
    <2>6. ASSUME NEW i \in 1..Len(shown'), NEW j \in 1..Len(shown'), shown'[i] = id, shown'[j] = id
          PROVE  i = j
      <3>1. CASE i \in 1..Len(shown) /\ j \in 1..Len(shown)
        BY <1>9, <2>3, <2>6, <3>1
      <3>2. ~\E k \in 1..Len(shown), m \in 1..Len(rows) : shown[k] = id /\ rows[m] = id
        BY <1>5, <2>4, <2>5
      <3>3. ASSUME NEW k \in 1..Len(rows), NEW m \in 1..Len(rows), i = Len(shown) + k, j = Len(shown) + m
            PROVE  i = j
        <4>1. rows[k] = id /\ rows[m] = id
          BY <1>9, <2>6, <3>3
        <4>2. k = m
          BY <1>5, <1>9, <4>1
        <4>3. QED
          BY <3>3, <4>2
      <3>4. ASSUME NEW k \in 1..Len(rows), i = Len(shown) + k, j \in 1..Len(shown) PROVE FALSE
        BY <1>9, <2>6, <3>2, <3>4
      <3>5. ASSUME NEW m \in 1..Len(rows), j = Len(shown) + m, i \in 1..Len(shown) PROVE FALSE
        BY <1>9, <2>6, <3>2, <3>5
      <3>6. QED
        BY <1>9, <3>1, <3>3, <3>4, <3>5
    <2>7. ASSUME cursor' # <<>>, NEW i \in 1..Len(shown'), shown'[i] = id, Past(id, cursor') PROVE FALSE
      <3>1. CASE i \in 1..Len(shown)
        <4>1. cursor # <<>> /\ ~Past(id, cursor)
          BY <1>9, <2>4, <2>7, <3>1
        <4>2. Past(last, cursor) /\ last \in Ids
          BY <1>4, <1>7, <2>5, <2>7, <4>1
        <4>3. QED
          BY <1>2, <1>7, <2>1, <2>7, <4>1, <4>2, PastEarlier
      <3>2. ASSUME NEW j \in 1..Len(rows), i = Len(shown) + j PROVE FALSE
        <4>1. rows[j] = id
          BY <1>9, <2>7, <3>2
        <4>2. P!Before(last, id)
          BY <1>4, <1>7, <2>1, <2>2, <2>7, PastBehind
        <4>3. ~P!Before(last, rows[j])
          <5>1. CASE j = Len(rows)
            BY <2>1, <4>1, <5>1, NotBeforeItself
          <5>2. CASE j < Len(rows)
            BY <1>5, <1>7, <2>7, <5>2
          <5>3. QED
            BY <1>9, <5>1, <5>2
        <4>4. QED
          BY <4>1, <4>2, <4>3
      <3>3. QED
        BY <1>9, <3>1, <3>2
    <2>8. ASSUME doubts' = {}
          PROVE  \/ Delivered(id)' \/ P!OutOfReach(id)'
                 \/ reading' /\ (cursor' # <<>> => Past(id, cursor'))
      <3>1. doubts = {} /\ P!Doubts(Len(rows) >= P!Limit, cursor') = {}
        BY <1>1, <2>8
      <3>2. CASE Delivered(id)
        BY <1>9, <3>2 DEF Delivered
      <3>3. P!KeysOf(id)' = P!KeysOf(id) /\ ends \subseteq ends' /\ (cursor' # <<>> => cursor' \in ends')
        BY <1>1, <1>2, SamePage DEF P!KeysOf
      <3>4. CASE P!OutOfReach(id)
        BY <1>3, <3>3, <3>4 DEF P!OutOfReach
      <3>5. CASE cursor # <<>> => Past(id, cursor)
        <4>1. id \in P!Matching
          BY <2>1, <3>5, PassesPast DEF P!Matching
        <4>2. CASE \E i \in 1..Len(rows) : rows[i] = id
          BY <1>9, <4>2 DEF Delivered
        <4>3. CASE Len(rows) = P!Limit /\ \A i \in 1..Len(rows) : ~P!Before(id, rows[i])
          <5>1. cursor' # <<>>
            <6>1. "no cursor" \notin P!Doubts(Len(rows) >= P!Limit, cursor')
              BY <3>1
            <6>2. QED
              BY <1>4, <4>3, <6>1 DEF P!Doubts
          <5>2. ~P!Before(id, last)
            BY <1>7, <4>3, <5>1
          <5>3. CASE P!KeysOf(id) = cursor'
            BY <3>3, <5>1, <5>3 DEF P!OutOfReach
          <5>4. CASE \E i \in DOMAIN P!SortKeys : P!ValueOf(id, P!SortKeys[i].col) = Null
            <6>1. P!OutOfReach(id)
              BY <5>4 DEF P!OutOfReach, P!KeysOf
            <6>2. QED
              BY <1>3, <3>3, <6>1 DEF P!OutOfReach
          <5>5. CASE P!KeysOf(id) # cursor' /\ \A i \in DOMAIN P!SortKeys : P!ValueOf(id, P!SortKeys[i].col) # Null
            <6>1. \E i \in DOMAIN P!SortKeys : P!ValueOf(id, P!SortKeys[i].col) # cursor'[i]
              BY <1>7, <5>1, <5>5 DEF P!KeysOf
            <6>2. Past(id, cursor')
              BY <1>4, <1>7, <2>1, <2>2, <5>1, <5>2, <5>5, <6>1, PastOrBefore
            <6>3. QED
              BY <1>1, <5>1, <6>2
          <5>6. QED
            BY <5>3, <5>4, <5>5
        <4>4. QED
          BY <1>5, <4>1, <4>2, <4>3
      <3>6. QED
        BY <2>3, <3>1, <3>2, <3>4, <3>5
    <2>9. QED
      BY <2>6, <2>7, <2>8
  <1>11. pageNumber' = 1 /\ (reading' /\ cursor' = <<>> => shown' = <<>>)
    BY <1>1, <1>2
  <1>12. \A id : Past(id, cursor)' <=> Past(id, cursor')
    BY <1>2, <1>3 DEF Past, P!ValueOf, P!Beyond
  <1>13. QED
    BY <1>3, <1>8, <1>10, <1>11, <1>12 DEF Forward

LEMMA ReadTyped ==
  ASSUME P!PagingAssumption, PageTyped, P!ReadPage
  PROVE  PageTyped'
  <1>1. PICK rows \in P!Answers : shown' = shown \o rows
    BY DEF P!ReadPage
  <1>2. rows \in Seq(Ids)
    <2>1. rows \in Seq(P!Matching) /\ P!Matching \subseteq Ids
      BY AnswerIs, MatchingFinite
    <2>2. QED
      BY <2>1
  <1>3. shown' \in Seq(Ids)
    BY <1>1, <1>2 DEF PageTyped
  <1>4. pageNumber' \in Nat \ {0}
    <2>1. pageNumber' \in {pageNumber, pageNumber + 1}
      BY DEF P!ReadPage
    <2>2. QED
      BY <2>1 DEF PageTyped
  <1>5. UNCHANGED <<table, ask, nullLargest, touched>>
    BY DEF P!ReadPage
  <1>6. QED
    BY <1>3, <1>4, <1>5 DEF PageTyped, StoredRow

\* The ids at the first places of a sequence.
Front(s, k) == {s[i] : i \in 1..k}

LEMMA FrontCount ==
  ASSUME NEW S, NEW s \in Seq(S), NEW k \in Nat, k <= Len(s), \A i, j \in 1..Len(s) : s[i] = s[j] => i = j
  PROVE  Front(s, k) \subseteq S /\ IsFiniteSet(Front(s, k)) /\ Cardinality(Front(s, k)) = k
  <1> DEFINE f == [i \in 1..k |-> s[i]]
  <1>1. \A i \in 1..k : i \in 1..Len(s) /\ s[i] \in S
    OBVIOUS
  <1>2. f \in Bijection(1..k, Front(s, k))
    BY <1>1 DEF Bijection, Injection, IsInjective, Surjection, Front
  <1>3. IsFiniteSet(1..k) /\ Cardinality(1..k) = k
    BY FS_Interval
  <1>4. IsFiniteSet(Front(s, k)) /\ Cardinality(Front(s, k)) = Cardinality(1..k)
    <2>1. ExistsBijection(1..k, Front(s, k))
      BY <1>2 DEF ExistsBijection
    <2>2. QED
      BY <1>3, <2>1, FS_Bijection
  <1>5. QED
    BY <1>1, <1>3, <1>4 DEF Front

\* In an order that tells rows apart, sets of as many rows that others are
\* behind of are the same.
LEMMA SameFront ==
  ASSUME P!PagingAssumption, PageTyped, P!Unique, P!Ordering = P!SortKeys,
         NEW C \in SUBSET P!Matching, NEW B \in SUBSET P!Matching, Cardinality(C) = Cardinality(B),
         \A r \in P!Matching \ C : \A a \in C : ~P!Before(r, a),
         \A r \in P!Matching \ B : \A b \in B : ~P!Before(r, b)
  PROVE  C = B
  <1>1. IsFiniteSet(C) /\ IsFiniteSet(B) /\ P!Matching \subseteq Ids
    BY MatchingFinite, FS_Subset
  <1>2. C \subseteq B \/ B \subseteq C
    <2>1. SUFFICES ASSUME NEW a \in C \ B, NEW b \in B \ C PROVE FALSE
      OBVIOUS
    <2>2. ~P!Before(a, b) /\ ~P!Before(b, a) /\ a # b /\ a \in Ids /\ b \in Ids
      BY <1>1, <2>1
    <2>3. QED
      BY <2>2, Total
  <1>3. CASE C \subseteq B
    BY <1>1, <1>3, FS_Subset
  <1>4. CASE B \subseteq C
    BY <1>1, <1>4, FS_Subset
  <1>5. QED
    BY <1>2, <1>3, <1>4

\* How a page by number was read.
LEMMA ReadNumber ==
  ASSUME P!PagingAssumption, PageTyped, P!ReadPage, ask.mode = "page", cursor = <<>>
  PROVE  \E rows \in P!Answers :
           /\ shown' = shown \o rows
           /\ \E next : doubts' = doubts \cup P!Doubts(Len(rows) >= P!Limit, next)
           /\ pageNumber' = pageNumber + 1 /\ reading' = (Len(rows) >= P!Limit) /\ UNCHANGED cursor
  BY DEF P!ReadPage

LEMMA ReadNumbered ==
  ASSUME P!PagingAssumption, PageTyped, ByNumber, P!ReadPage
  PROVE  ByNumber'
  <1> SUFFICES ASSUME ask.mode = "page" PROVE ByNumber'
    BY DEF P!ReadPage, ByNumber
  <1>1. cursor = <<>> /\ reading /\ UNCHANGED <<table, ask, nullLargest, touched>>
    BY DEF ByNumber, P!ReadPage
  <1>2. PICK rows \in P!Answers :
          /\ shown' = shown \o rows
          /\ \E next : doubts' = doubts \cup P!Doubts(Len(rows) >= P!Limit, next)
          /\ pageNumber' = pageNumber + 1 /\ reading' = (Len(rows) >= P!Limit) /\ UNCHANGED cursor
    BY <1>1, ReadNumber
  <1>3. /\ (P!Unique <=> P!Unique') /\ P!Limit' = P!Limit /\ P!Matching' = P!Matching
        /\ \A a, b : P!Before(a, b)' <=> P!Before(a, b)
    <2>1. (P!Unique <=> P!Unique') /\ P!Limit' = P!Limit
      BY <1>1, SamePage
    <2>2. P!Matching' = P!Matching
      BY <1>1, <1>2 DEF P!Matching
    <2>3. \A a, b : P!Before(a, b)' <=> P!Before(a, b)
      <3>1. P!Ordering' = P!Ordering
        BY <1>1, <1>2 DEF P!Ordering, P!SortKeys, P!Sort, P!Known, P!PrimaryKey
      <3>2. \A id, col : P!ValueOf(id, col)' = P!ValueOf(id, col)
        BY <1>1 DEF P!ValueOf
      <3>3. \A v, w : P!Below(v, w)' <=> P!Below(v, w)
        BY <1>1 DEF P!Below
      <3>4. QED
        BY <3>1, <3>2, <3>3 DEF P!Before
    <2>4. QED
      BY <2>1, <2>2, <2>3
  <1>4. cursor' = <<>>
    BY <1>1, <1>2
  <1>5. ASSUME touched' = {}, doubts' = {}, P!Unique
        PROVE  /\ \A i, j \in 1..Len(shown') : shown'[i] = shown'[j] => i = j
               /\ \A i \in 1..Len(shown') : shown'[i] \in P!Matching
               /\ \A r \in P!Matching : Delivered(r)' \/ \A i \in 1..Len(shown') : ~P!Before(r, shown'[i])
               /\ IF reading' THEN Len(shown') = (pageNumber' - 1) * P!Limit ELSE \A r \in P!Matching : Delivered(r)'
    <2>1. PICK next : doubts = {} /\ P!Doubts(Len(rows) >= P!Limit, next) = {}
      BY <1>2, <1>5
    <2>2. P!Ordering = P!SortKeys
      <3>1. "unordered" \notin P!Doubts(Len(rows) >= P!Limit, next)
        BY <2>1
      <3>2. QED
        BY <3>1 DEF P!Doubts, P!Ordering, P!SortKeys
    <2>3. P!Offset = (pageNumber - 1) * P!Limit
      <3>1. "wrapped" \notin P!Doubts(Len(rows) >= P!Limit, next)
        BY <2>1
      <3>2. QED
        BY <1>1, <3>1 DEF P!Doubts
    <2>4. /\ \A i, j \in 1..Len(shown) : shown[i] = shown[j] => i = j
          /\ \A i \in 1..Len(shown) : shown[i] \in P!Matching
          /\ \A r \in P!Matching : Delivered(r) \/ \A i \in 1..Len(shown) : ~P!Before(r, shown[i])
          /\ Len(shown) = P!Offset
      BY <1>1, <1>5, <2>1, <2>3 DEF ByNumber
    <2>5. PICK s \in Seq(P!Matching) :
            /\ Len(s) = P!Least(Cardinality(P!Matching), P!Offset + P!Limit)
            /\ rows \in Seq(P!Matching) /\ Len(rows) = IF P!Offset < Len(s) THEN Len(s) - P!Offset ELSE 0
            /\ \A i \in 1..Len(rows) : rows[i] = s[P!Offset + i]
            /\ \A i, j \in 1..Len(s) : i < j => s[i] # s[j] /\ ~P!Before(s[j], s[i])
            /\ \A r \in P!Matching :
                 \/ \E i \in 1..Len(s) : s[i] = r
                 \/ Len(s) = P!Offset + P!Limit /\ \A i \in 1..Len(s) : ~P!Before(r, s[i])
      BY AnswerIs
    <2> DEFINE k == P!Offset
               set == P!Matching
               lim == P!Limit
    <2>6. k \in Nat /\ lim \in Nat \ {0} /\ set \subseteq Ids /\ IsFiniteSet(set) /\ Cardinality(set) \in Nat
      BY OffsetTyped, LimitTyped, MatchingFinite
    <2>7. shown \in Seq(set) /\ Len(shown) = k
      BY <2>4 DEF PageTyped
    <2>8. Front(shown, k) \in SUBSET set /\ Cardinality(Front(shown, k)) = k
      <3> HIDE DEF set, k
      <3>1. k <= Len(shown)
        BY <2>6, <2>7
      <3>2. QED
        BY <2>4, <2>6, <2>7, <3>1, FrontCount DEF set, k
    <2>9. k <= Cardinality(set)
      BY <2>6, <2>8, FS_Subset
    <2>10. k <= Len(s) /\ Len(s) <= k + lim /\ Len(s) \in Nat /\ Len(rows) = Len(s) - k
      BY <2>5, <2>6, <2>9 DEF P!Least
    <2>11. \A i, j \in 1..Len(s) : s[i] = s[j] => i = j
      <3>1. \A i, j \in 1..Len(s) : i < j \/ j < i \/ i = j
        BY <2>10
      <3>2. QED
        BY <2>5, <3>1
    <2>12. Front(s, k) \in SUBSET set /\ Cardinality(Front(s, k)) = k
      <3> HIDE DEF set, k
      <3>1. s \in Seq(set)
        BY <2>5 DEF set
      <3>2. QED
        BY <2>6, <2>10, <2>11, <3>1, FrontCount
    <2>13. Front(shown, k) = Front(s, k)
      <3>1. \A r \in set \ Front(shown, k) : \A a \in Front(shown, k) : ~P!Before(r, a)
        BY <2>4 DEF Front, Delivered
      <3>2. ASSUME NEW r \in set \ Front(s, k), NEW j \in 1..k PROVE ~P!Before(r, s[j])
        <4>1. j \in 1..Len(s)
          BY <2>6, <2>10
        <4>2. CASE \E i \in 1..Len(s) : s[i] = r
          <5>1. PICK i \in 1..Len(s) : s[i] = r
            BY <4>2
          <5>2. i \notin 1..k
            BY <3>2, <5>1 DEF Front
          <5>3. j < i
            BY <2>6, <2>10, <5>2
          <5>4. QED
            BY <2>5, <4>1, <5>1, <5>3
        <4>3. QED
          BY <2>5, <4>1, <4>2
      <3>3. \A r \in set \ Front(s, k) : \A b \in Front(s, k) : ~P!Before(r, b)
        BY <3>2 DEF Front
      <3>4. Cardinality(Front(shown, k)) = Cardinality(Front(s, k))
        BY <2>8, <2>12
      <3>5. QED
        BY <1>5, <2>2, <2>8, <2>12, <3>1, <3>3, <3>4, SameFront
    <2>14. /\ Len(shown') = Len(s)
           /\ \A i \in 1..k : i \in 1..Len(shown') /\ shown'[i] = shown[i]
           /\ \A i \in 1..Len(rows) : k + i \in 1..Len(shown') /\ shown'[k + i] = rows[i]
           /\ \A i \in 1..Len(shown') : i \in 1..k \/ \E j \in 1..Len(rows) : i = k + j
      <3>1. rows \in Seq(set) /\ shown \in Seq(set)
        BY <2>5, <2>7
      <3> HIDE DEF set
      <3>2. /\ Len(shown') = Len(shown) + Len(rows) /\ Len(rows) \in Nat
            /\ \A i \in 1..Len(shown) : i \in 1..Len(shown') /\ shown'[i] = shown[i]
            /\ \A i \in 1..Len(rows) : Len(shown) + i \in 1..Len(shown') /\ shown'[Len(shown) + i] = rows[i]
            /\ \A i \in 1..Len(shown') : i \in 1..Len(shown) \/ \E j \in 1..Len(rows) : i = Len(shown) + j
        BY <1>2, <3>1, Joined
      <3> HIDE DEF k
      <3>3. QED
        BY <2>6, <2>7, <2>10, <3>2
    \* Each of the rows now shown is one of s, and the other way round.
    <2>15. \A i \in 1..Len(shown') : i > k => shown'[i] = s[i]
      BY <2>5, <2>6, <2>10, <2>14
    <2>16. \A i \in 1..Len(s) : \E j \in 1..Len(shown') : shown'[j] = s[i]
      <3>1. ASSUME NEW i \in 1..Len(s), i \in 1..k PROVE \E j \in 1..Len(shown') : shown'[j] = s[i]
        <4>1. PICK j \in 1..k : shown[j] = s[i]
          BY <2>13, <3>1 DEF Front
        <4>2. QED
          BY <2>14, <4>1
      <3>2. QED
        BY <2>6, <2>10, <2>14, <2>15, <3>1
    <2>17. \A i \in 1..Len(shown') : \E j \in 1..Len(s) : s[j] = shown'[i] /\ (i \in 1..k => j \in 1..k) /\ (i > k => j = i)
      <3>1. ASSUME NEW i \in 1..k PROVE \E j \in 1..k : s[j] = shown'[i]
        <4>1. shown'[i] \in Front(shown, k)
          BY <2>14 DEF Front
        <4>2. QED
          BY <2>13, <4>1 DEF Front
      <3>2. QED
        BY <2>6, <2>10, <2>14, <2>15, <3>1
    <2>18. \A i, j \in 1..Len(shown') : shown'[i] = shown'[j] => i = j
      <3>1. ASSUME NEW i \in 1..Len(shown'), NEW j \in 1..Len(shown'), shown'[i] = shown'[j] PROVE i = j
        <4>1. CASE i \in 1..k /\ j \in 1..k
          BY <2>4, <2>7, <2>14, <3>1, <4>1
        <4>2. CASE i > k /\ j > k
          BY <2>6, <2>11, <2>14, <2>15, <3>1, <4>2
        <4>3. ~(i \in 1..k /\ j > k) /\ ~(j \in 1..k /\ i > k)
          BY <2>6, <2>11, <2>17, <3>1
        <4>4. QED
          BY <2>6, <2>10, <2>14, <4>1, <4>2, <4>3
      <3>2. QED
        BY <3>1
    <2>19. \A i \in 1..Len(shown') : shown'[i] \in set
      BY <2>5, <2>17
    <2>20. \A r \in set : (\E i \in 1..Len(s) : s[i] = r) => Delivered(r)'
      BY <2>16 DEF Delivered
    <2>21. \A r \in set : Delivered(r)' \/ \A i \in 1..Len(shown') : ~P!Before(r, shown'[i])
      BY <2>5, <2>17, <2>20
    <2>22. CASE reading'
      <3>1. Len(rows) >= lim /\ pageNumber' = pageNumber + 1 /\ pageNumber \in Nat
        BY <1>2, <2>22 DEF PageTyped
      <3>2. Len(shown') = k + lim
        BY <2>6, <2>10, <2>14, <3>1
      <3>3. \A p, m \in Nat : ((p + 1) - 1) * m = (p - 1) * m + m
        OBVIOUS
      <3>4. Len(shown') = (pageNumber' - 1) * lim
        BY <2>3, <2>6, <3>1, <3>2, <3>3
      <3>5. QED
        BY <2>18, <2>19, <2>21, <2>22, <3>4
    <2>23. CASE ~reading'
      <3>1. Len(s) # k + lim
        <4>1. ~(Len(rows) >= lim)
          BY <1>2, <2>23
        <4>2. QED
          BY <2>6, <2>10, <4>1
      <3>2. \A r \in set : Delivered(r)'
        BY <2>5, <2>20, <3>1
      <3>3. QED
        BY <2>18, <2>19, <2>21, <2>23, <3>2
    <2>24. QED
      BY <2>22, <2>23
  <1>6. QED
    <2>1. \A r : \A i \in 1..Len(shown') : P!Before(r, shown[i])' <=> P!Before(r, shown'[i])
      BY <1>1, <1>2 DEF P!Before, P!Below, P!ValueOf, P!Ordering, P!SortKeys, P!Sort, P!Known, P!PrimaryKey
    <2>2. QED
      BY <1>1, <1>3, <1>4, <1>5, <2>1 DEF ByNumber


----------------------------------------------------------------------------

\* A row that somebody changes is one of the touched from then on.
LEMMA ChangeKeeps ==
  ASSUME P!PagingAssumption, PagingInv, NEW row \in Ids, P!Change(row)
  PROVE  PagingInv'
  <1>1. /\ UNCHANGED <<ask, nullLargest, cursor, pageNumber, shown, ends, doubts, reading>>
        /\ touched' = touched \cup {row} /\ table' \in [Ids -> StoredRow]
        /\ \A id \in Ids : id # row => table'[id] = table[id]
    BY DEF P!Change, PagingInv, PageTyped, StoredRow
  <1>2. PageTyped'
    BY <1>1 DEF PagingInv, PageTyped, StoredRow
  <1>3. P!SortKeys' = P!SortKeys /\ P!Limit' = P!Limit
    BY <1>1 DEF P!SortKeys, P!Sort, P!Known, P!PrimaryKey, P!Limit
  <1>4. ASSUME NEW id \in P!Untouched'
        PROVE  id \in P!Untouched /\ \A col : P!ValueOf(id, col)' = P!ValueOf(id, col)
    BY <1>1, <1>4 DEF P!Untouched, P!ValueOf
  <1>5. Forward'
    <2>1. SUFFICES ASSUME ask.mode = "after" PROVE Forward'
      BY <1>1 DEF Forward
    <2>2. Pointed(cursor)'
      BY <1>1, <1>3, <2>1 DEF PagingInv, Forward, Pointed
    <2>3. ASSUME NEW id \in P!Untouched'
          PROVE  /\ Past(id, cursor)' <=> Past(id, cursor)
                 /\ P!OutOfReach(id)' <=> P!OutOfReach(id)
                 /\ Delivered(id)' <=> Delivered(id)
      <3>1. id # row /\ id \in Ids
        BY <1>1, <2>3 DEF P!Untouched
      <3>2. QED
        BY <1>1, <1>3, <3>1 DEF Past, P!Beyond, P!OutOfReach, P!KeysOf, Delivered, P!ValueOf
    <2>4. QED
      BY <1>1, <1>4, <2>1, <2>2, <2>3 DEF PagingInv, Forward
  <1>6. ByNumber'
    BY <1>1 DEF PagingInv, ByNumber
  <1>7. QED
    BY <1>2, <1>5, <1>6 DEF PagingInv

LEMMA PagingNext ==
  ASSUME P!PagingAssumption, PagingInv, [P!Next]_pages
  PROVE  PagingInv'
  <1>1. CASE P!ReadPage
    BY <1>1, ReadTyped, ReadForward, ReadNumbered DEF PagingInv
  <1>2. ASSUME NEW id \in Ids, P!Change(id) PROVE PagingInv'
    BY <1>2, ChangeKeeps
  <1>3. CASE UNCHANGED pages
    <2>1. UNCHANGED <<table, ask, nullLargest, cursor, pageNumber, shown, ends, touched, doubts, reading>>
      BY <1>3 DEF pages
    <2>2. PageTyped'
      BY <2>1 DEF PagingInv, PageTyped, StoredRow
    <2>3. P!SortKeys' = P!SortKeys /\ P!Limit' = P!Limit /\ P!Ordering' = P!Ordering /\ (P!Unique <=> P!Unique')
      BY <2>1 DEF P!SortKeys, P!Sort, P!Known, P!PrimaryKey, P!Limit, P!Ordering, P!Unique
    <2>4. Forward'
      <3>1. P!Untouched' = P!Untouched /\ (Pointed(cursor)' <=> Pointed(cursor))
        BY <2>1, <2>3 DEF P!Untouched, Pointed
      <3>2. \A id : /\ Past(id, cursor)' <=> Past(id, cursor)
                    /\ P!OutOfReach(id)' <=> P!OutOfReach(id)
                    /\ Delivered(id)' <=> Delivered(id)
        BY <2>1, <2>3 DEF Past, P!Beyond, P!OutOfReach, P!KeysOf, Delivered, P!ValueOf
      <3>3. QED
        BY <2>1, <3>1, <3>2 DEF PagingInv, Forward
    <2>5. ByNumber'
      <3>1. P!Matching' = P!Matching
        BY <2>1, <2>3 DEF P!Matching, P!Passes, P!ValueOf, P!Beyond
      <3>2. \A r : /\ Delivered(r)' <=> Delivered(r)
                   /\ \A i : P!Before(r, shown[i])' <=> P!Before(r, shown[i])
        BY <2>1, <2>3 DEF Delivered, P!Before, P!Below, P!ValueOf
      <3>3. QED
        BY <2>1, <2>3, <3>1, <3>2 DEF PagingInv, ByNumber
    <2>6. QED
      BY <2>2, <2>4, <2>5 DEF PagingInv
  <1>4. QED
    BY <1>1, <1>2, <1>3 DEF P!Next

\* How often a row was delivered that is at most at one place.
LEMMA TimesAre ==
  ASSUME PageTyped, NEW id, \A i, j \in 1..Len(shown) : shown[i] = id /\ shown[j] = id => i = j
  PROVE  P!Times(id) <= 1 /\ (Delivered(id) => P!Times(id) = 1)
  <1> DEFINE places == {i \in DOMAIN shown : shown[i] = id}
  <1>1. DOMAIN shown = 1..Len(shown)
    BY DEF PageTyped
  <1>2. P!Times(id) = Cardinality(places)
    BY SamePages DEF P!Times
  <1>3. CASE Delivered(id)
    <2>1. \E i : places = {i}
      BY <1>1, <1>3 DEF Delivered
    <2>2. Cardinality(places) = 1
      BY <2>1, FS_Singleton
    <2>3. QED
      BY <1>2, <2>2
  <1>4. CASE ~Delivered(id)
    <2>1. places = {}
      BY <1>1, <1>4 DEF Delivered
    <2>2. Cardinality(places) = 0
      BY <2>1, FS_EmptySet
    <2>3. QED
      BY <1>2, <1>4, <2>2
  <1>5. QED
    BY <1>3, <1>4

LEMMA PagingComplete == PagingInv => P!PagesComplete
  <1> SUFFICES ASSUME PagingInv PROVE P!PagesComplete
    OBVIOUS
  <1>1. PageTyped /\ Forward /\ ByNumber
    BY DEF PagingInv
  <1>2. ASSUME ask.mode = "after", "unordered" \notin doubts, NEW id \in P!Untouched
        PROVE  P!Times(id) <= 1 /\ (~reading /\ doubts = {} => P!Times(id) = 1 \/ P!OutOfReach(id))
    <2>1. /\ \A i, j \in 1..Len(shown) : shown[i] = id /\ shown[j] = id => i = j
          /\ ~reading /\ doubts = {} => Delivered(id) \/ P!OutOfReach(id)
      BY <1>1, <1>2 DEF Forward
    <2>2. QED
      BY <1>1, <2>1, TimesAre
  <1>3. ASSUME ask.mode = "page", touched = {}, doubts = {}, P!Unique, NEW id \in P!Untouched
        PROVE  P!Times(id) <= 1 /\ (~reading => P!Times(id) = 1)
    <2>1. /\ \A i, j \in 1..Len(shown) : shown[i] = shown[j] => i = j
          /\ ~reading => \A r \in P!Matching : Delivered(r)
          /\ id \in P!Matching
      BY <1>1, <1>3 DEF ByNumber, P!Untouched, P!Matching
    <2>2. \A i, j \in 1..Len(shown) : shown[i] = id /\ shown[j] = id => i = j
      BY <2>1
    <2>3. QED
      BY <1>1, <2>1, <2>2, TimesAre
  <1>4. QED
    BY <1>2, <1>3 DEF P!PagesComplete

----------------------------------------------------------------------------
(* TableGeneration *)

ProcType ==
  [pc : {"down", "accounts", "boot", "reload", "up", "kept", "refused"}, live : {0} \cup DOMAIN Designs,
   next : {0} \cup DOMAIN Designs, todo : SUBSET Nat, again : BOOLEAN, torn : BOOLEAN, worker : BOOLEAN]

GenerationTyped ==
  /\ deployed \in DOMAIN Designs /\ served \subseteq DOMAIN Designs /\ proc \in [Replicas -> ProcType]
  /\ \A r \in Replicas :
       /\ proc[r].pc # "down" => proc[r].next \in DOMAIN Designs
       /\ G!Serving(r) => proc[r].live \in DOMAIN Designs

\* Each index in the database is one that an entity with its table asks for.
Rooted ==
  \A t \in DOMAIN db : \A ix \in db[t].indexes : \E f \in G!Entities : f.table = t /\ ix \in G!IndexesOf(f)

\* An index is where it belongs, as far as one can ask.
Indexed(e, ix) ==
  ix \in db[e.table].indexes \/ ~G!Covered(e, ix) \/ ix.name \in lostTables \/ G!Ambiguous(e, ix)

\* An entity that was generated once: its indexes will never be refused again.
Settled(e) ==
  \/ e.table \in lostTables
  \/ e.table \in DOMAIN db /\ \A ix \in G!IndexesOf(e) : ~G!IndexRefused(e, ix) /\ Indexed(e, ix)

AllSettled(d) == \A i \in DOMAIN Designs[d] : G!Generates(Designs[d][i]) => Settled(Designs[d][i])

\* An entity to generate at a place that is still to come.
Awaits(r, e) == \E j \in proc[r].todo : ~G!IsOwn(proc[r], j) /\ G!Plan(proc[r])[j] = e

\* What is to come are entities to generate, and main's own.
AsPlanned(r) ==
  /\ proc[r].todo \subseteq DOMAIN G!Plan(proc[r])
  /\ proc[r].pc # "accounts" => \A j \in proc[r].todo : G!IsOwn(proc[r], j) \/
       \E i \in DOMAIN Designs[proc[r].next] :
         G!Plan(proc[r])[j] = Designs[proc[r].next][i] /\ G!Generates(Designs[proc[r].next][i])

Cause(e) == e.table \in lostTables \/ (dialect = "mssql" /\ e.keys # {})

ProcFits(r) ==
  /\ proc[r].pc \in {"accounts", "boot", "reload"} => AsPlanned(r) /\ (proc[r].again => proc[r].next \in served)
  /\ proc[r].worker => OutboxTable \in DOMAIN db \cup lostTables
  /\ proc[r].pc \in {"refused", "kept"} /\ proc[r].again /\ ~proc[r].torn =>
       dialect = "mongodb" \/ \E i \in DOMAIN Designs[proc[r].next] : Cause(Designs[proc[r].next][i])
  /\ dialect # "mongodb" /\ proc[r].pc \in {"up", "kept", "reload"} => AllSettled(proc[r].live)
  /\ dialect # "mongodb" /\ proc[r].pc \in {"boot", "reload"} => \A i \in DOMAIN Designs[proc[r].next] :
       G!Generates(Designs[proc[r].next][i]) =>
         Settled(Designs[proc[r].next][i]) \/ Awaits(r, Designs[proc[r].next][i])

GenerationInv ==
  /\ GenerationTyped /\ Rooted
  /\ \A r \in Replicas : ProcFits(r)
  /\ dialect # "mongodb" => \A d \in served : AllSettled(d)

----------------------------------------------------------------------------

\* The database and what was lost of it only grow.
Grows ==
  /\ dialect' = dialect /\ lostTables \subseteq lostTables'
  /\ \A t \in DOMAIN db :
       t \in DOMAIN db' /\ db'[t].columns = db[t].columns /\ db[t].indexes \subseteq db'[t].indexes

LEMMA EntitiesAre ==
  ASSUME G!TableGenerationAssumption
  PROVE  /\ \A d \in DOMAIN Designs : /\ Designs[d] \in Seq(G!Entity)
                                      /\ \A i \in DOMAIN Designs[d] : Designs[d][i] \in G!Entities
         /\ Own \in Seq(G!Entity) /\ \A i \in DOMAIN Own : Own[i] \in G!Entities
  <1> DEFINE all == Seq(G!Entity)
  <1>1. Designs \in Seq(all) /\ Own \in all
    BY DEF G!TableGenerationAssumption
  <1>2. \A d \in DOMAIN Designs : Designs[d] \in all
    <2> HIDE DEF all
    <2>1. QED
      BY <1>1
  <1>3. \A f : \A i \in DOMAIN f : f[i] \in G!Range(f)
    BY DEF G!Range
  <1>4. \A e \in G!Range(Own) : e \in G!Entities
    BY DEF G!Entities
  <1>5. ASSUME NEW d \in DOMAIN Designs, NEW e \in G!Range(Designs[d]) PROVE e \in G!Entities
    <2>1. e \in UNION {G!Range(Designs[dd]) : dd \in DOMAIN Designs}
      OBVIOUS
    <2>2. QED
      BY <2>1 DEF G!Entities
  <1>6. QED
    BY <1>1, <1>2, <1>3, <1>4, <1>5

LEMMA SameAsked ==
  ASSUME Grows
  PROVE  /\ \A e : G!IndexesOf(e)' = G!IndexesOf(e)
         /\ \A e, ix : G!Ambiguous(e, ix)' <=> G!Ambiguous(e, ix)
  <1>1. \A e : G!IndexesOf(e)' = G!IndexesOf(e)
    BY DEF Grows, G!IndexesOf
  <1>2. QED
    BY <1>1 DEF G!Ambiguous, G!Entities

LEMMA CoveredStays ==
  ASSUME Grows, NEW e, e.table \in DOMAIN db, NEW ix
  PROVE  G!Covered(e, ix)' <=> G!Covered(e, ix)
  BY DEF Grows, G!Covered, G!Created, G!TableThere

LEMMA NamesStay ==
  ASSUME Grows, NEW e, NEW name, G!NameTaken(e, name)
  PROVE  G!NameTaken(e, name)'
  BY DEF Grows, G!NameTaken

LEMMA SettledStays ==
  ASSUME Grows, NEW e, Settled(e)
  PROVE  Settled(e)'
  <1>1. CASE e.table \in lostTables
    BY <1>1 DEF Grows, Settled
  <1>2. CASE e.table \in DOMAIN db /\ \A ix \in G!IndexesOf(e) : ~G!IndexRefused(e, ix) /\ Indexed(e, ix)
    <2>1. e.table \in DOMAIN db' /\ G!IndexesOf(e)' = G!IndexesOf(e)
      BY <1>2, SameAsked DEF Grows
    <2>2. ASSUME NEW ix \in G!IndexesOf(e) PROVE ~G!IndexRefused(e, ix)' /\ Indexed(e, ix)'
      <3>1. ~G!IndexRefused(e, ix) /\ Indexed(e, ix)
        BY <1>2
      <3>2. G!Covered(e, ix)' <=> G!Covered(e, ix)
        BY <1>2, CoveredStays
      <3>3. ~G!IndexRefused(e, ix)'
        BY <3>1, <3>2, NamesStay DEF Grows, G!IndexRefused
      <3>4. G!Ambiguous(e, ix)' <=> G!Ambiguous(e, ix)
        BY SameAsked
      <3>5. Indexed(e, ix)'
        BY <1>2, <3>1, <3>2, <3>4 DEF Grows, Indexed
      <3>6. QED
        BY <3>3, <3>5
    <2>3. QED
      BY <2>1, <2>2 DEF Settled
  <1>3. QED
    BY <1>1, <1>2 DEF Settled

\* What a generation does to the database, with some of the indexes.
LEMMA WithGrows ==
  ASSUME Rooted, NEW e \in G!Entities, NEW ixs \in SUBSET G!IndexesOf(e), NEW keys, db' = G!With(e, ixs, keys),
         dialect' = dialect, lostTables \subseteq lostTables'
  PROVE  /\ Grows /\ Rooted' /\ e.table \in DOMAIN db'
         /\ db'[e.table].columns = G!Created(e).columns /\ ixs \subseteq db'[e.table].indexes
  <1>1. /\ DOMAIN db' = DOMAIN db \cup {e.table}
        /\ \A t \in DOMAIN db : t # e.table => db'[t] = db[t]
        /\ db'[e.table].columns = G!Created(e).columns /\ db'[e.table].indexes = G!Created(e).indexes \cup ixs
    BY DEF G!With
  <1>2. e.table \in DOMAIN db => G!Created(e) = db[e.table]
    BY DEF G!Created, G!TableThere
  <1>3. e.table \notin DOMAIN db => G!Created(e).indexes = {}
    BY DEF G!Created, G!TableThere
  <1>4. Grows
    BY <1>1, <1>2 DEF Grows
  <1>5. ASSUME NEW t \in DOMAIN db', NEW ix \in db'[t].indexes
        PROVE  \E f \in G!Entities : f.table = t /\ ix \in G!IndexesOf(f)
    <2>1. CASE t = e.table /\ ix \in ixs
      BY <2>1
    <2>2. CASE t \in DOMAIN db /\ ix \in db[t].indexes
      BY <2>2 DEF Rooted
    <2>3. QED
      BY <1>1, <1>2, <1>3, <1>5, <2>1, <2>2
  <1>6. Rooted'
    <2>1. G!Entities' = G!Entities
      BY DEF G!Entities
    <2>2. QED
      BY <1>4, <1>5, <2>1, SameAsked DEF Rooted
  <1>7. QED
    BY <1>1, <1>4, <1>6

\* Two indexes of a name and a table, and of the same columns, are one.
LEMMA IndexIs ==
  ASSUME NEW e, NEW ix \in G!IndexesOf(e)
  PROVE  \E n, c : ix = [name |-> n, columns |-> c]
  BY DEF G!IndexesOf

LEMMA TakenIsIndexed ==
  ASSUME Rooted, NEW e, NEW ix \in G!IndexesOf(e), G!NameTaken(e, ix.name)
  PROVE  G!Ambiguous(e, ix) \/ (e.table \in DOMAIN db /\ ix \in db[e.table].indexes)
  <1>1. PICK t \in DOMAIN db : \E other \in db[t].indexes : other.name = ix.name
    BY DEF G!NameTaken
  <1>2. PICK other \in db[t].indexes : other.name = ix.name
    BY <1>1
  <1>3. PICK f \in G!Entities : f.table = t /\ other \in G!IndexesOf(f)
    BY DEF Rooted
  <1>4. CASE t # e.table \/ other.columns # ix.columns
    BY <1>2, <1>3, <1>4 DEF G!Ambiguous
  <1>5. CASE t = e.table /\ other.columns = ix.columns
    <2>1. other = ix
      <3>1. PICK n, c : ix = [name |-> n, columns |-> c]
        BY IndexIs
      <3>2. PICK m, k : other = [name |-> m, columns |-> k]
        BY <1>3, IndexIs
      <3>3. n = m /\ c = k
        BY <1>2, <1>5, <3>1, <3>2
      <3>4. QED
        BY <3>1, <3>2, <3>3
    <2>2. QED
      BY <1>2, <1>5, <2>1
  <1>6. QED
    BY <1>4, <1>5

LEMMA ReportedSettles ==
  ASSUME Rooted, NEW e \in G!Entities, G!Reported(e), dialect' = dialect
  PROVE  Grows /\ Rooted' /\ Settled(e)' /\ e.table \in DOMAIN db' \cup lostTables'
  <1> DEFINE asked == G!IndexesOf(e)
  <1>1. \A ix \in asked : ~G!IndexRefused(e, ix)
    BY DEF G!Reported, G!Commits, G!CommitLost, G!Accepted
  <1>2. CASE G!Commits(e)
    <2>1. db' = G!With(e, G!NewIndexes(e), G!NewKeys(e)) /\ lostTables' = lostTables
      BY <1>2 DEF G!Commits
    <2>2. G!NewIndexes(e) \in SUBSET asked
      BY DEF G!NewIndexes
    <2>3. /\ Grows /\ Rooted' /\ e.table \in DOMAIN db'
          /\ db'[e.table].columns = G!Created(e).columns /\ G!NewIndexes(e) \subseteq db'[e.table].indexes
      <3>1. lostTables \subseteq lostTables'
        BY <2>1
      <3>2. QED
        BY <2>1, <2>2, <3>1, WithGrows
    <2>4. ASSUME NEW ix \in asked PROVE ~G!IndexRefused(e, ix)' /\ Indexed(e, ix)'
      <3>1. G!Covered(e, ix)' <=> G!Covered(e, ix)
        BY <2>3 DEF G!Covered, G!Created, G!TableThere
      <3>2. ~G!IndexRefused(e, ix)'
        BY <1>1, <2>3, <3>1, NamesStay DEF Grows, G!IndexRefused
      <3>3. CASE G!NameTaken(e, ix.name)
        <4>1. G!Ambiguous(e, ix) \/ (e.table \in DOMAIN db /\ ix \in db[e.table].indexes)
          BY <3>3, TakenIsIndexed
        <4>2. Indexed(e, ix)'
          BY <2>3, <4>1, SameAsked DEF Grows, Indexed
        <4>3. QED
          BY <3>2, <4>2
      <3>4. CASE ~G!Covered(e, ix)
        BY <3>1, <3>2, <3>4 DEF Indexed
      <3>5. CASE G!Covered(e, ix) /\ ~G!NameTaken(e, ix.name)
        BY <2>3, <3>2, <3>5 DEF Indexed, G!NewIndexes
      <3>6. QED
        BY <3>3, <3>4, <3>5
    <2>5. Settled(e)'
      BY <2>3, <2>4, SameAsked DEF Settled
    <2>6. QED
      BY <2>3, <2>5
  <1>3. CASE G!CommitLost(e)
    <2>1. db' = db /\ lostTables' = lostTables \cup ({e.table} \ DOMAIN db) \cup {ix.name : ix \in G!NewIndexes(e)}
      BY <1>3 DEF G!CommitLost
    <2>2. Grows
      BY <2>1 DEF Grows
    <2>3. Rooted'
      <3>1. G!Entities' = G!Entities
        BY DEF G!Entities
      <3>2. QED
        BY <2>1, <2>2, <3>1, SameAsked DEF Rooted
    <2>4. CASE e.table \notin DOMAIN db
      BY <2>1, <2>2, <2>3, <2>4 DEF Settled
    <2>5. CASE e.table \in DOMAIN db
      <3>1. ASSUME NEW ix \in asked PROVE ~G!IndexRefused(e, ix)' /\ Indexed(e, ix)'
        <4>1. G!Covered(e, ix)' <=> G!Covered(e, ix)
          BY <2>2, <2>5, CoveredStays
        <4>2. ~G!IndexRefused(e, ix)'
          BY <1>1, <2>2, <4>1, NamesStay DEF Grows, G!IndexRefused
        <4>3. CASE G!NameTaken(e, ix.name)
          <5>1. G!Ambiguous(e, ix) \/ ix \in db[e.table].indexes
            BY <4>3, TakenIsIndexed
          <5>2. QED
            BY <2>1, <2>2, <4>2, <5>1, SameAsked DEF Indexed
        <4>4. CASE ~G!Covered(e, ix)
          BY <4>1, <4>2, <4>4 DEF Indexed
        <4>5. CASE G!Covered(e, ix) /\ ~G!NameTaken(e, ix.name)
          <5>1. ix.name \in lostTables'
            BY <2>1, <4>5 DEF G!NewIndexes
          <5>2. QED
            BY <4>2, <5>1 DEF Indexed
        <4>6. QED
          BY <4>3, <4>4, <4>5
      <3>2. Settled(e)'
        BY <2>1, <2>2, <2>5, <3>1, SameAsked DEF Settled
      <3>3. QED
        BY <2>1, <2>2, <2>3, <2>5, <3>2
    <2>6. QED
      BY <2>4, <2>5
  <1>4. QED
    BY <1>2, <1>3 DEF G!Reported

\* A statement that fails by itself.
LEMMA FailureGrows ==
  ASSUME Rooted, NEW e \in G!Entities, G!StatementFails(e), dialect' = dialect
  PROVE  Grows /\ Rooted'
  <1>1. lostTables' = lostTables
    BY DEF G!StatementFails
  <1>2. CASE UNCHANGED db
    <2>1. Grows
      BY <1>1, <1>2 DEF Grows
    <2>2. G!Entities' = G!Entities
      BY DEF G!Entities
    <2>3. QED
      BY <1>2, <2>1, <2>2, SameAsked DEF Rooted
  <1>3. ASSUME NEW S \in SUBSET G!NewIndexes(e), db' = G!With(e, S, {}) PROVE Grows /\ Rooted'
    <2>1. S \in SUBSET G!IndexesOf(e) /\ lostTables \subseteq lostTables'
      BY <1>1, <1>3 DEF G!NewIndexes
    <2>2. QED
      BY <1>3, <2>1, WithGrows
  <1>4. QED
    BY <1>2, <1>3 DEF G!StatementFails

LEMMA NothingGrows ==
  ASSUME Rooted, UNCHANGED <<dialect, db, lostTables>>
  PROVE  Grows /\ Rooted'
  <1>1. Grows
    BY DEF Grows
  <1>2. G!Entities' = G!Entities
    BY DEF G!Entities
  <1>3. QED
    BY <1>1, <1>2, SameAsked DEF Rooted

\* What a process works off.
LEMMA PlanIs ==
  ASSUME G!TableGenerationAssumption, NEW p, p.next \in DOMAIN Designs
  PROVE  LET plan == G!Plan(p)
             design == Designs[p.next] IN
         /\ Len(design) \in Nat /\ DOMAIN design = 1..Len(design) /\ DOMAIN plan \subseteq Nat
         /\ \A i \in DOMAIN plan : plan[i] \in G!Entities
         /\ \A i \in DOMAIN design : i \in DOMAIN plan /\ plan[i] = design[i]
         /\ p.pc = "reload" =>
              \A i \in DOMAIN design : Len(design) + i \in DOMAIN plan /\ plan[Len(design) + i] = design[i]
         /\ p.pc # "reload" => \A i \in DOMAIN Own : i > 0 /\ Len(design) + i \in DOMAIN plan
  <1> DEFINE design == Designs[p.next]
             rest == IF p.pc = "reload" THEN design ELSE Own
             entity == G!Entity
  <1>1. /\ design \in Seq(entity) /\ Own \in Seq(entity)
        /\ (\A i \in DOMAIN design : design[i] \in G!Entities) /\ \A i \in DOMAIN Own : Own[i] \in G!Entities
    BY EntitiesAre
  <1>2. rest \in Seq(entity) /\ (\A i \in DOMAIN rest : rest[i] \in G!Entities)
    BY <1>1
  <1>3. G!Plan(p) = design \o rest
    BY DEF G!Plan
  <1> HIDE DEF design, entity
  <1>4. /\ design \o rest \in Seq(entity) /\ Len(design \o rest) = Len(design) + Len(rest)
        /\ Len(design) \in Nat /\ Len(rest) \in Nat
        /\ \A i \in 1..Len(design) : i \in 1..Len(design \o rest) /\ (design \o rest)[i] = design[i]
        /\ \A i \in 1..Len(rest) : Len(design) + i \in 1..Len(design \o rest) /\ (design \o rest)[Len(design) + i] = rest[i]
        /\ \A i \in 1..Len(design \o rest) : i \in 1..Len(design) \/ \E j \in 1..Len(rest) : i = Len(design) + j
    <2> HIDE DEF rest
    <2>1. QED
      BY <1>1, <1>2, Joined
  <1>5. DOMAIN design = 1..Len(design) /\ DOMAIN rest = 1..Len(rest) /\ DOMAIN (design \o rest) = 1..Len(design \o rest)
    <2> HIDE DEF rest
    <2>1. QED
      BY <1>1, <1>2, <1>4
  <1>6. \A i \in DOMAIN (design \o rest) : (design \o rest)[i] \in G!Entities
    <2> HIDE DEF rest
    <2>1. QED
      BY <1>1, <1>2, <1>4, <1>5
  <1>7. /\ p.pc = "reload" => rest = design
        /\ p.pc # "reload" => rest = Own
    OBVIOUS
  <1> HIDE DEF rest
  <1>8. p.pc = "reload" =>
          \A i \in DOMAIN design : Len(design) + i \in DOMAIN (design \o rest) /\ (design \o rest)[Len(design) + i] = design[i]
    BY <1>4, <1>5, <1>7
  <1>9. p.pc # "reload" => \A i \in DOMAIN Own : i > 0 /\ Len(design) + i \in DOMAIN (design \o rest)
    BY <1>4, <1>5, <1>7
  <1>10. /\ \A i \in DOMAIN design : i \in DOMAIN (design \o rest) /\ (design \o rest)[i] = design[i]
         /\ DOMAIN (design \o rest) \subseteq Nat
    BY <1>4, <1>5
  <1>11. /\ DOMAIN G!Plan(p) \subseteq Nat
         /\ \A i \in DOMAIN G!Plan(p) : G!Plan(p)[i] \in G!Entities
         /\ \A i \in DOMAIN design : i \in DOMAIN G!Plan(p) /\ G!Plan(p)[i] = design[i]
         /\ p.pc = "reload" =>
              \A i \in DOMAIN design : Len(design) + i \in DOMAIN G!Plan(p) /\ G!Plan(p)[Len(design) + i] = design[i]
         /\ p.pc # "reload" => \A i \in DOMAIN Own : i > 0 /\ Len(design) + i \in DOMAIN G!Plan(p)
    BY <1>3, <1>6, <1>8, <1>9, <1>10
  <1>12. Len(design) \in Nat /\ DOMAIN design = 1..Len(design)
    BY <1>4, <1>5
  <1>13. QED
    BY <1>11, <1>12 DEF design

LEMMA FirstIs ==
  ASSUME NEW p, p.todo \in SUBSET Nat, p.todo # {}
  PROVE  G!First(p) \in p.todo
  <1>1. \E x \in p.todo : \A y \in p.todo : x <= y
    BY Smallest
  <1>2. QED
    BY <1>1 DEF G!First, G!Min

LEMMA AllStay ==
  ASSUME Grows, NEW d, AllSettled(d)
  PROVE  AllSettled(d)'
  BY SettledStays DEF AllSettled, G!Generates

\* A process that does nothing fits as before.
LEMMA ProcStays ==
  ASSUME Grows, NEW r, ProcFits(r), proc'[r] = proc[r], served \subseteq served'
  PROVE  ProcFits(r)'
  <1>1. G!Plan(proc[r])' = G!Plan(proc[r]) /\ \A j : G!IsOwn(proc[r], j)' <=> G!IsOwn(proc[r], j)
    BY DEF G!Plan, G!IsOwn
  <1>2. AsPlanned(r) => AsPlanned(r)'
    BY <1>1 DEF AsPlanned, G!Generates
  <1>3. \A e : Awaits(r, e)' <=> Awaits(r, e)
    BY <1>1 DEF Awaits
  <1>4. \A e : (Settled(e) => Settled(e)') /\ (Cause(e) => Cause(e)')
    BY SettledStays DEF Cause, Grows
  <1>5. dialect' = dialect /\ DOMAIN db \cup lostTables \subseteq DOMAIN db' \cup lostTables'
    BY DEF Grows
  <1>6. AllSettled(proc[r].live) => AllSettled(proc[r].live)'
    BY <1>4 DEF AllSettled, G!Generates
  <1>7. \A i \in DOMAIN Designs[proc[r].next] :
          /\ G!Generates(Designs[proc[r].next][i])' <=> G!Generates(Designs[proc[r].next][i])
          /\ Settled(Designs[proc[r].next][i]) => Settled(Designs[proc[r].next][i])'
          /\ Awaits(r, Designs[proc[r].next][i]) => Awaits(r, Designs[proc[r].next][i])'
          /\ Cause(Designs[proc[r].next][i]) => Cause(Designs[proc[r].next][i])'
    BY <1>3, <1>4 DEF G!Generates
  <1>8. QED
    BY <1>2, <1>5, <1>6, <1>7 DEF ProcFits


----------------------------------------------------------------------------

LEMMA GenerationInit == G!TableGenerationAssumption /\ G!Init => GenerationInv
  <1> SUFFICES ASSUME G!TableGenerationAssumption, G!Init PROVE GenerationInv
    OBVIOUS
  <1>1. G!Down \in ProcType /\ G!Down.pc = "down" /\ G!Down.worker = FALSE
    BY DEF G!Down, ProcType
  <1>2. proc \in [Replicas -> ProcType] /\ \A r \in Replicas : proc[r] = G!Down
    BY <1>1 DEF G!Init
  <1>3. GenerationTyped
    BY <1>1, <1>2 DEF G!Init, GenerationTyped, G!Serving
  <1>4. Rooted
    <2>1. db = <<>> /\ \A t : t \notin DOMAIN <<>>
      BY DEF G!Init
    <2>2. QED
      BY <2>1 DEF Rooted
  <1>5. \A r \in Replicas : ProcFits(r)
    BY <1>1, <1>2 DEF ProcFits
  <1>6. QED
    BY <1>3, <1>4, <1>5 DEF G!Init, GenerationInv

\* One process becomes another record, while the database grows.
LEMMA OneBecomes ==
  ASSUME GenerationInv, Grows, Rooted', deployed' \in DOMAIN Designs, NEW r \in Replicas, NEW q \in ProcType, G!Becomes(r, q),
         q.pc # "down" => q.next \in DOMAIN Designs, q.pc \in {"up", "kept", "reload"} => q.live \in DOMAIN Designs,
         ProcFits(r)', served \subseteq served', served' \subseteq DOMAIN Designs,
         dialect # "mongodb" => \A d \in served' \ served : AllSettled(d)
  PROVE  GenerationInv'
  <1>1. /\ proc' \in [Replicas -> ProcType] /\ proc'[r] = q
        /\ \A o \in Replicas : o # r => proc'[o] = proc[o]
    BY DEF G!Becomes, GenerationInv, GenerationTyped
  <1>2. GenerationTyped'
    <2>1. ASSUME NEW o \in Replicas
          PROVE  /\ proc'[o].pc # "down" => proc'[o].next \in DOMAIN Designs
                 /\ proc'[o].pc \in {"up", "kept", "reload"} => proc'[o].live \in DOMAIN Designs
      <3>1. CASE o = r
        BY <1>1, <3>1
      <3>2. CASE o # r
        BY <1>1, <3>2 DEF GenerationInv, GenerationTyped, G!Serving
      <3>3. QED
        BY <3>1, <3>2
    <2>2. QED
      BY <1>1, <2>1 DEF GenerationTyped, G!Serving, ProcType
  <1>3. \A o \in Replicas : ProcFits(o)'
    <2>1. ASSUME NEW o \in Replicas, o # r PROVE ProcFits(o)'
      BY <1>1, <2>1, ProcStays DEF GenerationInv
    <2>2. QED
      BY <2>1
  <1>4. (dialect # "mongodb")' => \A d \in served' : AllSettled(d)'
    BY AllStay DEF GenerationInv, Grows
  <1>5. QED
    BY <1>2, <1>3, <1>4 DEF GenerationInv

\* Only the database changes.
LEMMA AllProcsStay ==
  ASSUME GenerationInv, Grows, Rooted', deployed' \in DOMAIN Designs, UNCHANGED <<proc, served>>
  PROVE  GenerationInv'
  <1>1. GenerationTyped'
    BY DEF GenerationInv, GenerationTyped, G!Serving, ProcType
  <1>2. \A o \in Replicas : ProcFits(o)'
    BY ProcStays DEF GenerationInv
  <1>3. (dialect # "mongodb")' => \A d \in served' : AllSettled(d)'
    BY AllStay DEF GenerationInv, Grows
  <1>4. QED
    BY <1>1, <1>2, <1>3 DEF GenerationInv

LEMMA Becoming ==
  ASSUME GenerationInv, NEW r \in Replicas, NEW q, G!Becomes(r, q)
  PROVE  proc'[r] = q
  BY DEF G!Becomes, GenerationInv, GenerationTyped

LEMMA BootKeeps ==
  ASSUME G!TableGenerationAssumption, GenerationInv, NEW r \in Replicas, G!Boot(r)
  PROVE  GenerationInv'
  <1> DEFINE design == Designs[deployed]
             core == {i \in DOMAIN design : design[i].core /\ AuthOn /\ dialect # "mongodb"}
             again == deployed \in served
             q == [G!Down EXCEPT !.pc = "accounts", !.next = deployed, !.again = again, !.todo = core]
  <1>1. G!Becomes(r, q) /\ UNCHANGED <<dialect, deployed, db, served, lostTables>>
    BY DEF G!Boot
  <1>2. Grows /\ Rooted'
    BY <1>1, NothingGrows DEF GenerationInv
  <1>3. again \in BOOLEAN
    OBVIOUS
  <1>4. deployed \in DOMAIN Designs /\ core \subseteq DOMAIN design /\ DOMAIN design \subseteq Nat
    BY EntitiesAre DEF GenerationInv, GenerationTyped
  <1> HIDE DEF core, again
  <1>5. /\ q.pc = "accounts" /\ q.next = deployed /\ q.again = again /\ q.todo = core /\ q.worker = FALSE
        /\ q \in ProcType
    BY <1>3, <1>4 DEF G!Down, ProcType
  <1> HIDE DEF q
  <1>6. proc'[r] = q
    BY <1>1, Becoming
  <1>7. AsPlanned(r)'
    <2>1. DOMAIN design \subseteq DOMAIN G!Plan(q)
      BY <1>4, <1>5, PlanIs
    <2>2. core \subseteq DOMAIN G!Plan(proc'[r])
      BY <1>4, <1>6, <2>1
    <2>3. G!Plan(proc[r])' = G!Plan(proc'[r])
      BY DEF G!Plan
    <2>4. QED
      BY <1>5, <1>6, <2>2, <2>3 DEF AsPlanned
  <1>8. ProcFits(r)'
    BY <1>1, <1>5, <1>6, <1>7 DEF ProcFits, again
  <1>9. QED
    BY <1>1, <1>2, <1>4, <1>5, <1>8, OneBecomes DEF GenerationInv, GenerationTyped

LEMMA PrepareKeeps ==
  ASSUME G!TableGenerationAssumption, GenerationInv, NEW r \in Replicas, G!Prepare(r)
  PROVE  GenerationInv'
  <1> DEFINE design == Designs[proc[r].next]
             made == {i \in DOMAIN design : G!Generates(design[i])}
             accounts == IF dialect = "mongodb" THEN {} ELSE G!Behind(Len(design), DOMAIN Own)
             todo == made \cup accounts
             q == [proc[r] EXCEPT !.pc = "boot", !.todo = todo]
  <1>1. G!Becomes(r, q) /\ UNCHANGED <<dialect, deployed, db, served, lostTables>> /\ proc[r].pc = "accounts"
    BY DEF G!Prepare
  <1>2. Grows /\ Rooted'
    BY <1>1, NothingGrows DEF GenerationInv
  <1>3. proc[r] \in ProcType /\ proc[r].next \in DOMAIN Designs /\ ProcFits(r)
    BY <1>1 DEF GenerationInv, GenerationTyped
  <1>4. /\ Len(design) \in Nat /\ DOMAIN design = 1..Len(design)
        /\ \A p : p.next = proc[r].next /\ p.pc = "boot" =>
             /\ DOMAIN G!Plan(p) \subseteq Nat
             /\ \A i \in DOMAIN design : i \in DOMAIN G!Plan(p) /\ G!Plan(p)[i] = design[i]
             /\ \A i \in DOMAIN Own : i > 0 /\ Len(design) + i \in DOMAIN G!Plan(p)
    BY <1>3, PlanIs
  <1>5. /\ made \subseteq 1..Len(design)
        /\ \A j \in accounts : \E i \in DOMAIN Own : j = Len(design) + i
    BY <1>4 DEF G!Behind
  <1>6. \A i \in DOMAIN Own : i \in Nat
    BY EntitiesAre
  <1>7. todo \in SUBSET Nat
    BY <1>4, <1>5, <1>6
  <1> HIDE DEF todo
  <1>8. /\ q \in ProcType /\ q.pc = "boot" /\ q.todo = todo /\ q.next = proc[r].next
        /\ q.again = proc[r].again /\ q.worker = proc[r].worker
    BY <1>3, <1>7 DEF ProcType
  <1> HIDE DEF q
  <1>9. proc'[r] = q
    BY <1>1, Becoming
  <1>10. /\ G!Plan(proc[r])' = G!Plan(q) /\ \A j : G!IsOwn(proc[r], j)' <=> j > Len(design)
    BY <1>8, <1>9 DEF G!Plan, G!IsOwn
  <1>11. AsPlanned(r)'
    <2>1. todo \subseteq DOMAIN G!Plan(q)
      BY <1>4, <1>5, <1>8 DEF todo
    <2>2. ASSUME NEW j \in todo
          PROVE  j > Len(design) \/ \E i \in DOMAIN design : G!Plan(q)[j] = design[i] /\ G!Generates(design[i])
      <3>1. CASE j \in made
        BY <1>4, <1>8, <3>1
      <3>2. CASE j \in accounts
        <4>1. PICK i \in DOMAIN Own : j = Len(design) + i
          BY <1>5, <3>2
        <4>2. i > 0 /\ i \in Nat
          BY <1>4, <1>6, <1>8
        <4>3. QED
          BY <1>4, <4>1, <4>2
      <3>3. QED
        BY <2>2, <3>1, <3>2 DEF todo
    <2>3. QED
      BY <1>8, <1>9, <1>10, <2>1, <2>2 DEF AsPlanned, G!Generates
  <1>12. ASSUME NEW i \in DOMAIN design, G!Generates(design[i]) PROVE Awaits(r, design[i])'
    <2>1. i \in todo /\ ~(i > Len(design)) /\ G!Plan(q)[i] = design[i]
      BY <1>4, <1>8, <1>12 DEF todo
    <2>2. QED
      BY <1>8, <1>9, <1>10, <2>1 DEF Awaits
  <1>13. ProcFits(r)'
    <2>1. /\ proc[r].again => proc[r].next \in served
          /\ proc[r].worker => OutboxTable \in DOMAIN db \cup lostTables
      BY <1>1, <1>3 DEF ProcFits
    <2>2. QED
      BY <1>1, <1>8, <1>9, <1>11, <1>12, <2>1 DEF ProcFits, G!Generates
  <1>14. QED
    BY <1>1, <1>2, <1>3, <1>8, <1>13, OneBecomes DEF GenerationInv, GenerationTyped

\* The accounts tables, each with what its statements do.
LEMMA EnsureKeeps ==
  ASSUME G!TableGenerationAssumption, GenerationInv, NEW r \in Replicas, G!EnsureAccounts(r)
  PROVE  GenerationInv'
  <1> DEFINE first == G!First(proc[r])
             e == G!Plan(proc[r])[first]
             todo == proc[r].todo \ {first}
             q == [proc[r] EXCEPT !.todo = todo]
  <1>1. /\ G!Becomes(r, q) /\ UNCHANGED <<dialect, deployed, served, lostTables>> /\ proc[r].pc = "accounts"
        /\ proc[r].todo # {}
        /\ UNCHANGED db \/ \E S \in SUBSET G!NewIndexes(e), K \in {{}, G!NewKeys(e)} : db' = G!With(e, S, K)
    BY DEF G!EnsureAccounts
  <1>2. /\ proc[r] \in ProcType /\ proc[r].next \in DOMAIN Designs /\ ProcFits(r) /\ Rooted
        /\ proc[r].todo \in SUBSET Nat /\ AsPlanned(r)
    BY <1>1 DEF GenerationInv, GenerationTyped, ProcFits, ProcType
  <1>3. e \in G!Entities
    <2>1. first \in proc[r].todo
      BY <1>1, <1>2, FirstIs
    <2>2. QED
      BY <1>2, <2>1, PlanIs DEF AsPlanned
  <1>4. Grows /\ Rooted'
    <2>1. CASE UNCHANGED db
      BY <1>1, <1>2, <2>1, NothingGrows
    <2>2. ASSUME NEW S \in SUBSET G!NewIndexes(e), NEW K, db' = G!With(e, S, K) PROVE Grows /\ Rooted'
      <3>1. S \in SUBSET G!IndexesOf(e) /\ lostTables \subseteq lostTables'
        BY <1>1, <2>2 DEF G!NewIndexes
      <3> HIDE DEF e
      <3>2. QED
        BY <1>1, <1>2, <1>3, <2>2, <3>1, WithGrows
    <2>3. QED
      BY <1>1, <2>1, <2>2
  <1>5. todo \in SUBSET Nat /\ todo \subseteq proc[r].todo
    BY <1>2
  <1> HIDE DEF todo
  <1>6. /\ q \in ProcType /\ q.pc = "accounts" /\ q.todo = todo /\ q.next = proc[r].next
        /\ q.again = proc[r].again /\ q.worker = proc[r].worker
    BY <1>1, <1>2, <1>5 DEF ProcType
  <1> HIDE DEF q
  <1>7. proc'[r] = q
    BY <1>1, Becoming
  <1>8. G!Plan(proc[r])' = G!Plan(proc[r])
    BY <1>1, <1>6, <1>7 DEF G!Plan
  <1>9. AsPlanned(r)'
    BY <1>2, <1>5, <1>6, <1>7, <1>8 DEF AsPlanned
  <1>10. ProcFits(r)'
    <2>1. /\ proc[r].again => proc[r].next \in served
          /\ proc[r].worker => OutboxTable \in DOMAIN db \cup lostTables
      BY <1>1, <1>2 DEF ProcFits
    <2>2. DOMAIN db \subseteq DOMAIN db'
      BY <1>4 DEF Grows
    <2>3. QED
      BY <1>1, <1>6, <1>7, <1>9, <2>1, <2>2 DEF ProcFits
  <1>11. QED
    BY <1>1, <1>2, <1>4, <1>6, <1>10, OneBecomes DEF GenerationInv, GenerationTyped

\* The next entity is in place, or its failure left what was there.
LEMMA ReportedKeeps ==
  ASSUME G!TableGenerationAssumption, GenerationInv, NEW r \in Replicas, proc[r].pc \in {"boot", "reload"}, proc[r].todo # {},
         G!Reported(G!Plan(proc[r])[G!First(proc[r])]), UNCHANGED <<dialect, deployed, deploys, served>>,
         G!Becomes(r, [proc[r] EXCEPT !.todo = @ \ {G!First(proc[r])},
                                      !.worker = @ \/ G!Plan(proc[r])[G!First(proc[r])].table = OutboxTable])
  PROVE  GenerationInv'
  <1>0. PICK e : e = G!Plan(proc[r])[G!First(proc[r])]
    OBVIOUS
  <1> DEFINE first == G!First(proc[r])
             todo == proc[r].todo \ {first}
             worker == proc[r].worker \/ e.table = OutboxTable
             q == [proc[r] EXCEPT !.todo = todo, !.worker = worker]
  <1>1. G!Becomes(r, q)
    BY <1>0
  <1>2. /\ proc[r] \in ProcType /\ proc[r].next \in DOMAIN Designs /\ ProcFits(r) /\ Rooted
        /\ proc[r].todo \in SUBSET Nat /\ AsPlanned(r) /\ (proc[r].pc = "reload" => proc[r].live \in DOMAIN Designs)
    BY DEF GenerationInv, GenerationTyped, ProcFits, ProcType, G!Serving
  <1>3. e \in G!Entities /\ first \in proc[r].todo
    <2>1. first \in proc[r].todo
      BY <1>2, FirstIs
    <2>2. QED
      BY <1>0, <1>2, <2>1, PlanIs DEF AsPlanned
  <1>4. Grows /\ Rooted' /\ Settled(e)' /\ e.table \in DOMAIN db' \cup lostTables'
    <2>1. G!Reported(e) /\ dialect' = dialect
      BY <1>0
    <2>2. QED
      BY <1>2, <1>3, <2>1, ReportedSettles
  <1>5. todo \in SUBSET Nat /\ todo \subseteq proc[r].todo /\ worker \in BOOLEAN
    BY <1>2
  <1> HIDE DEF todo, worker
  <1>6. /\ q \in ProcType /\ q.pc = proc[r].pc /\ q.todo = todo /\ q.next = proc[r].next
        /\ q.again = proc[r].again /\ q.worker = worker /\ q.live = proc[r].live
    BY <1>2, <1>5 DEF ProcType
  <1> HIDE DEF q
  <1>7. proc'[r] = q
    BY <1>1, Becoming
  <1>8. G!Plan(proc[r])' = G!Plan(proc[r]) /\ \A j : G!IsOwn(proc[r], j)' <=> G!IsOwn(proc[r], j)
    BY <1>6, <1>7 DEF G!Plan, G!IsOwn
  <1>9. AsPlanned(r)'
    BY <1>2, <1>5, <1>6, <1>7, <1>8 DEF AsPlanned, G!Generates
  <1>10. worker => OutboxTable \in DOMAIN db' \cup lostTables'
    <2>1. proc[r].worker => OutboxTable \in DOMAIN db \cup lostTables
      BY <1>2 DEF ProcFits
    <2>2. QED
      BY <1>4, <2>1 DEF worker, Grows
  <1>11. ASSUME dialect # "mongodb", NEW i \in DOMAIN Designs[proc[r].next], G!Generates(Designs[proc[r].next][i])
         PROVE  Settled(Designs[proc[r].next][i])' \/ Awaits(r, Designs[proc[r].next][i])'
    <2>0. PICK d : d = Designs[proc[r].next][i]
      OBVIOUS
    <2>1. Settled(d) \/ Awaits(r, d)
      BY <1>2, <1>11, <2>0 DEF ProcFits
    <2>2. Designs[proc'[r].next][i] = d
      BY <1>6, <1>7, <2>0
    <2>3. SUFFICES Settled(d)' \/ Awaits(r, d)'
      BY <1>6, <1>7, <2>0
    <2>4. CASE Settled(d)
      BY <1>4, <2>4, SettledStays
    <2>5. ASSUME NEW j \in proc[r].todo, ~G!IsOwn(proc[r], j), G!Plan(proc[r])[j] = d
          PROVE  Settled(d)' \/ Awaits(r, d)'
      <3>1. CASE j = first
        BY <1>0, <1>4, <2>5, <3>1
      <3>2. CASE j # first
        <4>1. j \in todo
          BY <2>5, <3>2 DEF todo
        <4>2. QED
          BY <1>6, <1>7, <1>8, <2>5, <4>1 DEF Awaits
      <3>3. QED
        BY <3>1, <3>2
    <2>6. QED
      BY <2>1, <2>4, <2>5 DEF Awaits
  <1>12. dialect # "mongodb" /\ proc[r].pc = "reload" => AllSettled(proc[r].live)'
    <2>1. PICK l : l = proc[r].live
      OBVIOUS
    <2>2. dialect # "mongodb" /\ proc[r].pc = "reload" => AllSettled(l)'
      BY <1>2, <1>4, <2>1, AllStay DEF ProcFits
    <2>3. l = proc'[r].live
      BY <1>6, <1>7, <2>1
    <2>4. AllSettled(l)' => AllSettled(proc[r].live)'
      BY <2>3 DEF AllSettled, Settled, Indexed, G!Covered, G!Created, G!TableThere, G!ColumnsOf, G!Generates
    <2>5. QED
      BY <2>2, <2>4
  <1>13. ProcFits(r)'
    <2>1. proc[r].again => proc[r].next \in served
      BY <1>2 DEF ProcFits
    <2>2. QED
      BY <1>6, <1>7, <1>9, <1>10, <1>11, <1>12, <2>1 DEF ProcFits, G!Generates
  <1>14. QED
    BY <1>2, <1>4, <1>6, <1>1, <1>13, OneBecomes DEF GenerationInv, GenerationTyped

LEMMA LiveStays ==
  ASSUME Grows, NEW r, AllSettled(proc[r].live), proc'[r].live = proc[r].live
  PROVE  AllSettled(proc[r].live)'
  <1>1. PICK l : l = proc[r].live
    OBVIOUS
  <1>2. AllSettled(l)' /\ l = proc'[r].live
    BY <1>1, AllStay
  <1>3. AllSettled(l)' => AllSettled(proc[r].live)'
    BY <1>2 DEF AllSettled, Settled, Indexed, G!Covered, G!Created, G!TableThere, G!ColumnsOf, G!Generates
  <1>4. QED
    BY <1>2, <1>3

\* What was generated once is accepted again, or has a cause.
LEMMA RefusedCause ==
  ASSUME NEW e, Settled(e), dialect # "mongodb", ~G!Accepted(e)
  PROVE  Cause(e)
  <1>1. SUFFICES ASSUME e.table \notin lostTables, ~(dialect = "mssql" /\ e.keys # {}) PROVE FALSE
    BY DEF Cause
  <1>2. e.table \in DOMAIN db /\ \A ix \in G!IndexesOf(e) : ~G!IndexRefused(e, ix)
    BY <1>1 DEF Settled
  <1>3. ~G!CreateRefused(e)
    BY <1>2 DEF G!CreateRefused, G!TableThere
  <1>4. G!AltersOf(e) = {}
    BY <1>1 DEF G!AltersOf
  <1>5. QED
    BY <1>2, <1>3, <1>4 DEF G!Accepted

\* After a failure: a later place, or the end of the boot or the reload.
LEMMA GiveUpKeeps ==
  ASSUME G!TableGenerationAssumption, GenerationInv, NEW r \in Replicas, proc[r].pc \in {"boot", "reload"}, proc[r].todo # {},
         NEW torn \in BOOLEAN, G!GiveUp(r, torn), UNCHANGED <<dialect, deployed, deploys, served>>, Grows, Rooted',
         ~torn /\ proc[r].again /\ ~G!IsOwn(proc[r], G!First(proc[r])) /\ dialect # "mongodb" =>
           \E i \in DOMAIN Designs[proc[r].next] : Cause(Designs[proc[r].next][i])
  PROVE  GenerationInv'
  <1>1. /\ proc[r] \in ProcType /\ proc[r].next \in DOMAIN Designs /\ ProcFits(r) /\ Rooted
        /\ proc[r].todo \in SUBSET Nat /\ AsPlanned(r) /\ (proc[r].pc = "reload" => proc[r].live \in DOMAIN Designs)
    BY DEF GenerationInv, GenerationTyped, ProcFits, ProcType, G!Serving
  <1>2. proc[r].worker => OutboxTable \in DOMAIN db' \cup lostTables'
    BY <1>1 DEF ProcFits, Grows
  <1>3. CASE G!IsOwn(proc[r], G!First(proc[r]))
    <2> DEFINE todo == proc[r].todo \ {G!First(proc[r])}
               q == [proc[r] EXCEPT !.todo = todo]
    <2>1. G!Becomes(r, q)
      BY <1>3 DEF G!GiveUp
    <2>2. todo \in SUBSET Nat /\ todo \subseteq proc[r].todo
      BY <1>1
    <2>3. \A j \in proc[r].todo : ~G!IsOwn(proc[r], j) => j \in todo
      BY <1>3
    <2> HIDE DEF todo
    <2>4. /\ q \in ProcType /\ q.pc = proc[r].pc /\ q.todo = todo /\ q.next = proc[r].next
          /\ q.again = proc[r].again /\ q.worker = proc[r].worker /\ q.live = proc[r].live
      BY <1>1, <2>2 DEF ProcType
    <2> HIDE DEF q
    <2>5. proc'[r] = q
      BY <2>1, Becoming
    <2>6. G!Plan(proc[r])' = G!Plan(proc[r]) /\ \A j : G!IsOwn(proc[r], j)' <=> G!IsOwn(proc[r], j)
      BY <2>4, <2>5 DEF G!Plan, G!IsOwn
    <2>7. AsPlanned(r)'
      <3>1. proc'[r].todo = todo /\ proc'[r].next = proc[r].next
        BY <2>4, <2>5
      <3>2. todo \subseteq DOMAIN G!Plan(proc[r])'
        BY <1>1, <2>2, <2>6 DEF AsPlanned
      <3>3. ASSUME NEW j \in todo
            PROVE  \/ G!IsOwn(proc[r], j)'
                   \/ \E i \in DOMAIN Designs[proc[r].next] :
                        G!Plan(proc[r])'[j] = Designs[proc[r].next][i] /\ G!Generates(Designs[proc[r].next][i])
        BY <1>1, <2>2, <2>6, <3>3 DEF AsPlanned
      <3>4. QED
        BY <3>1, <3>2, <3>3 DEF AsPlanned, G!Generates
    <2>8. \A e : (Awaits(r, e) => Awaits(r, e)') /\ (Settled(e) => Settled(e)')
      BY <2>3, <2>4, <2>5, <2>6, SettledStays DEF Awaits
    <2>9. \A i \in DOMAIN Designs[proc[r].next] :
            /\ Settled(Designs[proc[r].next][i]) => Settled(Designs[proc[r].next][i])'
            /\ Awaits(r, Designs[proc[r].next][i]) => Awaits(r, Designs[proc[r].next][i])'
      <3>1. ASSUME NEW i \in DOMAIN Designs[proc[r].next], NEW e, e = Designs[proc[r].next][i]
            PROVE  /\ Settled(Designs[proc[r].next][i]) => Settled(Designs[proc[r].next][i])'
                   /\ Awaits(r, Designs[proc[r].next][i]) => Awaits(r, Designs[proc[r].next][i])'
        <4>1. Designs[proc'[r].next][i] = e
          BY <2>4, <2>5, <3>1
        <4>2. QED
          BY <2>8, <3>1, <4>1
      <3>2. QED
        BY <3>1
    <2>10. dialect # "mongodb" /\ proc[r].pc = "reload" => AllSettled(proc[r].live)'
      BY <1>1, <2>4, <2>5, LiveStays DEF ProcFits
    <2>11. ProcFits(r)'
      BY <1>1, <1>2, <2>4, <2>5, <2>7, <2>9, <2>10 DEF ProcFits, G!Generates
    <2>12. QED
      BY <1>1, <2>1, <2>4, <2>11, OneBecomes DEF GenerationInv, GenerationTyped
  <1>4. CASE ~G!IsOwn(proc[r], G!First(proc[r]))
    <2> DEFINE ended == IF proc[r].pc = "boot" THEN "refused" ELSE "kept"
               q == [proc[r] EXCEPT !.pc = ended, !.todo = {}, !.torn = torn]
    <2>1. G!Becomes(r, q)
      BY <1>4 DEF G!GiveUp
    <2>2. ended \in {"refused", "kept"} /\ (ended = "kept" => proc[r].pc = "reload")
      OBVIOUS
    <2> HIDE DEF ended
    <2>3. /\ q \in ProcType /\ q.pc = ended /\ q.next = proc[r].next /\ q.torn = torn
          /\ q.again = proc[r].again /\ q.worker = proc[r].worker /\ q.live = proc[r].live
      BY <1>1, <2>2 DEF ProcType
    <2> HIDE DEF q
    <2>4. proc'[r] = q
      BY <2>1, Becoming
    <2>5. ~torn /\ proc[r].again /\ dialect # "mongodb" =>
            \E i \in DOMAIN Designs[proc'[r].next] : Cause(Designs[proc[r].next][i])'
      <3>1. SUFFICES ASSUME ~torn, proc[r].again, dialect # "mongodb"
                     PROVE  \E i \in DOMAIN Designs[proc'[r].next] : Cause(Designs[proc[r].next][i])'
        OBVIOUS
      <3>2. PICK i \in DOMAIN Designs[proc[r].next] : Cause(Designs[proc[r].next][i])
        BY <1>4, <3>1
      <3>3. PICK e : e = Designs[proc[r].next][i]
        OBVIOUS
      <3>4. e = Designs[proc'[r].next][i] /\ i \in DOMAIN Designs[proc'[r].next]
        BY <2>3, <2>4, <3>3
      <3>5. Cause(Designs[proc[r].next][i])'
        BY <3>2, <3>3, <3>4 DEF Cause, Grows
      <3>6. QED
        BY <3>4, <3>5
    <2>6. dialect # "mongodb" /\ proc[r].pc = "reload" => AllSettled(proc[r].live)'
      BY <1>1, <2>3, <2>4, LiveStays DEF ProcFits
    <2>7. ProcFits(r)'
      BY <1>2, <2>2, <2>3, <2>4, <2>5, <2>6 DEF ProcFits
    <2>8. QED
      BY <1>1, <2>1, <2>2, <2>3, <2>7, OneBecomes DEF GenerationInv, GenerationTyped
  <1>5. QED
    BY <1>3, <1>4

LEMMA GenerateKeeps ==
  ASSUME G!TableGenerationAssumption, GenerationInv, NEW r \in Replicas, G!GenerateNext(r)
  PROVE  GenerationInv'
  <1>1. /\ proc[r].pc \in {"boot", "reload"} /\ proc[r].todo # {}
        /\ UNCHANGED <<dialect, deployed, deploys, served>>
    BY DEF G!GenerateNext
  <1>2. PICK e : e = G!Plan(proc[r])[G!First(proc[r])]
    OBVIOUS
  <1>3. /\ proc[r] \in ProcType /\ proc[r].next \in DOMAIN Designs /\ ProcFits(r) /\ Rooted
        /\ proc[r].todo \in SUBSET Nat /\ AsPlanned(r)
    BY <1>1 DEF GenerationInv, GenerationTyped, ProcFits, ProcType
  <1>4. e \in G!Entities /\ G!First(proc[r]) \in proc[r].todo
    <2>1. G!First(proc[r]) \in proc[r].todo
      BY <1>1, <1>3, FirstIs
    <2>2. QED
      BY <1>2, <1>3, <2>1, PlanIs DEF AsPlanned
  <1>5. CASE /\ G!Reported(e)
             /\ G!Becomes(r, [proc[r] EXCEPT !.todo = @ \ {G!First(proc[r])}, !.worker = @ \/ e.table = OutboxTable])
    BY <1>1, <1>2, <1>5, ReportedKeeps
  <1>6. CASE G!Refused(e) /\ G!GiveUp(r, FALSE)
    <2>1. ~G!Accepted(e) /\ UNCHANGED <<db, lostTables>>
      BY <1>6 DEF G!Refused
    <2>2. Grows /\ Rooted'
      BY <1>1, <1>3, <2>1, NothingGrows
    <2>3. ASSUME proc[r].again, ~G!IsOwn(proc[r], G!First(proc[r])), dialect # "mongodb"
          PROVE  \E i \in DOMAIN Designs[proc[r].next] : Cause(Designs[proc[r].next][i])
      <3>1. PICK i \in DOMAIN Designs[proc[r].next] : e = Designs[proc[r].next][i] /\ G!Generates(e)
        BY <1>1, <1>2, <1>3, <1>4, <2>3 DEF AsPlanned
      <3>2. proc[r].next \in served
        BY <1>1, <1>3, <2>3 DEF ProcFits
      <3>3. Settled(e)
        BY <2>3, <3>1, <3>2 DEF GenerationInv, AllSettled
      <3>4. QED
        BY <2>1, <2>3, <3>1, <3>3, RefusedCause
    <2>4. QED
      BY <1>1, <1>6, <2>2, <2>3, GiveUpKeeps
  <1>7. CASE G!StatementFails(e) /\ G!GiveUp(r, TRUE)
    <2>1. Grows /\ Rooted'
      BY <1>1, <1>3, <1>4, <1>7, FailureGrows
    <2>2. QED
      BY <1>1, <1>7, <2>1, GiveUpKeeps
  <1>8. QED
    BY <1>2, <1>5, <1>6, <1>7 DEF G!GenerateNext

LEMMA ServeKeeps ==
  ASSUME G!TableGenerationAssumption, GenerationInv, NEW r \in Replicas, G!Serve(r)
  PROVE  GenerationInv'
  <1> DEFINE q == [proc[r] EXCEPT !.pc = "up", !.live = proc[r].next]
  <1>1. /\ G!Becomes(r, q) /\ UNCHANGED <<dialect, deployed, db, lostTables>> /\ proc[r].pc \in {"boot", "reload"}
        /\ proc[r].todo = {} /\ served' = served \cup {proc[r].next}
    BY DEF G!Serve
  <1>2. Grows /\ Rooted'
    BY <1>1, NothingGrows DEF GenerationInv
  <1>3. proc[r] \in ProcType /\ proc[r].next \in DOMAIN Designs /\ ProcFits(r)
    BY <1>1 DEF GenerationInv, GenerationTyped
  <1>4. dialect # "mongodb" => AllSettled(proc[r].next)
    BY <1>1, <1>3 DEF ProcFits, AllSettled, Awaits
  <1>5. q \in ProcType /\ q.pc = "up" /\ q.live = proc[r].next /\ q.next = proc[r].next /\ q.worker = proc[r].worker
    BY <1>3 DEF ProcType
  <1> HIDE DEF q
  <1>6. proc'[r] = q
    BY <1>1, Becoming
  <1>7. ProcFits(r)'
    <2>1. PICK l : l = proc[r].next
      OBVIOUS
    <2>2. proc'[r].live = l
      BY <1>5, <1>6, <2>1
    <2>3. dialect # "mongodb" => AllSettled(l)'
      BY <1>2, <1>4, <2>1, AllStay
    <2>4. AllSettled(l)' => AllSettled(proc[r].live)'
      BY <2>2 DEF AllSettled, Settled, Indexed, G!Covered, G!Created, G!TableThere, G!ColumnsOf, G!Generates
    <2>5. proc[r].worker => OutboxTable \in DOMAIN db \cup lostTables
      BY <1>3 DEF ProcFits
    <2>6. QED
      BY <1>1, <1>5, <1>6, <2>3, <2>4, <2>5 DEF ProcFits
  <1>8. QED
    BY <1>1, <1>2, <1>3, <1>4, <1>5, <1>7, OneBecomes DEF GenerationInv, GenerationTyped

LEMMA ReloadKeeps ==
  ASSUME G!TableGenerationAssumption, GenerationInv, NEW r \in Replicas, G!Reload(r)
  PROVE  GenerationInv'
  <1> DEFINE prior == Designs[proc[r].live]
             new == Designs[deployed]
             here == {i \in DOMAIN new : G!Generates(new[i])}
             known == {i \in here : \E k \in DOMAIN prior : prior[k].route = new[i].route}
             changed == {i \in known : new[i] \notin G!Range(prior)}
             todo == G!ToGenerate(r)
             again == deployed \in served
             q == [proc[r] EXCEPT !.pc = "reload", !.next = deployed, !.again = again, !.todo = todo, !.torn = FALSE]
  <1>1. G!Becomes(r, q) /\ UNCHANGED <<dialect, deployed, db, served, lostTables>> /\ proc[r].pc \in {"up", "kept"}
    BY DEF G!Reload
  <1>2. Grows /\ Rooted'
    BY <1>1, NothingGrows DEF GenerationInv
  <1>3. proc[r] \in ProcType /\ proc[r].live \in DOMAIN Designs /\ ProcFits(r) /\ deployed \in DOMAIN Designs
    BY <1>1 DEF GenerationInv, GenerationTyped, G!Serving
  <1>4. /\ Len(new) \in Nat /\ DOMAIN new = 1..Len(new)
        /\ \A p : p.next = deployed /\ p.pc = "reload" => \A i \in DOMAIN new :
             /\ i \in DOMAIN G!Plan(p) /\ G!Plan(p)[i] = new[i]
             /\ Len(new) + i \in DOMAIN G!Plan(p) /\ G!Plan(p)[Len(new) + i] = new[i]
    BY <1>3, PlanIs
  <1>5. /\ dialect = "mongodb" => todo = {}
        /\ dialect # "mongodb" => todo = (here \ known) \cup {Len(new) + i : i \in changed}
    BY DEF G!ToGenerate, G!Behind
  <1> HIDE DEF todo
  <1>6. ASSUME NEW j \in todo
        PROVE  \E i \in DOMAIN new : (j = i \/ j = Len(new) + i) /\ G!Generates(new[i])
    <2>1. CASE j \in here \ known
      BY <2>1
    <2>2. CASE j \in {Len(new) + i : i \in changed}
      BY <2>2
    <2>3. QED
      BY <1>5, <1>6, <2>1, <2>2
  <1>7. todo \in SUBSET Nat
    BY <1>4, <1>6
  <1>8. again \in BOOLEAN
    OBVIOUS
  <1> HIDE DEF again
  <1>9. /\ q \in ProcType /\ q.pc = "reload" /\ q.todo = todo /\ q.next = deployed
        /\ q.again = again /\ q.worker = proc[r].worker /\ q.live = proc[r].live
    BY <1>3, <1>7, <1>8 DEF ProcType
  <1> HIDE DEF q
  <1>10. proc'[r] = q
    BY <1>1, Becoming
  <1>11. G!Plan(proc[r])' = G!Plan(q) /\ \A j : ~G!IsOwn(proc[r], j)'
    BY <1>9, <1>10 DEF G!Plan, G!IsOwn
  <1>12. \A i \in DOMAIN new :
           /\ i \in DOMAIN G!Plan(q) /\ G!Plan(q)[i] = new[i]
           /\ Len(new) + i \in DOMAIN G!Plan(q) /\ G!Plan(q)[Len(new) + i] = new[i]
    BY <1>4, <1>9
  <1>13. AsPlanned(r)'
    <2>1. \A j \in todo : j \in DOMAIN G!Plan(q) /\ \E i \in DOMAIN new : G!Plan(q)[j] = new[i] /\ G!Generates(new[i])
      BY <1>6, <1>12
    <2>2. proc'[r].todo = todo /\ proc'[r].next = deployed
      BY <1>9, <1>10
    <2>3. QED
      BY <1>11, <2>1, <2>2 DEF AsPlanned, G!Generates
  <1>14. ASSUME dialect # "mongodb", NEW i \in DOMAIN new, G!Generates(new[i]), NEW e, e = new[i]
         PROVE  Settled(e)' \/ Awaits(r, e)'
    <2>1. ASSUME NEW j \in todo, G!Plan(q)[j] = e PROVE Awaits(r, e)'
      BY <1>9, <1>10, <1>11, <2>1 DEF Awaits
    <2>2. CASE i \notin known
      <3>1. i \in todo /\ G!Plan(q)[i] = e
        BY <1>5, <1>12, <1>14, <2>2
      <3>2. QED
        BY <2>1, <3>1
    <2>3. CASE i \in changed
      <3>1. Len(new) + i \in todo /\ G!Plan(q)[Len(new) + i] = e
        BY <1>5, <1>12, <1>14, <2>3
      <3>2. QED
        BY <2>1, <3>1
    <2>4. CASE new[i] \in G!Range(prior)
      <3>1. PICK k \in DOMAIN prior : prior[k] = e
        BY <1>14, <2>4 DEF G!Range
      <3>2. AllSettled(proc[r].live)
        BY <1>1, <1>3, <1>14 DEF ProcFits
      <3>3. Settled(e)
        BY <1>14, <3>1, <3>2 DEF AllSettled
      <3>4. QED
        BY <1>2, <3>3, SettledStays
    <2>5. QED
      BY <2>2, <2>3, <2>4
  <1>15. ProcFits(r)'
    <2>1. proc[r].worker => OutboxTable \in DOMAIN db \cup lostTables
      BY <1>3 DEF ProcFits
    <2>2. dialect # "mongodb" => AllSettled(proc[r].live)'
      BY <1>1, <1>2, <1>3, <1>9, <1>10, LiveStays DEF ProcFits
    <2>3. proc'[r].next = deployed /\ proc'[r].pc = "reload" /\ proc'[r].worker = proc[r].worker /\ proc'[r].again = again
      BY <1>9, <1>10
    <2>4. ASSUME dialect # "mongodb", NEW i \in DOMAIN Designs[proc'[r].next], G!Generates(Designs[proc'[r].next][i])
          PROVE  Settled(Designs[proc[r].next][i])' \/ Awaits(r, Designs[proc[r].next][i])'
      <3>1. PICK e : e = new[i]
        OBVIOUS
      <3>2. e = Designs[proc'[r].next][i]
        BY <2>3, <3>1
      <3>3. Settled(e)' \/ Awaits(r, e)'
        BY <1>14, <2>3, <2>4, <3>1
      <3>4. QED
        BY <3>2, <3>3
    <2>5. again => deployed \in served'
      BY <1>1 DEF again
    <2>6. QED
      BY <1>1, <1>13, <2>1, <2>2, <2>3, <2>4, <2>5 DEF ProcFits, G!Generates
  <1>16. QED
    BY <1>1, <1>2, <1>3, <1>9, <1>15, OneBecomes DEF GenerationInv, GenerationTyped

LEMMA StopKeeps ==
  ASSUME G!TableGenerationAssumption, GenerationInv, NEW r \in Replicas, G!Stop(r)
  PROVE  GenerationInv'
  <1>1. G!Becomes(r, G!Down) /\ UNCHANGED <<dialect, deployed, db, served, lostTables>>
    BY DEF G!Stop
  <1>2. Grows /\ Rooted'
    BY <1>1, NothingGrows DEF GenerationInv
  <1>3. G!Down \in ProcType /\ G!Down.pc = "down" /\ G!Down.worker = FALSE
    BY DEF G!Down, ProcType
  <1>4. proc'[r] = G!Down
    BY <1>1, Becoming
  <1>5. ProcFits(r)'
    BY <1>3, <1>4 DEF ProcFits
  <1>6. QED
    BY <1>1, <1>2, <1>3, <1>5, OneBecomes DEF GenerationInv, GenerationTyped

LEMMA CreateKeeps ==
  ASSUME G!TableGenerationAssumption, GenerationInv, NEW r \in Replicas, G!CreateTable(r)
  PROVE  GenerationInv'
  <1>1. UNCHANGED <<dialect, deployed, proc, served>> /\ proc[r].live \in DOMAIN Designs
    BY DEF G!CreateTable, GenerationInv, GenerationTyped
  <1>2. PICK i \in DOMAIN Designs[proc[r].live] :
          G!Reported(Designs[proc[r].live][i]) \/ G!StatementFails(Designs[proc[r].live][i])
    BY DEF G!CreateTable
  <1>3. PICK e : e = Designs[proc[r].live][i]
    OBVIOUS
  <1>4. e \in G!Entities
    BY <1>1, <1>2, <1>3, EntitiesAre
  <1>5. Grows /\ Rooted'
    BY <1>1, <1>2, <1>3, <1>4, ReportedSettles, FailureGrows DEF GenerationInv
  <1>6. QED
    BY <1>1, <1>5, AllProcsStay DEF GenerationInv, GenerationTyped

LEMMA GenerationNext ==
  ASSUME G!TableGenerationAssumption, GenerationInv, [G!Next]_generation
  PROVE  GenerationInv'
  <1>1. CASE G!Deploy
    <2>1. UNCHANGED <<dialect, db, proc, served, lostTables>> /\ deployed' \in DOMAIN Designs
      BY <1>1 DEF G!Deploy
    <2>2. QED
      BY <2>1, NothingGrows, AllProcsStay DEF GenerationInv
  <1>2. ASSUME NEW r \in Replicas,
               \/ G!Boot(r) \/ G!EnsureAccounts(r) \/ G!Prepare(r) \/ G!GenerateNext(r) \/ G!Serve(r)
               \/ G!Reload(r) \/ G!CreateTable(r) \/ G!Stop(r)
        PROVE  GenerationInv'
    BY <1>2, BootKeeps, EnsureKeeps, PrepareKeeps, GenerateKeeps, ServeKeeps, ReloadKeeps, CreateKeeps, StopKeeps
  <1>3. CASE UNCHANGED generation
    <2>1. UNCHANGED <<dialect, deployed, db, proc, served, lostTables>>
      BY <1>3 DEF generation
    <2>2. QED
      BY <2>1, NothingGrows, AllProcsStay DEF GenerationInv, GenerationTyped
  <1>4. QED
    BY <1>1, <1>2, <1>3 DEF G!Next

LEMMA GenerationFits == GenerationInv => G!TablesFit
  <1> SUFFICES ASSUME GenerationInv, NEW r \in Replicas
               PROVE  /\ G!Serving(r) /\ dialect # "mongodb" =>
                           /\ proc[r].worker => OutboxTable \in DOMAIN db \cup lostTables
                           /\ \A i \in DOMAIN Designs[proc[r].live] :
                                LET e == Designs[proc[r].live][i] IN
                                G!Generates(e) =>
                                  \/ e.table \in DOMAIN db /\ \A ix \in G!IndexesOf(e) :
                                       \/ ix \in db[e.table].indexes \/ ~G!Covered(e, ix)
                                       \/ ix.name \in lostTables \/ G!Ambiguous(e, ix)
                                  \/ e.table \in lostTables
                      /\ proc[r].pc \in {"refused", "kept"} /\ proc[r].again /\ ~proc[r].torn =>
                           \/ dialect = "mongodb"
                           \/ \E i \in DOMAIN Designs[proc[r].next] :
                                LET e == Designs[proc[r].next][i] IN
                                e.table \in lostTables \/ (dialect = "mssql" /\ e.keys # {})
    BY DEF G!TablesFit, G!InPlace, G!Again
  <1>1. ProcFits(r)
    BY DEF GenerationInv
  <1>2. QED
    BY <1>1 DEF ProcFits, AllSettled, Settled, Indexed, Cause, G!Serving

----------------------------------------------------------------------------
(* Services *)

allParts == <<part, calls, values, imports, references, pages, lints, tools, generation, triggers>>

LEMMA PartsInit ==
  ServicesInit => R!Init /\ V!Init /\ I!Init /\ D!Init /\ P!Init /\ L!Init /\ M!Init /\ G!Init
  BY DEF ServicesInit

\* A step of the services is, for each part, one of its own or none.
LEMMA PartsNext ==
  ASSUME [ServicesNext]_allParts
  PROVE  /\ [R!Next]_calls /\ [V!Next]_values /\ [I!Next]_imports
         /\ [D!Next]_references /\ [P!Next]_pages /\ [L!Next]_lints /\ [M!Next]_tools /\ [G!Next]_generation
  BY DEF ServicesNext, allParts

\* What was done, rules in service since the request began admitted with all its
\* columns, in a schema of that time.
THEOREM AllDoneUnderRules == ServicesSpec => []DoneUnderRules
  <1>1. ServicesInit => RequestInv
    BY PartsInit, RequestInit
  <1>2. RequestInv /\ [ServicesNext]_allParts => RequestInv'
    BY PartsNext, RequestNext
  <1>3. RequestInv => DoneUnderRules
    BY DEF RequestInv, DoneUnderRules
  <1>4. QED
    BY <1>1, <1>2, <1>3, PTL DEF ServicesSpec, allParts

\* What is refused, some configuration in service did not admit as it was asked,
\* or the queue had changed it.
THEOREM RefusalsHaveCauses == ServicesSpec => []RefusedForCause
  <1>1. ServicesInit => RequestInv
    BY PartsInit, RequestInit
  <1>2. RequestInv /\ [ServicesNext]_allParts => RequestInv'
    BY PartsNext, RequestNext
  <1>3. RequestInv => RefusedForCause
    BY DEF RequestInv, RefusedForCause
  <1>4. QED
    BY <1>1, <1>2, <1>3, PTL DEF ServicesSpec, allParts

\* Of every column and every value: what a row holds is what its last writer
\* meant, and what it was told, but for the departures known.
THEOREM RowsHoldWhatWasMeant == ServicesSpec => []StoredAsMeant
  <1>1. ServicesInit => ValueInv
    BY PartsInit, ValueInit, ServicesAssumption
  <1>2. ValueInv /\ [ServicesNext]_allParts => ValueInv'
    BY PartsNext, ValueNext, ServicesAssumption
  <1>3. ValueInv => StoredAsMeant
    BY DEF ValueInv, StoredAsMeant
  <1>4. QED
    BY <1>1, <1>2, <1>3, PTL DEF ServicesSpec, allParts

\* Of every tool call, over any reloads: what it did, REST would have let the
\* caller do; what it refused, REST or the tool refuses; and it was listed so.
THEOREM ToolsLikeRest == ServicesSpec => []McpLikeRest
  <1>1. ServicesInit => CallInv
    BY PartsInit, CallInit, ServicesAssumption
  <1>2. CallInv /\ [ServicesNext]_allParts => CallInv'
    BY PartsNext, CallNext, ServicesAssumption
  <1>3. CallInv => McpLikeRest
    BY LastClause, ServicesAssumption DEF CallInv, Answers, McpLikeRest, M!McpLikeRest
  <1>4. QED
    BY <1>1, <1>2, <1>3, PTL DEF ServicesSpec, allParts

LEMMA LintInit == L!Init => LintInv
  BY DEF L!Init, LintInv

\* Of any configuration: what the lint had nothing to say of runs, but for the
\* names excused.
THEOREM CleanLintRuns == ServicesSpec => []LintedRuns
  <1>1. ServicesInit => LintInv
    BY PartsInit, LintInit
  <1>2. LintInv /\ [ServicesNext]_allParts => LintInv'
    BY PartsNext, LintNext
  <1>3. LintInv => LintedRuns
    <2>1. SUFFICES ASSUME LintInv, lintMode # "off", report = {}, outcome \notin {"none", "ran"}
                   PROVE  Excused(stmt)
      BY DEF LintedRuns, L!LintedRuns, Excused
    <2>2. phase # "boot" /\ L!Lint(config) = {}
      BY <2>1 DEF LintInv
    <2>3. PICK r \in DOMAIN config.entity : stmt \in L!Statements(r) /\ outcome = L!Outcome(stmt)
      BY <2>1 DEF LintInv
    <2>4. QED
      BY <2>1, <2>2, <2>3, CleanRuns, ServicesAssumption DEF LintInv
  <1>4. QED
    BY <1>1, <1>2, <1>3, PTL DEF ServicesSpec, allParts

\* An import that succeeds has put all its rows in the table or on the queue;
\* one that fails leaves nothing on a SQL database, and in MongoDB the rows that
\* its answer counts.
THEOREM ImportsWhole == ServicesSpec => []ImportWhole
  <1>1. ServicesInit => ImportInv
    BY PartsInit, ImportInit, ServicesAssumption
  <1>2. ImportInv /\ [ServicesNext]_allParts => ImportInv'
    BY PartsNext, ImportNext, ServicesAssumption
  <1>3. ImportInv => ImportWhole
    BY SameCardinality DEF ImportInv, EachImport, InHand, Answered, ImportWhole, I!ImportWhole
  <1>4. QED
    BY <1>1, <1>2, <1>3, PTL DEF ServicesSpec, allParts

\* A primary key refuses an import, or a POST, for a cause outside of the
\* numbers that it gave out.
THEOREM RefusalsByKeyCaused == ServicesSpec => []DuplicatesHaveCauses
  <1>1. ServicesInit => ImportInv
    BY PartsInit, ImportInit, ServicesAssumption
  <1>2. ImportInv /\ [ServicesNext]_allParts => ImportInv'
    BY PartsNext, ImportNext, ServicesAssumption
  <1>3. ImportInv => DuplicatesHaveCauses
    BY DEF ImportInv, EachImport, Caused, Covered, Passed0, DuplicatesHaveCauses, I!DuplicatesHaveCauses
  <1>4. QED
    BY <1>1, <1>2, <1>3, PTL DEF ServicesSpec, allParts

\* A live child in a table that a reference governs refers to a live parent,
\* but when it was written unchecked or beside the DELETE of its parent.
THEOREM OrphansHaveRaced == ServicesSpec => []OrphansRaced
  <1>1. ServicesInit => ReferencesInv
    BY PartsInit, ReferencesInit, ServicesAssumption
  <1>2. ReferencesInv /\ [ServicesNext]_allParts => ReferencesInv'
    BY PartsNext, ReferencesNext, ServicesAssumption
  <1>3. ReferencesInv => OrphansRaced
    BY DEF ReferencesInv, OrphansRaced
  <1>4. QED
    BY <1>1, <1>2, <1>3, PTL DEF ServicesSpec, allParts

\* Whatever others change, a client with a cursor gets each row that nobody
\* touches once, but for those out of its reach; and with page numbers, if
\* nobody changes anything.
THEOREM PagesWhole == ServicesSpec => []PagesComplete
  <1>1. ServicesInit => PagingInv
    BY PartsInit, PagingInit, ServicesAssumption
  <1>2. PagingInv /\ [ServicesNext]_allParts => PagingInv'
    BY PartsNext, PagingNext, ServicesAssumption
  <1>3. PagingInv => PagesComplete
    BY PagingComplete DEF PagesComplete
  <1>4. QED
    BY <1>1, <1>2, <1>3, PTL DEF ServicesSpec, allParts

\* Over restarts, reloads, requests, replicas and edits of any configurations:
\* what is served has its tables and indexes, and what was served once can be
\* generated again.
THEOREM GeneratedTablesFit == ServicesSpec => []TablesFit
  <1>1. ServicesInit => GenerationInv
    BY PartsInit, GenerationInit, ServicesAssumption
  <1>2. GenerationInv /\ [ServicesNext]_allParts => GenerationInv'
    BY PartsNext, GenerationNext, ServicesAssumption
  <1>3. GenerationInv => TablesFit
    BY GenerationFits DEF TablesFit
  <1>4. QED
    BY <1>1, <1>2, <1>3, PTL DEF ServicesSpec, allParts

=============================================================================
