---------------------- MODULE NumbersAndTriggersProofs ----------------------
(***************************************************************************)
(* Theorems about what transactions take and leave.  Of RunningNumbers, for *)
(* every set of transactions and of legacy documents and any number of      *)
(* failed statements: the numbers.  Of Triggers, as a part of Services, for *)
(* any documents, requests, stock and plans: that no race or failure makes   *)
(* the stock and the books differ from the documents.                       *)
(***************************************************************************)
EXTENDS RunningNumbers, Services, FiniteSetTheorems, WellFoundedInduction, TLAPS

\* The lock is held by a transaction that has taken a number beyond the counter,
\* or by one that was left open.
LockHeld ==
  /\ holder # Unlocked => holder \in leftOpen \/ (stage[holder] = "numbered" /\ number[holder] > seqValue)
  /\ \A t \in leftOpen : stage[t] = "aborted"

\* While all is in order, a number is taken under the lock and is the next one,
\* and who seeds an unused scope has seen every legacy document.
NextInLine ==
  Orderly =>
    /\ \A t \in Txs : stage[t] = "numbered" =>
         holder = t /\ number[t] = (IF seqValue = 0 THEN Last ELSE seqValue) + 1
    /\ \A t \in Txs : stage[t] = "insert" /\ seqValue = 0 => seed[t] = Last
    /\ seqValue = 0 \/ seqValue > Last

Inductive == TypeOK /\ LockHeld /\ NextInLine /\ GapFree /\ NeverRefused

----------------------------------------------------------------------------

\* A number that is next in line is on no committed document.
LEMMA NextIsUnused ==
  ASSUME Inductive, Orderly, NEW t \in Txs, stage[t] = "numbered"
  PROVE  number[t] \notin Used
<1>1. number[t] = (IF seqValue = 0 THEN Last ELSE seqValue) + 1
  BY DEF Inductive, NextInLine
<1>2. {number[u] : u \in {v \in Txs : stage[v] = "committed"}}
        = IF seqValue = 0 THEN {} ELSE (Last + 1)..seqValue
  BY DEF Inductive, GapFree
<1>3. seqValue \in Nat /\ (seqValue = 0 \/ seqValue > Last)
  BY DEF Inductive, NextInLine, TypeOK
<1> QED
  BY <1>1, <1>2, <1>3, RunningNumbersAssumption DEF Used

\* The legacy maximum of an unused scope.
LEMMA UnusedScope ==
  ASSUME Inductive, Orderly, seqValue = 0, NEW m \in Used \cup {0}, IsLast(m)
  PROVE  m = Last
<1>1. {number[u] : u \in {v \in Txs : stage[v] = "committed"}} = {}
  BY DEF Inductive, GapFree
<1>2. Used = Legacy
  BY <1>1 DEF Used
<1> QED
  BY <1>2, RunningNumbersAssumption DEF IsLast


LEMMA UsedType ==
  ASSUME TypeOK
  PROVE  Used \subseteq Nat
<1>1. Legacy \subseteq Nat
  BY RunningNumbersAssumption
<1>2. \A t \in Txs : number[t] \in Nat
  BY DEF TypeOK
<1> QED
  BY <1>1, <1>2 DEF Used

LEMMA InitInductive == Init => Inductive
  BY RunningNumbersAssumption
  DEF Init, Inductive, TypeOK, LockHeld, NextInLine, GapFree, NeverRefused, Active

LEMMA TypeStep == TypeOK /\ [Next]_vars => TypeOK'
<1> SUFFICES ASSUME TypeOK, [Next]_vars PROVE TypeOK'
  OBVIOUS
<1> USE UsedType, RunningNumbersAssumption DEF TypeOK, Goto, Take, Active, Ended, database, DropTx
<1>1. ASSUME NEW t \in Txs, Increment(t) PROVE TypeOK'
  BY <1>1 DEF Increment, TakeNext
<1>2. ASSUME NEW t \in Txs, IncrementFails(t) PROVE TypeOK'
  BY <1>2 DEF IncrementFails, GiveUp, Fault
<1>3. ASSUME NEW t \in Txs, ReadMax(t) PROVE TypeOK'
  BY <1>3 DEF ReadMax
<1>4. ASSUME NEW t \in Txs, ReadMaxFails(t) PROVE TypeOK'
  BY <1>4 DEF ReadMaxFails, Fault
<1>5. ASSUME NEW t \in Txs, Seed(t) PROVE TypeOK'
  BY <1>5 DEF Seed
<1>6. ASSUME NEW t \in Txs, SeedFails(t) PROVE TypeOK'
  BY <1>6 DEF SeedFails, Fault
<1>7. ASSUME NEW t \in Txs, Retry(t) PROVE TypeOK'
  BY <1>7 DEF Retry, TakeNext
<1>8. ASSUME NEW t \in Txs, RetryFails(t) PROVE TypeOK'
  BY <1>8 DEF RetryFails, GiveUp, Fault
<1>9. ASSUME NEW t \in Txs, Commit(t) \/ Refuse(t) \/ Abort(t) PROVE TypeOK'
  BY <1>9 DEF Commit, Refuse, Abort, Release
<1>10. ASSUME NEW t \in Txs, Abandon(t) PROVE TypeOK'
  BY <1>10 DEF Abandon
<1>11. CASE UNCHANGED vars
  BY <1>11 DEF vars
<1> QED
  BY <1>1, <1>2, <1>3, <1>4, <1>5, <1>6, <1>7, <1>8, <1>9, <1>10, <1>11 DEF Next, Proceed

\* A step of one transaction that commits nothing leaves the rest in place.
LEMMA NoCommit ==
  ASSUME Inductive, TypeOK', NEW t \in Txs, NEW where \in (Active \cup Ended) \ {"committed"},
         Goto(t, where), stage[t] # "committed", UNCHANGED seqValue,
         number' = number \/ Take(t, number'[t]), guessed \subseteq guessed', leftOpen \subseteq leftOpen'
  PROVE  GapFree'
<1>1. \A u \in Txs : (stage'[u] = "committed" <=> stage[u] = "committed")
                     /\ (stage[u] = "committed" => number'[u] = number[u])
  BY DEF Inductive, TypeOK, Goto, Take
<1>2. {u \in Txs : stage'[u] = "committed"} = {u \in Txs : stage[u] = "committed"}
  BY <1>1
<1>3. {number'[u] : u \in {v \in Txs : stage'[v] = "committed"}}
       = {number[u] : u \in {v \in Txs : stage[v] = "committed"}}
  BY <1>1, <1>2
<1> QED
  BY <1>1, <1>2, <1>3 DEF Inductive, GapFree, Orderly

LEMMA StepInductive == Inductive /\ [Next]_vars => Inductive'
<1> SUFFICES ASSUME Inductive, [Next]_vars PROVE Inductive'
  OBVIOUS
<1>0. TypeOK /\ TypeOK'
  BY TypeStep DEF Inductive
<1> USE DEF Active, Ended, database, Orderly, DropTx
<1>1. ASSUME NEW t \in Txs, Increment(t) PROVE Inductive'
  <2>1. LockHeld' /\ NextInLine' /\ NeverRefused'
    BY <1>0, <1>1, RunningNumbersAssumption DEF Inductive, TypeOK, LockHeld, NextInLine, NeverRefused, Increment, TakeNext, Take, Goto
  <2>2. GapFree'
    BY <1>0, <1>1, NoCommit DEF Increment, TakeNext, Take, Goto, TypeOK
  <2> QED
    BY <1>0, <2>1, <2>2 DEF Inductive
<1>2. ASSUME NEW t \in Txs, IncrementFails(t) PROVE Inductive'
  <2>1. LockHeld' /\ NextInLine' /\ NeverRefused'
    BY <1>0, <1>2 DEF Inductive, TypeOK, LockHeld, NextInLine, NeverRefused, IncrementFails, GiveUp, Take, Goto
  <2>2. GapFree'
    BY <1>0, <1>2, NoCommit DEF IncrementFails, GiveUp, Take, Goto, TypeOK
  <2> QED
    BY <1>0, <2>1, <2>2 DEF Inductive
<1>3. ASSUME NEW t \in Txs, ReadMax(t) PROVE Inductive'
  <2>1. Orderly /\ seqValue = 0 => seed'[t] = Last
    BY <1>0, <1>3, UnusedScope DEF ReadMax, TypeOK
  <2>2. LockHeld' /\ NextInLine' /\ NeverRefused'
    BY <1>0, <1>3, <2>1 DEF Inductive, TypeOK, LockHeld, NextInLine, NeverRefused, ReadMax, Goto
  <2>3. GapFree'
    BY <1>0, <1>3, NoCommit DEF ReadMax, Goto
  <2> QED
    BY <1>0, <2>2, <2>3 DEF Inductive
<1>4. ASSUME NEW t \in Txs, ReadMaxFails(t) PROVE Inductive'
  <2>1. LockHeld' /\ NextInLine' /\ NeverRefused'
    BY <1>0, <1>4 DEF Inductive, TypeOK, LockHeld, NextInLine, NeverRefused, ReadMaxFails, Goto
  <2>2. GapFree'
    BY <1>0, <1>4, NoCommit DEF ReadMaxFails, Goto
  <2> QED
    BY <1>0, <2>1, <2>2 DEF Inductive
<1>5. ASSUME NEW t \in Txs, Seed(t) PROVE Inductive'
  <2>1. LockHeld' /\ NextInLine' /\ NeverRefused'
    BY <1>0, <1>5, RunningNumbersAssumption DEF Inductive, TypeOK, LockHeld, NextInLine, NeverRefused, Seed, Take, Goto
  <2>2. GapFree'
    BY <1>0, <1>5, NoCommit DEF Seed, Take, Goto, TypeOK
  <2> QED
    BY <1>0, <2>1, <2>2 DEF Inductive
<1>6. ASSUME NEW t \in Txs, SeedFails(t) PROVE Inductive'
  <2>1. LockHeld' /\ NextInLine' /\ NeverRefused'
    BY <1>0, <1>6 DEF Inductive, TypeOK, LockHeld, NextInLine, NeverRefused, SeedFails, Goto
  <2>2. GapFree'
    BY <1>0, <1>6, NoCommit DEF SeedFails, Goto
  <2> QED
    BY <1>0, <2>1, <2>2 DEF Inductive
<1>7. ASSUME NEW t \in Txs, Retry(t) PROVE Inductive'
  <2>1. LockHeld' /\ NextInLine' /\ NeverRefused'
    BY <1>0, <1>7, RunningNumbersAssumption DEF Inductive, TypeOK, LockHeld, NextInLine, NeverRefused, Retry, TakeNext, Take, Goto
  <2>2. GapFree'
    BY <1>0, <1>7, NoCommit DEF Retry, TakeNext, Take, Goto, TypeOK
  <2> QED
    BY <1>0, <2>1, <2>2 DEF Inductive
<1>8. ASSUME NEW t \in Txs, RetryFails(t) PROVE Inductive'
  <2>1. LockHeld' /\ NextInLine' /\ NeverRefused'
    BY <1>0, <1>8 DEF Inductive, TypeOK, LockHeld, NextInLine, NeverRefused, RetryFails, GiveUp, Take, Goto
  <2>2. GapFree'
    BY <1>0, <1>8, NoCommit DEF RetryFails, GiveUp, Take, Goto, TypeOK
  <2> QED
    BY <1>0, <2>1, <2>2 DEF Inductive
<1>9. ASSUME NEW t \in Txs, Commit(t) PROVE Inductive'
  <2>1. \A u \in Txs : stage'[u] = IF u = t THEN "committed" ELSE stage[u]
    BY <1>0, <1>9 DEF Commit, Goto, TypeOK
  <2>2. UNCHANGED <<number, seed, guessed, leftOpen>> /\ Orderly' = Orderly
    BY <1>9 DEF Commit, database, Orderly
  <2>3. LockHeld' /\ NeverRefused'
    BY <1>0, <1>9, <2>1, <2>2 DEF Inductive, TypeOK, LockHeld, NeverRefused, Commit, Release
  <2>4. SUFFICES ASSUME Orderly PROVE NextInLine' /\ GapFree'
    BY <1>0, <2>2, <2>3 DEF Inductive, NextInLine, GapFree
  <2>5. /\ holder = t /\ seqValue' = number[t] /\ number[t] > Last
        /\ number[t] = (IF seqValue = 0 THEN Last ELSE seqValue) + 1
    BY <1>0, <1>9, <2>4, RunningNumbersAssumption DEF Inductive, TypeOK, NextInLine, Commit
  <2>6. NextInLine'
    BY <1>0, <1>9, <2>1, <2>2, <2>5, RunningNumbersAssumption DEF Inductive, TypeOK, NextInLine, Commit
  <2> DEFINE committed == {u \in Txs : stage[u] = "committed"}
  <2>7. {u \in Txs : stage'[u] = "committed"} = committed \cup {t}
    BY <2>1
  <2>8. {number[u] : u \in committed} = IF seqValue = 0 THEN {} ELSE (Last + 1)..seqValue
    BY <2>4 DEF Inductive, GapFree
  <2>9. {number'[u] : u \in committed \cup {t}} = (Last + 1)..seqValue'
    <3>1. {number'[u] : u \in committed \cup {t}} = {number[u] : u \in committed} \cup {number[t]}
      BY <2>2
    <3>2. seqValue \in Nat /\ Last \in Nat /\ (seqValue = 0 \/ seqValue > Last)
      BY <1>0, <2>4, RunningNumbersAssumption DEF TypeOK, Inductive, NextInLine
    <3>3. CASE seqValue = 0
      <4>1. {number'[u] : u \in committed \cup {t}} = {Last + 1}
        BY <2>5, <2>8, <3>1, <3>3
      <4> QED
        BY <2>5, <3>2, <3>3, <4>1
    <3>4. CASE seqValue # 0
      <4>1. {number'[u] : u \in committed \cup {t}} = ((Last + 1)..seqValue) \cup {seqValue + 1}
        BY <2>5, <2>8, <3>1, <3>4
      <4>2. ((Last + 1)..seqValue) \cup {seqValue + 1} = (Last + 1)..(seqValue + 1)
        BY <3>2, <3>4
      <4> QED
        BY <2>5, <3>4, <4>1, <4>2
    <3> QED
      BY <3>3, <3>4
  <2>10. number[t] \notin {number[u] : u \in committed}
    BY <1>9, <2>4, NextIsUnused DEF Commit, Used
  <2>11. \A u, v \in committed \cup {t} : number'[u] = number'[v] => u = v
    BY <2>2, <2>4, <2>10 DEF Inductive, GapFree
  <2>12. seqValue' # 0
    BY <2>5, RunningNumbersAssumption, <1>0 DEF TypeOK
  <2> QED
    BY <2>6, <2>7, <2>9, <2>11, <2>12 DEF GapFree
<1>10. ASSUME NEW t \in Txs, Refuse(t) PROVE Inductive'
  <2>1. ~Orderly
    BY <1>10, NextIsUnused DEF Refuse
  <2>2. LockHeld' /\ NextInLine' /\ NeverRefused' /\ GapFree'
    BY <1>0, <1>10, <2>1 DEF Inductive, TypeOK, LockHeld, NextInLine, NeverRefused, GapFree, Refuse, Release, Goto
  <2> QED
    BY <1>0, <2>2 DEF Inductive
<1>11. ASSUME NEW t \in Txs, Abort(t) PROVE Inductive'
  <2>1. LockHeld' /\ NextInLine' /\ NeverRefused'
    BY <1>0, <1>11 DEF Inductive, TypeOK, LockHeld, NextInLine, NeverRefused, Abort, Release, Goto
  <2>2. GapFree'
    BY <1>0, <1>11, NoCommit DEF Abort, Goto
  <2> QED
    BY <1>0, <2>1, <2>2 DEF Inductive
<1>12. ASSUME NEW t \in Txs, Abandon(t) PROVE Inductive'
  <2>1. leftOpen' # {}
    BY <1>12 DEF Abandon
  <2>2. LockHeld' /\ NextInLine' /\ NeverRefused' /\ GapFree'
    BY <1>0, <1>12, <2>1 DEF Inductive, TypeOK, LockHeld, NextInLine, NeverRefused, GapFree, Abandon, Goto
  <2> QED
    BY <1>0, <2>2 DEF Inductive
<1>13. CASE UNCHANGED vars
  BY <1>13 DEF Inductive, TypeOK, LockHeld, NextInLine, NeverRefused, GapFree, vars
<1> QED
  BY <1>1, <1>2, <1>3, <1>4, <1>5, <1>6, <1>7, <1>8, <1>9, <1>10, <1>11, <1>12, <1>13 DEF Next, Proceed

----------------------------------------------------------------------------

\* The inductive invariant holds throughout.
THEOREM InductiveInvariant == Spec => []Inductive
  BY InitInductive, StepInductive, PTL DEF Spec

\* The numbering of committed documents has no gap and no duplicate.
THEOREM NumbersGapFree == Spec => []GapFree
  BY InductiveInvariant, PTL DEF Inductive

\* No custom id is refused as a duplicate.
THEOREM NobodyRefused == Spec => []NeverRefused
  BY InductiveInvariant, PTL DEF Inductive

\* Type correctness.
THEOREM TypeCorrect == Spec => []TypeOK
  BY InductiveInvariant, PTL DEF Inductive

\* The counter never goes back, guessed numbers or not.
THEOREM CounterMonotone == Spec => CounterGrows
<1>1. Inductive /\ [Next]_vars => [seqValue' >= seqValue]_vars
  <2> SUFFICES ASSUME Inductive, Next PROVE seqValue' >= seqValue
    BY DEF Inductive
  <2>1. ASSUME NEW t \in Txs, Commit(t) PROVE seqValue' >= seqValue
    BY <2>1, RunningNumbersAssumption DEF Commit, Inductive, TypeOK, LockHeld
  <2>2. ASSUME UNCHANGED seqValue PROVE seqValue' >= seqValue
    BY <2>2 DEF Inductive, TypeOK
  <2> QED
    BY <2>1, <2>2 DEF Next, Proceed, Increment, IncrementFails, ReadMax, ReadMaxFails,
       Seed, SeedFails, Retry, RetryFails, Refuse, Abort, Abandon, vars
<1> QED
  BY <1>1, InductiveInvariant, PTL DEF Spec, CounterGrows

----------------------------------------------------------------------------
(* Triggers *)


\* Some member of a set of naturals is the least.
LEMMA Smallest ==
  ASSUME NEW set \in SUBSET Nat, set # {}
  PROVE  \E x \in set : \A y \in set : x <= y
  <1> DEFINE less == {ss \in Nat \X Nat : ss[1] < ss[2]}
  <1>1. IsWellFoundedOn(less, Nat)
    BY NatLessThanWellFounded DEF OpToRel
  <1>2. \E x \in set : \A y \in set : <<y, x>> \notin less
    <2> HIDE DEF less
    <2>1. QED
      BY <1>1, WFMin
  <1>3. \A x, y \in Nat : y < x => <<y, x>> \in less
    OBVIOUS
  <1> HIDE DEF less
  <1>4. PICK x \in set : \A y \in set : <<y, x>> \notin less
    BY <1>2
  <1>5. \A y \in set : ~(y < x)
    BY <1>3, <1>4
  <1>6. QED
    BY <1>5

\* A running total of the first n of f.
Running(g, f, n) == g \in [0..n -> Int] /\ g[0] = 0 /\ \A i \in 1..n : g[i] = g[i - 1] + f[i]

AllInt(f, n) == \A i \in 1..n : f[i] \in Int

LEMMA RunningExists ==
  ASSUME NEW n \in Nat, NEW f, AllInt(f, n)
  PROVE  \E g : Running(g, f, n)
  <1> DEFINE bad == {k \in 0..n : ~\E g : Running(g, f, k)}
  <1>1. SUFFICES ASSUME bad # {} PROVE FALSE
    OBVIOUS
  <1>0. bad \in SUBSET Nat
    OBVIOUS
  <1>2. PICK k \in bad : \A j \in bad : k <= j
    BY <1>0, <1>1, Smallest
  <1>3. CASE k = 0
    <2>1. Running([i \in 0..0 |-> 0], f, 0)
      BY DEF Running
    <2>2. QED
      BY <1>2, <1>3, <2>1
  <1>4. CASE k > 0
    <2>1. k - 1 \in 0..n /\ k - 1 \notin bad /\ k \in 1..n
      BY <1>2, <1>4
    <2>2. PICK g : Running(g, f, k - 1)
      BY <2>1
    <2>3. f[k] \in Int
      BY <2>1 DEF AllInt
    <2> DEFINE h == [i \in 0..k |-> IF i = k THEN g[k - 1] + f[k] ELSE g[i]]
    <2>4. Running(h, f, k)
      BY <2>1, <2>2, <2>3 DEF Running
    <2>5. QED
      BY <1>2, <2>4
  <1>5. QED
    BY <1>2, <1>3, <1>4

LEMMA RunningAgree ==
  ASSUME NEW n \in Nat, NEW m \in 0..n, NEW f, NEW h, NEW g, NEW e, AllInt(f, n),
         Running(g, f, n), Running(e, h, m), \A i \in 1..m : f[i] = h[i]
  PROVE  \A i \in 0..m : g[i] = e[i]
  <1> DEFINE bad == {k \in 0..m : g[k] # e[k]}
  <1>1. SUFFICES ASSUME bad # {} PROVE FALSE
    OBVIOUS
  <1>0. bad \in SUBSET Nat
    OBVIOUS
  <1>2. PICK k \in bad : \A j \in bad : k <= j
    BY <1>0, <1>1, Smallest
  <1>3. k # 0
    BY <1>2 DEF Running
  <1>4. k \in 1..m /\ k - 1 \in 0..m /\ k - 1 \notin bad
    BY <1>2, <1>3
  <1>5. g[k] = g[k - 1] + f[k] /\ e[k] = e[k - 1] + h[k]
    BY <1>4 DEF Running
  <1>6. QED
    BY <1>2, <1>4, <1>5

\* Sum is the end of a running total.
LEMMA SumRuns ==
  ASSUME NEW n \in Nat, NEW f, AllInt(f, n)
  PROVE  \E g : Running(g, f, n) /\ A!Sum(f, n) = g[n]
  <1> DEFINE Is(t) == t = [i \in 0..n |-> IF i = 0 THEN 0 ELSE t[i - 1] + f[i]]
  <1>1. PICK g : Running(g, f, n)
    BY RunningExists
  <1>2. Is(g)
    BY <1>1 DEF Running
  <1>3. Is(CHOOSE t : Is(t))
    BY <1>2
  <1>4. A!Sum(f, n) = (CHOOSE t : Is(t))[n]
    BY DEF A!Sum
  <1> DEFINE s == CHOOSE t : Is(t)
  <1> HIDE DEF s
  <1>5. s = [i \in 0..n |-> IF i = 0 THEN 0 ELSE s[i - 1] + f[i]]
    BY <1>3 DEF s
  <1> HIDE DEF Is
  <1>6. \A i \in 0..n : s[i] = IF i = 0 THEN 0 ELSE s[i - 1] + f[i]
    BY <1>5
  <1>7. \A i \in 0..n : s[i] = g[i]
    <2> DEFINE bad == {k \in 0..n : s[k] # g[k]}
    <2>1. SUFFICES ASSUME bad # {} PROVE FALSE
      OBVIOUS
    <2>0. bad \in SUBSET Nat
      OBVIOUS
    <2>2. PICK k \in bad : \A j \in bad : k <= j
      BY <2>0, <2>1, Smallest
    <2>3. k # 0
      BY <1>1, <1>6, <2>2 DEF Running
    <2>4. k \in 1..n /\ k - 1 \in 0..n /\ k - 1 \notin bad
      BY <2>2, <2>3
    <2>5. QED
      BY <1>1, <1>6, <2>2, <2>4 DEF Running
  <1>8. QED
    BY <1>1, <1>4, <1>7 DEF s

LEMMA SumStep ==
  ASSUME NEW n \in Nat, NEW f, AllInt(f, n)
  PROVE  /\ A!Sum(f, n) \in Int /\ A!Sum(f, 0) = 0
         /\ \A k \in 1..n : A!Sum(f, k) = A!Sum(f, k - 1) + f[k] /\ A!Sum(f, k) \in Int /\ A!Sum(f, k - 1) \in Int
  <1>1. \A k \in 0..n : AllInt(f, k)
    BY DEF AllInt
  <1>2. PICK g : Running(g, f, n)
    BY RunningExists
  <1>3. ASSUME NEW k \in 0..n PROVE A!Sum(f, k) = g[k]
    <2>1. PICK e : Running(e, f, k) /\ A!Sum(f, k) = e[k]
      BY <1>1, SumRuns
    <2>2. g[k] = e[k]
      BY <1>2, <2>1, RunningAgree
    <2>3. QED
      BY <2>1, <2>2
  <1>4. QED
    BY <1>2, <1>3 DEF Running

\* One number that changes changes the sum by as much.
LEMMA SumMoves ==
  ASSUME NEW n \in Nat, NEW f, NEW h, NEW k \in 1..n, AllInt(f, n), AllInt(h, n),
         \A i \in 1..n : i # k => f[i] = h[i]
  PROVE  A!Sum(h, n) = A!Sum(f, n) + h[k] - f[k]
  <1> DEFINE Moves(i) == IF i < k THEN 0 ELSE h[k] - f[k]
             bad == {i \in 0..n : A!Sum(h, i) # A!Sum(f, i) + Moves(i)}
  <1>0. bad \in SUBSET Nat
    OBVIOUS
  <1>1. CASE bad = {}
    <2>1. n \in 0..n /\ n \notin bad
      BY <1>1
    <2>2. QED
      BY <2>1
  <1>2. CASE bad # {}
    <2>1. PICK j \in bad : \A i \in bad : j <= i
      BY <1>0, <1>2, Smallest
    <2>2. j # 0
      BY <2>1, SumStep
    <2>3. j \in 1..n /\ j - 1 \in 0..n /\ j - 1 \notin bad
      BY <2>1, <2>2
    <2>4. A!Sum(h, j) = A!Sum(h, j - 1) + h[j] /\ A!Sum(f, j) = A!Sum(f, j - 1) + f[j]
      BY <2>3, SumStep
    <2>5. /\ A!Sum(h, j - 1) \in Int /\ A!Sum(f, j - 1) \in Int /\ A!Sum(f, j) \in Int
          /\ f[j] \in Int /\ h[j] \in Int /\ f[k] \in Int /\ h[k] \in Int
      BY <2>3, SumStep DEF AllInt
    <2>6. A!Sum(h, j - 1) = A!Sum(f, j - 1) + Moves(j - 1)
      BY <2>3
    <2>7. h[j] - f[j] = Moves(j) - Moves(j - 1)
      BY <2>3, <2>5
    <2>8. QED
      BY <2>1, <2>3, <2>4, <2>5, <2>6, <2>7
  <1>3. QED
    BY <1>1, <1>2

Movements == [shipments : Int, net : [Products -> Int]]
OwnRows == [stock : UNION {[S -> Int] : S \in SUBSET Products}, invoiced : Int, posted : Int]

TriggerTyped ==
  /\ status \in [A!Docs -> Statuses \cup {A!Gone}] /\ lines \in [A!Docs -> DOMAIN Lines]
  /\ stock \in [Products -> Int] /\ own \in [Reqs -> DOMAIN Lines]
  /\ invoiced \in [A!Docs -> Int] /\ posted \in [A!Docs -> Int]
  /\ lock \in [A!Docs \cup Products -> Reqs \cup {Nobody}]
  /\ wanted \in Wanted /\ old \in [Reqs -> Statuses \cup {A!Gone}]
  /\ progress \in [Reqs -> {"new", "delete", "lines", "act", "update", "missing", "failed", "committed"}]
  /\ nextStep \in [Reqs -> Nat \ {0}]
  /\ lookedUp \in [Reqs -> Int] /\ acc \in [Reqs -> Int] /\ qty \in [Reqs -> Int]
  /\ mine \in [Reqs -> OwnRows] /\ moves \in [A!Docs -> Movements]

Writing(r) == progress[r] \in {"act", "update"}

\* What the steps so far have done to a lot.
DoneTo(r, p) == A!Sum(A!Effects(A!Plan(r), p), nextStep[r] - 1)

\* What a writer has changed it has locked, and its plan so far says by how much.
OwnLots(r) ==
  \A p \in Products :
    IF p \in DOMAIN mine[r].stock THEN lock[p] = r /\ mine[r].stock[p] = stock[p] + DoneTo(r, p) ELSE DoneTo(r, p) = 0

\* It has invoiced and posted nothing, or what it had accumulated then, or both.
OwnBooks(r) ==
  LET booked == {i \in A!Bookings(A!Plan(r)) : i < nextStep[r]} IN
  /\ booked = {} => mine[r].invoiced = 0 /\ mine[r].posted = 0
  /\ booked # {} /\ booked # A!Bookings(A!Plan(r)) => mine[r].invoiced = acc[r] /\ mine[r].posted = 0
  /\ booked # {} /\ booked = A!Bookings(A!Plan(r)) =>
       mine[r].invoiced = Totals[wanted[r].doc] /\ mine[r].posted = Totals[wanted[r].doc]

\* What holds of a request whatever the others do.
Holding(r) == Writing(r) \/ progress[r] = "lines"

RequestHeld(r) ==
  /\ progress[r] \in {"new", "delete", "lines"} => nextStep[r] = 1
  /\ progress[r] = "delete" => wanted[r].op = "delete"
  /\ ~Writing(r) => mine[r] = A!NothingYet
  /\ Holding(r) =>
       /\ lock[wanted[r].doc] = r
       /\ wanted[r].op = "put" \/ staleDocs = {} => status[wanted[r].doc] = old[r]
  /\ Writing(r) => nextStep[r] <= Len(A!Plan(r)) + 1 /\ OwnLots(r) /\ OwnBooks(r)
  /\ progress[r] = "update" =>
       /\ nextStep[r] <= Len(A!Plan(r)) /\ A!Act(r).type = "update"
       /\ lock[A!Item(r).product] = r /\ qty[r] = A!OwnStock(r, A!Item(r).product)

TriggerInv ==
  /\ TriggerTyped /\ \A r \in Reqs : RequestHeld(r)
  /\ A!StockMatchesDocuments /\ A!BooksBalance

LEMMA PlanFits ==
  ASSUME A!TriggersAssumption, TriggerTyped, NEW r \in Reqs
  PROVE  /\ A!Fits(own[r], old[r], A!NewStatus(r), A!Plan(r))
         /\ wanted[r].doc \in A!Docs /\ old[r] \in Statuses \cup {A!Gone}
         /\ A!NewStatus(r) \in Statuses \cup {A!Gone} /\ wanted[r].op \in {"put", "delete"}
         /\ wanted[r].op = "put" => A!NewStatus(r) \in Statuses /\ A!NewStatus(r) # A!Gone
         /\ wanted[r].op = "delete" => A!NewStatus(r) = A!Gone
         /\ wanted[r].lines \in DOMAIN Lines \cup {A!Keep}
  <1>1. wanted[r] \in [op : {"put"}, doc : A!Docs, status : Statuses, lines : DOMAIN Lines \cup {A!Keep}]
                        \cup [op : {"delete"}, doc : A!Docs, status : {A!Gone}, lines : {A!Keep}]
    BY DEF A!TriggersAssumption, TriggerTyped
  <1>2. /\ wanted[r].doc \in A!Docs /\ old[r] \in Statuses \cup {A!Gone}
        /\ A!NewStatus(r) \in Statuses \cup {A!Gone} /\ wanted[r].op \in {"put", "delete"}
        /\ wanted[r].op = "put" => A!NewStatus(r) \in Statuses
        /\ wanted[r].op = "delete" => A!NewStatus(r) = A!Gone
        /\ wanted[r].lines \in DOMAIN Lines \cup {A!Keep}
    BY <1>1 DEF TriggerTyped, A!NewStatus
  <1>3. A!Fits(own[r], old[r], A!NewStatus(r), A!Plan(r))
    BY <1>2 DEF A!TriggersAssumption, A!Plan, TriggerTyped
  <1>4. A!Gone \notin Statuses
    BY DEF A!TriggersAssumption
  <1>5. QED
    BY <1>2, <1>3, <1>4

\* The effects of a plan are numbers, and the last one adds to those before.
LEMMA DoneStep ==
  ASSUME A!TriggersAssumption, TriggerTyped, NEW r \in Reqs, NEW p \in Products
  PROVE  LET effects == A!Effects(A!Plan(r), p)
             plan == A!Plan(r) IN
         /\ A!Sum(effects, 0) = 0
         /\ A!Sum(effects, Len(plan)) = (A!Returns(old[r], A!NewStatus(r)) - A!Ships(old[r], A!NewStatus(r))) * A!QtyOf(own[r], p)
         /\ \A n \in 1..Len(plan) :
              /\ A!Sum(effects, n) = A!Sum(effects, n - 1) + effects[n]
              /\ A!Sum(effects, n) \in Int /\ A!Sum(effects, n - 1) \in Int
              /\ plan[n].act.type = "update" /\ plan[n].item.product = p =>
                   effects[n] = plan[n].act.sign * plan[n].item.qty
              /\ ~(plan[n].act.type = "update" /\ plan[n].item.product = p) => effects[n] = 0
  <1> DEFINE plan == A!Plan(r)
             effects == A!Effects(plan, p)
  <1>1. A!Fits(own[r], old[r], A!NewStatus(r), plan)
    BY PlanFits
  <1>2. Len(plan) \in Nat /\ DOMAIN plan = 1..Len(plan)
    BY <1>1 DEF A!Fits
  <1> HIDE DEF plan
  <1>3. ASSUME NEW n \in 1..Len(plan)
        PROVE  /\ effects[n] \in Int
               /\ plan[n].act.type = "update" /\ plan[n].item.product = p =>
                    effects[n] = plan[n].act.sign * plan[n].item.qty
               /\ ~(plan[n].act.type = "update" /\ plan[n].item.product = p) => effects[n] = 0
    <2>1. effects[n] = IF plan[n].act.type = "update" /\ plan[n].item.product = p
                         THEN plan[n].act.sign * plan[n].item.qty ELSE 0
      BY <1>2 DEF A!Effects
    <2>2. plan[n].act.type = "update" => plan[n].act.sign \in Int /\ plan[n].item.qty \in Int
      BY <1>1, <1>2 DEF A!Fits
    <2>3. QED
      BY <2>1, <2>2
  <1>4. AllInt(effects, Len(plan))
    BY <1>3 DEF AllInt
  <1>5. A!Sum(effects, Len(plan)) = (A!Returns(old[r], A!NewStatus(r)) - A!Ships(old[r], A!NewStatus(r))) * A!QtyOf(own[r], p)
    BY <1>1 DEF A!Fits
  <1> HIDE DEF effects
  <1>6. QED
    BY <1>2, <1>3, <1>4, <1>5, SumStep DEF plan, effects

LEMMA DonePasses ==
  ASSUME A!TriggersAssumption, TriggerTyped, NEW r \in Reqs, NEW p \in Products, NEW n \in 1..Len(A!Plan(r)),
         ~(A!Plan(r)[n].act.type = "update" /\ A!Plan(r)[n].item.product = p)
  PROVE  A!Sum(A!Effects(A!Plan(r), p), n) = A!Sum(A!Effects(A!Plan(r), p), n - 1)
  <1>1. PICK sum, before, amount : /\ sum = A!Sum(A!Effects(A!Plan(r), p), n) /\ before = A!Sum(A!Effects(A!Plan(r), p), n - 1)
                                   /\ amount = A!Effects(A!Plan(r), p)[n]
    OBVIOUS
  <1>2. sum = before + amount /\ amount = 0 /\ before \in Int
    BY <1>1, DoneStep
  <1>3. QED
    BY <1>1, <1>2

\* A plan books nothing, or invoices and posts in two steps next to each other.
LEMMA BooksTwice ==
  ASSUME A!TriggersAssumption, TriggerTyped, NEW r \in Reqs
  PROVE  LET plan == A!Plan(r) IN
         /\ Len(plan) \in Nat /\ A!Bookings(plan) \subseteq 1..Len(plan)
         /\ A!Ships(old[r], A!NewStatus(r)) = 0 => A!Bookings(plan) = {}
         /\ A!Ships(old[r], A!NewStatus(r)) # 0 => A!Bookings(plan) # {}
         /\ \/ A!Bookings(plan) = {}
            \/ \E i \in 1..Len(plan) : /\ A!Bookings(plan) = {i, i + 1} /\ i + 1 \in 1..Len(plan)
                                       /\ plan[i].act.type = "insert" /\ plan[i + 1].act.type = "insert_batch"
         /\ \A i \in 1..Len(plan) : i \in A!Bookings(plan) <=> plan[i].act.type \in {"insert", "insert_batch"}
  <1> DEFINE plan == A!Plan(r)
  <1>1. A!Fits(own[r], old[r], A!NewStatus(r), plan)
    BY PlanFits
  <1> HIDE DEF plan
  <1>2. Len(plan) \in Nat /\ DOMAIN plan = 1..Len(plan)
    BY <1>1 DEF A!Fits
  <1>3. A!Bookings(plan) \subseteq 1..Len(plan)
    BY <1>2 DEF A!Bookings
  <1>4. \A i \in 1..Len(plan) : i \in A!Bookings(plan) <=> plan[i].act.type \in {"insert", "insert_batch"}
    BY <1>2 DEF A!Bookings
  <1>5. IF A!Ships(old[r], A!NewStatus(r)) = 0 THEN A!Bookings(plan) = {}
        ELSE \E i \in 1..Len(plan) : /\ A!Bookings(plan) = {i, i + 1}
               /\ plan[i].act.type = "insert" /\ plan[i + 1].act.type = "insert_batch"
    BY <1>1, <1>2 DEF A!Fits
  <1>6. QED
    BY <1>2, <1>3, <1>4, <1>5 DEF plan

\* A step of one request leaves another in hand.
LEMMA LeftHeld ==
  ASSUME A!TriggersAssumption, TriggerTyped, NEW q \in Reqs, RequestHeld(q),
         progress'[q] = progress[q], old'[q] = old[q], own'[q] = own[q], wanted'[q] = wanted[q], nextStep'[q] = nextStep[q],
         acc'[q] = acc[q], qty'[q] = qty[q], mine'[q] = mine[q], staleDocs \subseteq staleDocs',
         \A x \in A!Docs \cup Products : lock[x] = q => lock'[x] = q,
         \A d \in A!Docs : lock[d] = q => status'[d] = status[d],
         \A p \in Products : lock[p] = q => stock'[p] = stock[p]
  PROVE  RequestHeld(q)'
  <1> DEFINE plan == A!Plan(q)
  <1>1. A!Plan(q)' = plan
    BY DEF A!Plan, A!NewStatus
  <1>2. wanted[q].doc \in A!Docs
    BY PlanFits
  <1>3. CASE Writing(q)
    <2>1. OwnLots(q)'
      <3>1. SUFFICES ASSUME NEW p \in Products
            PROVE  IF p \in DOMAIN mine[q].stock THEN lock'[p] = q /\ mine[q].stock[p] = stock'[p] + DoneTo(q, p) ELSE DoneTo(q, p) = 0
        BY <1>1 DEF OwnLots, DoneTo
      <3>2. QED
        BY <1>3 DEF RequestHeld, OwnLots
    <2>2. OwnBooks(q)'
      BY <1>1, <1>3 DEF RequestHeld, OwnBooks
    <2>3. /\ progress[q] = "update" => A!Item(q).product \in Products
          /\ A!Item(q)' = A!Item(q) /\ A!Act(q)' = A!Act(q)
      <3>1. A!Fits(own[q], old[q], A!NewStatus(q), plan)
        BY PlanFits
      <3>2. progress[q] = "update" => nextStep[q] \in DOMAIN plan /\ plan[nextStep[q]].act.type = "update"
        BY <3>1 DEF RequestHeld, A!Act, A!Fits, TriggerTyped
      <3>3. QED
        BY <1>1, <3>1, <3>2 DEF A!Fits, A!Item, A!Act
    <2>4. PICK p : p = A!Item(q).product
      OBVIOUS
    <2>5. progress[q] = "update" =>
            /\ nextStep[q] <= Len(plan) /\ A!Act(q)'.type = "update"
            /\ lock'[p] = q /\ qty'[q] = A!OwnStock(q, p)'
      BY <2>3, <2>4 DEF RequestHeld, A!OwnStock
    <2>6. A!Item(q)'.product = p
      BY <2>3, <2>4
    <2> HIDE DEF plan
    <2>7. QED
      BY <1>1, <1>2, <1>3, <2>1, <2>2, <2>5, <2>6 DEF RequestHeld, Holding, Writing, plan
  <1>4. CASE ~Writing(q)
    BY <1>2, <1>4 DEF RequestHeld, Holding, Writing
  <1>5. QED
    BY <1>3, <1>4

Acting(r) ==
  \/ A!Start(r) \/ A!Iterate(r) \/ A!Lookup(r) \/ A!Accumulate(r)
  \/ A!ReadRow(r) \/ A!UpdateRow(r) \/ A!Insert(r) \/ A!InsertBatch(r)

Beginning(r) == A!Write(r) \/ A!ReadOld(r) \/ A!Delete(r)
Settling(r) == A!SyncLines(r) \/ A!ForeignKeys(r)
StepOf(r) == Beginning(r) \/ Settling(r) \/ Acting(r) \/ A!StatementFails(r) \/ A!Commit(r)

\* A step of one request takes no lock another holds, and changes no row it has
\* not locked.
LEMMA OthersHeld ==
  ASSUME A!TriggersAssumption, TriggerInv, NEW r \in Reqs, StepOf(r), NEW q \in Reqs \ {r}
  PROVE  RequestHeld(q)'
  <1>0. TriggerTyped /\ RequestHeld(q) /\ RequestHeld(r) /\ r # Nobody /\ q # Nobody /\ q \in Reqs
    BY DEF TriggerInv, A!TriggersAssumption
  <1> USE DEF A!database, A!request, A!runtime, A!ghosts
  <1>1. /\ progress'[q] = progress[q] /\ old'[q] = old[q] /\ own'[q] = own[q] /\ wanted'[q] = wanted[q] /\ nextStep'[q] = nextStep[q]
        /\ acc'[q] = acc[q] /\ qty'[q] = qty[q] /\ mine'[q] = mine[q] /\ staleDocs \subseteq staleDocs'
    <2>1. CASE Acting(r)
      BY <1>0, <2>1 DEF Acting, A!Start, A!Iterate, A!Lookup, A!Accumulate, A!ReadRow, A!UpdateRow, A!Insert, A!InsertBatch,
            A!Advance, A!RollBack, TriggerTyped
    <2>2. CASE ~Acting(r)
      BY <1>0, <2>2 DEF StepOf, Beginning, Settling, A!Write, A!ReadOld, A!Delete, A!SyncLines, A!ForeignKeys, A!StatementFails, A!Commit, A!RollBack, TriggerTyped
    <2>3. QED
      BY <2>1, <2>2
  <1>2. \A x \in A!Docs \cup Products : lock[x] = q => lock'[x] = q
    <2>1. CASE lock' = lock \/ lock' = A!Unlocked(r) \/ \E y : A!Free(r, y) /\ lock' = [lock EXCEPT ![y] = r]
      BY <1>0, <2>1 DEF A!Unlocked, A!Free, TriggerTyped
    <2>2. lock' = lock \/ lock' = A!Unlocked(r) \/ \E y : A!Free(r, y) /\ lock' = [lock EXCEPT ![y] = r]
      <3>1. CASE Acting(r)
        BY <3>1 DEF Acting, A!Start, A!Iterate, A!Lookup, A!Accumulate, A!ReadRow, A!UpdateRow, A!Insert, A!InsertBatch,
              A!RollBack
      <3>2. CASE ~Acting(r)
        BY <3>2 DEF StepOf, Beginning, Settling, A!Write, A!ReadOld, A!Delete, A!SyncLines, A!ForeignKeys, A!StatementFails, A!Commit, A!RollBack
      <3>3. QED
        BY <3>1, <3>2
    <2>3. QED
      BY <2>1, <2>2
  <1>3. /\ \A d \in A!Docs : lock[d] = q => status'[d] = status[d]
        /\ \A p \in Products : lock[p] = q => stock'[p] = stock[p]
    <2>1. CASE A!Commit(r)
      <3>1. Writing(r) /\ lock[wanted[r].doc] = r /\ OwnLots(r)
        BY <1>0, <2>1 DEF A!Commit, RequestHeld, Holding, Writing
      <3>2. \A p \in Products : lock[p] = q => stock'[p] = stock[p]
        BY <1>0, <2>1, <3>1 DEF A!Commit, A!OwnStock, OwnLots
      <3>3. \A d \in A!Docs : lock[d] = q => status'[d] = status[d]
        BY <1>0, <2>1, <3>1 DEF A!Commit, TriggerTyped
      <3>4. QED
        BY <3>2, <3>3
    <2>2. CASE ~A!Commit(r)
      <3>1. CASE Acting(r)
        BY <3>1 DEF Acting, A!Start, A!Iterate, A!Lookup, A!Accumulate, A!ReadRow, A!UpdateRow, A!Insert, A!InsertBatch,
              A!RollBack
      <3>2. CASE ~Acting(r)
        BY <2>2, <3>2 DEF StepOf, Beginning, Settling, A!Write, A!ReadOld, A!Delete, A!SyncLines, A!ForeignKeys, A!StatementFails, A!RollBack
      <3>3. QED
        BY <3>1, <3>2
    <2>3. QED
      BY <2>1, <2>2
  <1>4. QED
    BY <1>0, <1>1, <1>2, <1>3, LeftHeld

LEMMA NothingTyped == A!NothingYet \in OwnRows /\ DOMAIN A!NothingYet.stock = {}
  <1>1. A!NothingYet.stock \in [{} -> Int] /\ DOMAIN A!NothingYet.stock = {}
    BY DEF A!NothingYet
  <1>2. QED
    BY <1>1 DEF OwnRows, A!NothingYet

\* An error leaves the rows and the plan of the request as they were at first.
LEMMA RollsBack ==
  ASSUME A!TriggersAssumption, TriggerTyped, NEW r \in Reqs, A!RollBack(r), RequestHeld(r)
  PROVE  TriggerTyped' /\ RequestHeld(r)' /\ UNCHANGED <<status, stock, invoiced, posted, moves, staleDocs, detached>>
  <1> USE DEF A!database, A!request, A!runtime
  <1>1. lock' \in [A!Docs \cup Products -> Reqs \cup {Nobody}]
    BY DEF A!RollBack, A!Unlocked, TriggerTyped
  <1>2. TriggerTyped'
    BY <1>1, NothingTyped DEF A!RollBack, TriggerTyped
  <1>3. progress'[r] = "failed" /\ mine'[r] = A!NothingYet
    BY DEF A!RollBack, TriggerTyped
  <1>4. QED
    BY <1>2, <1>3 DEF RequestHeld, Holding, Writing, A!RollBack, A!NothingYet

\* The write that comes before the detail rows.
LEMMA Begins ==
  ASSUME A!TriggersAssumption, TriggerTyped, NEW r \in Reqs, RequestHeld(r), Beginning(r)
  PROVE  /\ TriggerTyped' /\ RequestHeld(r)' /\ UNCHANGED <<status, stock, invoiced, posted, moves, detached>>
         /\ staleDocs \subseteq staleDocs'
  <1> USE DEF A!database, A!request, A!runtime, A!ghosts, Beginning
  <1>0. wanted[r].doc \in A!Docs
    BY PlanFits
  <1>1. TriggerTyped'
    <2>1. lock' \in [A!Docs \cup Products -> Reqs \cup {Nobody}]
      BY <1>0 DEF A!Write, A!ReadOld, A!Delete, TriggerTyped
    <2>2. QED
      BY <1>0, <2>1 DEF A!Write, A!ReadOld, A!Delete, TriggerTyped
  <1>2. UNCHANGED <<status, stock, invoiced, posted, moves, detached>> /\ staleDocs \subseteq staleDocs'
    BY DEF A!Write, A!ReadOld, A!Delete
  <1>3. progress[r] \in {"new", "delete"} /\ nextStep[r] = 1 /\ mine[r] = A!NothingYet
    BY DEF A!Write, A!ReadOld, A!Delete, RequestHeld, Holding, Writing
  <1>4. /\ nextStep'[r] = 1 /\ mine'[r] = A!NothingYet /\ wanted'[r] = wanted[r]
        /\ progress'[r] \in {"missing", "delete", "lines"}
    BY <1>3 DEF A!Write, A!ReadOld, A!Delete, TriggerTyped
  <1>5. progress'[r] = "lines" =>
          /\ lock'[wanted[r].doc] = r
          /\ wanted[r].op = "put" \/ staleDocs' = {} => status'[wanted[r].doc] = old'[r]
    <2>1. CASE A!Write(r)
      BY <1>0, <2>1 DEF A!Write, TriggerTyped
    <2>2. CASE A!Delete(r)
      BY <1>0, <2>2, PlanFits DEF A!Delete, TriggerTyped, RequestHeld
    <2>3. CASE A!ReadOld(r)
      BY <2>3 DEF A!ReadOld, TriggerTyped
    <2>4. QED
      BY <2>1, <2>2, <2>3
  <1>6. progress'[r] = "delete" => wanted'[r].op = "delete"
    BY DEF A!Write, A!ReadOld, A!Delete, TriggerTyped
  <1>7. QED
    BY <1>1, <1>2, <1>4, <1>5, <1>6 DEF RequestHeld, Holding, Writing

\* The detail rows, which settle the plan.
LEMMA Settles ==
  ASSUME A!TriggersAssumption, TriggerTyped, NEW r \in Reqs, RequestHeld(r), Settling(r), ~A!RollBack(r)
  PROVE  TriggerTyped' /\ RequestHeld(r)' /\ UNCHANGED <<status, stock, invoiced, posted, moves, staleDocs, detached>>
  <1> USE DEF A!database, A!request, A!runtime, A!ghosts
  <1>1. PICK version \in DOMAIN Lines : own' = [own EXCEPT ![r] = version]
    <2>1. CASE A!SyncLines(r)
      BY <2>1, PlanFits DEF A!SyncLines, TriggerTyped
    <2>2. CASE A!ForeignKeys(r)
      BY <2>2, PlanFits DEF A!ForeignKeys, A!TriggersAssumption, TriggerTyped
    <2>3. QED
      BY <2>1, <2>2 DEF Settling
  <1>2. /\ progress[r] = "lines" /\ progress' = [progress EXCEPT ![r] = "act"]
        /\ UNCHANGED <<fkAction, status, lines, stock, invoiced, posted, lock, wanted, old, nextStep, lookedUp, acc, qty, mine,
                       moves, staleDocs, detached, failed>>
    BY DEF Settling, A!SyncLines, A!ForeignKeys
  <1>3. TriggerTyped'
    BY <1>1, <1>2 DEF TriggerTyped
  <1>4. /\ nextStep'[r] = 1 /\ mine'[r] = A!NothingYet /\ wanted'[r] = wanted[r] /\ progress'[r] = "act"
        /\ lock'[wanted[r].doc] = r
        /\ wanted[r].op = "put" \/ staleDocs' = {} => status'[wanted[r].doc] = old'[r]
    BY <1>2 DEF RequestHeld, Holding, Writing, TriggerTyped
  <1>5. A!Bookings(A!Plan(r))' \subseteq 1..(Len(A!Plan(r))') /\ Len(A!Plan(r))' \in Nat
    <2>1. LET plan == A!Plan(r)' IN A!Fits(own'[r], old'[r], A!NewStatus(r)', plan)
      <3>1. own'[r] \in DOMAIN Lines /\ old'[r] \in Statuses \cup {A!Gone} /\ A!NewStatus(r)' \in Statuses \cup {A!Gone}
        <4>1. A!NewStatus(r)' = A!NewStatus(r)
          BY <1>4 DEF A!NewStatus
        <4>2. QED
          BY <1>3, <4>1, PlanFits DEF TriggerTyped
      <3>2. QED
        BY <3>1 DEF A!TriggersAssumption, A!Plan
    <2>2. QED
      BY <2>1 DEF A!Fits, A!Bookings
  <1>6. OwnBooks(r)'
    BY <1>4, <1>5 DEF OwnBooks, A!NothingYet
  <1>7. OwnLots(r)'
    <2>1. \A f : AllInt(f, 0)
      BY DEF AllInt
    <2>2. \A f : A!Sum(f, 0) = 0
      BY <2>1, SumStep
    <2>3. \A p \in Products : DoneTo(r, p)' = 0
      BY <1>4, <2>2 DEF DoneTo
    <2>4. QED
      BY <1>4, <2>3, NothingTyped DEF OwnLots
  <1>8. QED
    BY <1>2, <1>3, <1>4, <1>5, <1>6, <1>7 DEF RequestHeld, Holding, Writing

\* A step of a plan that updates and books nothing.
LEMMA PassesOver ==
  ASSUME A!TriggersAssumption, TriggerTyped, NEW r \in Reqs, RequestHeld(r), progress[r] = "act",
         nextStep[r] <= Len(A!Plan(r)), A!Act(r).type \notin {"update", "insert", "insert_batch"},
         progress' = progress, nextStep' = [nextStep EXCEPT ![r] = nextStep[r] + 1],
         UNCHANGED <<status, stock, lock, wanted, old, own, mine, staleDocs>>
  PROVE  RequestHeld(r)'
  <1>0. PICK plan, n : plan = A!Plan(r) /\ n = nextStep[r]
    OBVIOUS
  <1>1. A!Plan(r)' = plan /\ nextStep'[r] = n + 1
    BY <1>0 DEF A!Plan, A!NewStatus, TriggerTyped
  <1>2. n \in 1..Len(plan) /\ Len(plan) \in Nat /\ plan[n].act.type \notin {"update", "insert", "insert_batch"}
    BY <1>0, BooksTwice DEF A!Act, TriggerTyped
  <1>3. OwnLots(r)'
    <2>1. SUFFICES ASSUME NEW p \in Products PROVE DoneTo(r, p)' = DoneTo(r, p)
      BY DEF RequestHeld, OwnLots, Writing
    <2>2. A!Sum(A!Effects(plan, p), n) = A!Sum(A!Effects(plan, p), n - 1)
      BY <1>0, <1>2, DonePasses
    <2>3. nextStep'[r] - 1 = n
      BY <1>1, <1>2
    <2>4. DoneTo(r, p)' = A!Sum(A!Effects(plan, p), nextStep'[r] - 1)
      BY <1>1 DEF DoneTo
    <2>5. DoneTo(r, p) = A!Sum(A!Effects(plan, p), n - 1)
      BY <1>0 DEF DoneTo
    <2>6. QED
      BY <2>2, <2>3, <2>4, <2>5
  <1>4. OwnBooks(r)'
    <2>1. n \notin A!Bookings(plan)
      BY <1>0, <1>2, BooksTwice
    <2>2. A!Bookings(plan) \subseteq 1..Len(plan)
      BY <1>0, BooksTwice
    <2>3. {i \in A!Bookings(plan) : i < n + 1} = {i \in A!Bookings(plan) : i < n}
      BY <1>2, <2>1, <2>2
    <2> DEFINE booked == {i \in A!Bookings(plan) : i < n}
    <2>4. booked # {} => booked = A!Bookings(plan)
      <3>1. CASE A!Bookings(plan) = {}
        BY <3>1
      <3>2. ASSUME NEW i \in 1..Len(plan), A!Bookings(plan) = {i, i + 1}, plan[i + 1].act.type = "insert_batch"
            PROVE  booked # {} => booked = A!Bookings(plan)
        BY <1>2, <2>1, <3>2
      <3>3. QED
        BY <1>0, <3>1, <3>2, BooksTwice
    <2> HIDE DEF booked
    <2>5. booked = {} => mine[r].invoiced = 0 /\ mine[r].posted = 0
      BY <1>0 DEF RequestHeld, OwnBooks, Writing, booked
    <2>6. booked # {} => mine[r].invoiced = Totals[wanted[r].doc] /\ mine[r].posted = Totals[wanted[r].doc]
      BY <1>0, <2>4 DEF RequestHeld, OwnBooks, Writing, booked
    <2>7. QED
      BY <1>1, <2>3, <2>4, <2>5, <2>6 DEF OwnBooks, booked
  <1>5. lock'[wanted'[r].doc] = r /\ nextStep'[r] <= Len(plan) + 1
    BY <1>1, <1>2 DEF RequestHeld, Holding, Writing
  <1>6. QED
    BY <1>1, <1>2, <1>3, <1>4, <1>5 DEF RequestHeld, Holding, Writing

LEMMA Reads ==
  ASSUME A!TriggersAssumption, TriggerTyped, NEW r \in Reqs, RequestHeld(r), A!ReadRow(r)
  PROVE  TriggerTyped' /\ RequestHeld(r)' /\ UNCHANGED <<status, stock, invoiced, posted, moves, staleDocs, detached>>
  <1> USE DEF A!database, A!request, A!ghosts
  <1>0. PICK plan, n, p : plan = A!Plan(r) /\ n = nextStep[r] /\ p = A!Item(r).product
    OBVIOUS
  <1>1. progress[r] = "act" /\ n \in 1..Len(plan) /\ plan[n].act.type = "update" /\ plan[n].item.product = p
    BY <1>0, BooksTwice DEF A!ReadRow, A!At, A!Ended, A!Act, A!Item, TriggerTyped
  <1>2. p \in Products
    BY <1>0, <1>1, PlanFits DEF A!Fits
  <1>3. /\ lock' = [lock EXCEPT ![p] = r] /\ qty' = [qty EXCEPT ![r] = A!OwnStock(r, p)]
        /\ progress' = [progress EXCEPT ![r] = "update"]
        /\ UNCHANGED <<status, lines, stock, invoiced, posted, wanted, old, own, nextStep, lookedUp, acc, mine, moves, staleDocs, detached, failed>>
    BY <1>0 DEF A!ReadRow
  <1>4. A!OwnStock(r, p) \in Int
    BY <1>2 DEF TriggerTyped, OwnRows, A!OwnStock
  <1>5. TriggerTyped'
    BY <1>2, <1>3, <1>4 DEF TriggerTyped
  <1>6. /\ A!Plan(r)' = plan /\ A!Act(r)' = plan[n].act /\ A!Item(r)' = plan[n].item
        /\ nextStep'[r] = n /\ wanted'[r] = wanted[r] /\ mine'[r] = mine[r]
    BY <1>0, <1>3 DEF A!Plan, A!NewStatus, A!Act, A!Item
  <1>7. OwnLots(r)' /\ OwnBooks(r)'
    <2>1. OwnLots(r) /\ OwnBooks(r)
      BY <1>1 DEF RequestHeld, Holding, Writing
    <2>2. \A x \in Products : DoneTo(r, x)' = DoneTo(r, x)
      BY <1>0, <1>6 DEF DoneTo
    <2>3. \A x \in Products : lock[x] = r => lock'[x] = r
      BY <1>2, <1>3 DEF TriggerTyped
    <2>4. OwnLots(r)'
      BY <1>3, <2>1, <2>2, <2>3 DEF OwnLots
    <2>5. OwnBooks(r)'
      BY <1>0, <1>3, <1>6, <2>1 DEF OwnBooks
    <2>6. QED
      BY <2>4, <2>5
  <1>8. /\ lock'[p] = r /\ lock'[wanted[r].doc] = r /\ qty'[r] = A!OwnStock(r, p)' /\ progress'[r] = "update"
    BY <1>1, <1>2, <1>3, PlanFits DEF TriggerTyped, RequestHeld, Holding, Writing, A!OwnStock
  <1>9. wanted'[r].op = "put" \/ staleDocs' = {} => status'[wanted'[r].doc] = old'[r]
    BY <1>1, <1>3 DEF RequestHeld, Holding, Writing
  <1>10. Len(plan) \in Nat
    BY <1>0, BooksTwice
  <1>11. QED
    BY <1>1, <1>3, <1>5, <1>6, <1>7, <1>8, <1>9, <1>10 DEF RequestHeld, Holding, Writing

LEMMA Updates ==
  ASSUME A!TriggersAssumption, TriggerTyped, NEW r \in Reqs, RequestHeld(r), A!UpdateRow(r), ~A!TooLow(r)
  PROVE  TriggerTyped' /\ RequestHeld(r)' /\ UNCHANGED <<status, stock, invoiced, posted, moves, staleDocs, detached>>
  <1> USE DEF A!database, A!request, A!runtime, A!ghosts
  <1>0. PICK plan, n, p : plan = A!Plan(r) /\ n = nextStep[r] /\ p = A!Item(r).product
    OBVIOUS
  <1>1. progress[r] = "update" /\ n \in 1..Len(plan) /\ plan[n].act.type = "update" /\ plan[n].item.product = p
    BY <1>0, BooksTwice DEF A!UpdateRow, RequestHeld, A!Act, A!Item, TriggerTyped
  <1>2. p \in Products /\ plan[n].act.sign \in {1, -1} /\ plan[n].item.qty \in Int
    BY <1>0, <1>1, PlanFits DEF A!Fits
  <1>3. PICK v : v = A!Changed(r)
    OBVIOUS
  <1>4. v \in Int /\ v = qty[r] + plan[n].act.sign * plan[n].item.qty
    BY <1>0, <1>2, <1>3 DEF A!Changed, A!Act, A!Item, TriggerTyped
  <1>5. /\ lock' = [lock EXCEPT ![p] = r]
        /\ mine' = [mine EXCEPT ![r].stock = [x \in DOMAIN mine[r].stock \cup {p} |-> IF x = p THEN v ELSE mine[r].stock[x]]]
        /\ progress' = [progress EXCEPT ![r] = "act"] /\ nextStep' = [nextStep EXCEPT ![r] = n + 1]
        /\ UNCHANGED <<status, lines, stock, invoiced, posted, wanted, old, own, lookedUp, acc, qty, moves, staleDocs, detached, failed>>
    BY <1>0, <1>3 DEF A!UpdateRow, A!Advance, TriggerTyped
  <1>6. PICK rows : rows = [x \in DOMAIN mine[r].stock \cup {p} |-> IF x = p THEN v ELSE mine[r].stock[x]]
    OBVIOUS
  <1>7. rows \in UNION {[S -> Int] : S \in SUBSET Products} /\ mine[r] \in OwnRows
    <2>1. mine[r] \in OwnRows
      BY DEF TriggerTyped
    <2>2. PICK S \in SUBSET Products : mine[r].stock \in [S -> Int]
      BY <2>1 DEF OwnRows
    <2>3. rows \in [S \cup {p} -> Int]
      BY <1>4, <1>6, <2>2
    <2>4. S \cup {p} \in SUBSET Products
      BY <1>2
    <2>5. QED
      BY <2>1, <2>3, <2>4
  <1>8. /\ mine'[r] \in OwnRows /\ mine'[r].stock = rows
        /\ mine'[r].invoiced = mine[r].invoiced /\ mine'[r].posted = mine[r].posted
        /\ mine' \in [Reqs -> OwnRows]
    <2>1. mine' = [mine EXCEPT ![r] = [mine[r] EXCEPT !.stock = rows]]
      BY <1>5, <1>6
    <2>2. [mine[r] EXCEPT !.stock = rows] \in OwnRows
      BY <1>7 DEF OwnRows
    <2>3. QED
      BY <1>7, <2>1, <2>2 DEF TriggerTyped, OwnRows
  <1>9. TriggerTyped'
    BY <1>2, <1>5, <1>8, <1>1 DEF TriggerTyped
  <1>10. A!Plan(r)' = plan /\ nextStep'[r] = n + 1 /\ wanted'[r] = wanted[r]
    BY <1>0, <1>5 DEF A!Plan, A!NewStatus, TriggerTyped
  <1>11. OwnLots(r) /\ OwnBooks(r) /\ lock[wanted[r].doc] = r
    BY <1>1 DEF RequestHeld, Holding, Writing
  <1>12. OwnLots(r)'
    <2>1. ASSUME NEW x \in Products
          PROVE  DoneTo(r, x)' = A!Sum(A!Effects(plan, x), n) /\ DoneTo(r, x) = A!Sum(A!Effects(plan, x), n - 1)
      <3>1. nextStep'[r] - 1 = n
        BY <1>1, <1>10
      <3>2. DoneTo(r, x)' = A!Sum(A!Effects(plan, x), nextStep'[r] - 1)
        BY <1>10 DEF DoneTo
      <3>3. DoneTo(r, x) = A!Sum(A!Effects(plan, x), n - 1)
        BY <1>0 DEF DoneTo
      <3>4. QED
        BY <3>1, <3>2, <3>3
    <2>2. ASSUME NEW x \in Products, x # p PROVE DoneTo(r, x)' = DoneTo(r, x)
      <3>1. A!Sum(A!Effects(plan, x), n) = A!Sum(A!Effects(plan, x), n - 1)
        BY <1>0, <1>1, <2>2, DonePasses
      <3>2. QED
        BY <2>1, <3>1
    <2>3. DoneTo(r, p)' = DoneTo(r, p) + plan[n].act.sign * plan[n].item.qty /\ DoneTo(r, p) \in Int
      <3>1. /\ A!Sum(A!Effects(plan, p), n) = A!Sum(A!Effects(plan, p), n - 1) + plan[n].act.sign * plan[n].item.qty
            /\ A!Sum(A!Effects(plan, p), n - 1) \in Int
        BY <1>0, <1>1, <1>2, DoneStep
      <3>2. QED
        BY <1>2, <2>1, <3>1
    <2>4. qty[r] = IF p \in DOMAIN mine[r].stock THEN mine[r].stock[p] ELSE stock[p]
      BY <1>0, <1>1 DEF RequestHeld, A!OwnStock
    <2>5. v = stock[p] + DoneTo(r, p)'
      <3>1. qty[r] = stock[p] + DoneTo(r, p)
        BY <1>2, <1>11, <2>3, <2>4 DEF OwnLots, TriggerTyped
      <3>2. stock[p] \in Int /\ plan[n].act.sign * plan[n].item.qty \in Int
        BY <1>2 DEF TriggerTyped
      <3>3. QED
        BY <1>4, <2>3, <3>1, <3>2
    <2>6. ASSUME NEW x \in Products
          PROVE  IF x \in DOMAIN rows THEN lock'[x] = r /\ rows[x] = stock[x] + DoneTo(r, x)' ELSE DoneTo(r, x)' = 0
      <3>1. CASE x = p
        BY <1>2, <1>5, <1>6, <2>5, <3>1 DEF TriggerTyped
      <3>2. CASE x # p
        BY <1>2, <1>5, <1>6, <1>11, <2>2, <3>2 DEF TriggerTyped, OwnLots
      <3>3. QED
        BY <3>1, <3>2
    <2>7. QED
      BY <1>5, <1>8, <2>6 DEF OwnLots
  <1>13. OwnBooks(r)'
    <2>1. n \notin A!Bookings(plan) /\ A!Bookings(plan) \subseteq 1..Len(plan)
      BY <1>0, <1>1, BooksTwice
    <2>2. {i \in A!Bookings(plan) : i < n + 1} = {i \in A!Bookings(plan) : i < n}
      BY <1>1, <2>1
    <2>3. QED
      BY <1>0, <1>5, <1>8, <1>10, <1>11, <2>2 DEF OwnBooks
  <1>14. progress'[r] = "act" /\ lock'[wanted'[r].doc] = r /\ nextStep'[r] <= Len(plan) + 1
    BY <1>0, <1>1, <1>2, <1>5, <1>10, <1>11, BooksTwice, PlanFits DEF TriggerTyped
  <1>15. wanted'[r].op = "put" \/ staleDocs' = {} => status'[wanted'[r].doc] = old'[r]
    BY <1>1, <1>5 DEF RequestHeld, Holding, Writing
  <1>16. QED
    BY <1>5, <1>9, <1>10, <1>12, <1>13, <1>14, <1>15 DEF RequestHeld, Holding, Writing

\* The invoice, and the posting after it.
LEMMA Books ==
  ASSUME A!TriggersAssumption, TriggerTyped, NEW r \in Reqs, RequestHeld(r),
         A!Insert(r) \/ (A!InsertBatch(r) /\ acc[r] = Totals[wanted[r].doc])
  PROVE  TriggerTyped' /\ RequestHeld(r)' /\ UNCHANGED <<status, stock, invoiced, posted, moves, staleDocs, detached>>
  <1> USE DEF A!database, A!request, A!runtime, A!ghosts
  <1>0. PICK plan, n, total : plan = A!Plan(r) /\ n = nextStep[r] /\ total = Totals[wanted[r].doc]
    OBVIOUS
  <1>1. progress[r] = "act" /\ n \in 1..Len(plan) /\ plan[n].act.type \in {"insert", "insert_batch"}
    BY <1>0, BooksTwice DEF A!Insert, A!InsertBatch, A!At, A!Ended, A!Act, TriggerTyped
  <1>2. \/ mine' = [mine EXCEPT ![r].invoiced = acc[r]] /\ plan[n].act.type = "insert"
        \/ mine' = [mine EXCEPT ![r].posted = total] /\ plan[n].act.type = "insert_batch" /\ acc[r] = total
    BY <1>0 DEF A!Insert, A!InsertBatch, A!At, A!Act
  <1>3. /\ nextStep' = [nextStep EXCEPT ![r] = n + 1]
        /\ UNCHANGED <<status, lines, stock, invoiced, posted, lock, wanted, progress, old, own, lookedUp, acc, qty, moves, staleDocs, detached, failed>>
    BY <1>0 DEF A!Insert, A!InsertBatch, A!Advance, TriggerTyped
  <1>4. total \in Int
    BY <1>0, PlanFits DEF A!TriggersAssumption
  <1>5. mine[r] \in OwnRows
    BY DEF TriggerTyped
  <1>6. mine' \in [Reqs -> OwnRows] /\ mine'[r].stock = mine[r].stock
    <2>1. [mine[r] EXCEPT !.invoiced = acc[r]] \in OwnRows /\ [mine[r] EXCEPT !.posted = total] \in OwnRows
      BY <1>4, <1>5 DEF OwnRows, TriggerTyped
    <2>2. PICK row \in OwnRows : mine' = [mine EXCEPT ![r] = row] /\ row.stock = mine[r].stock
      <3>1. CASE mine' = [mine EXCEPT ![r] = [mine[r] EXCEPT !.invoiced = acc[r]]]
        BY <1>5, <2>1, <3>1 DEF OwnRows
      <3>2. CASE mine' = [mine EXCEPT ![r] = [mine[r] EXCEPT !.posted = total]]
        BY <1>5, <2>1, <3>2 DEF OwnRows
      <3>3. QED
        BY <1>2, <3>1, <3>2
    <2>3. QED
      BY <2>2 DEF TriggerTyped
  <1>7. TriggerTyped'
    <2>1. n + 1 \in Nat \ {0}
      BY <1>1
    <2>2. QED
      BY <1>3, <1>6, <2>1 DEF TriggerTyped
  <1>8. A!Plan(r)' = plan /\ nextStep'[r] = n + 1 /\ wanted'[r] = wanted[r]
    BY <1>0, <1>3 DEF A!Plan, A!NewStatus, TriggerTyped
  <1>9. OwnLots(r) /\ OwnBooks(r) /\ lock[wanted[r].doc] = r
    BY <1>1 DEF RequestHeld, Holding, Writing
  <1>10. OwnLots(r)'
    <2>1. ASSUME NEW p \in Products PROVE DoneTo(r, p)' = DoneTo(r, p)
      <3>1. A!Sum(A!Effects(plan, p), n) = A!Sum(A!Effects(plan, p), n - 1)
        BY <1>0, <1>1, DonePasses
      <3>2. nextStep'[r] - 1 = n
        BY <1>1, <1>8
      <3>3. DoneTo(r, p)' = A!Sum(A!Effects(plan, p), nextStep'[r] - 1)
        BY <1>8 DEF DoneTo
      <3>4. DoneTo(r, p) = A!Sum(A!Effects(plan, p), n - 1)
        BY <1>0 DEF DoneTo
      <3>5. QED
        BY <3>1, <3>2, <3>3, <3>4
    <2>2. QED
      BY <1>3, <1>6, <1>9, <2>1 DEF OwnLots
  <1>11. OwnBooks(r)'
    <2>1. PICK i \in 1..Len(plan) : /\ A!Bookings(plan) = {i, i + 1} /\ i + 1 \in 1..Len(plan)
                                    /\ plan[i].act.type = "insert" /\ plan[i + 1].act.type = "insert_batch"
      BY <1>0, <1>1, BooksTwice
    <2>2. n \in {i, i + 1}
      BY <1>0, <1>1, <2>1, BooksTwice
    <2>3. CASE n = i
      <3>1. mine'[r].invoiced = acc[r] /\ mine'[r].posted = mine[r].posted
        BY <1>2, <1>5, <2>1, <2>3 DEF TriggerTyped, OwnRows
      <3>2. {k \in A!Bookings(plan) : k < n} = {} /\ {k \in A!Bookings(plan) : k < n + 1} = {i} /\ A!Bookings(plan) # {i}
        BY <2>1, <2>3
      <3>3. mine[r].posted = 0
        BY <1>0, <1>9, <3>2 DEF OwnBooks
      <3>4. QED
        BY <1>3, <1>8, <3>1, <3>2, <3>3 DEF OwnBooks
    <2>4. CASE n = i + 1
      <3>1. mine'[r].invoiced = mine[r].invoiced /\ mine'[r].posted = total /\ acc[r] = total
        BY <1>2, <1>5, <2>1, <2>4 DEF TriggerTyped, OwnRows
      <3>2. {k \in A!Bookings(plan) : k < n} = {i} /\ {k \in A!Bookings(plan) : k < n + 1} = A!Bookings(plan) /\ A!Bookings(plan) # {i}
        BY <2>1, <2>4
      <3>3. mine[r].invoiced = acc[r]
        BY <1>0, <1>9, <3>2 DEF OwnBooks
      <3>4. QED
        BY <1>0, <1>3, <1>8, <3>1, <3>2, <3>3 DEF OwnBooks
    <2>5. QED
      BY <2>2, <2>3, <2>4
  <1>12. nextStep'[r] <= Len(plan) + 1
    BY <1>0, <1>1, <1>8, BooksTwice
  <1>13. wanted'[r].op = "put" \/ staleDocs' = {} => status'[wanted'[r].doc] = old'[r]
    BY <1>1, <1>3 DEF RequestHeld, Holding, Writing
  <1>14. QED
    BY <1>1, <1>3, <1>7, <1>8, <1>9, <1>10, <1>11, <1>12, <1>13 DEF RequestHeld, Holding, Writing

\* What a commit adds to stock and books is what the plan of the transition adds.
LEMMA CommitsTransition ==
  ASSUME A!TriggersAssumption, TriggerInv, NEW r \in Reqs, A!Commit(r)
  PROVE  TriggerTyped' /\ RequestHeld(r)' /\ A!StockMatchesDocuments' /\ A!BooksBalance'
  <1> USE DEF A!database, A!request, A!runtime, A!ghosts
  <1>0. PICK plan, d, before, after, version, meant :
          /\ plan = A!Plan(r) /\ d = wanted[r].doc /\ before = status[wanted[r].doc] /\ after = A!NewStatus(r)
          /\ version = own[r] /\ meant = A!Meant(r)
    OBVIOUS
  <1>1. /\ TriggerTyped /\ Writing(r) /\ OwnLots(r) /\ OwnBooks(r) /\ d \in A!Docs
        /\ wanted[r].op = "put" \/ staleDocs = {} => before = old[r]
        /\ Len(plan) \in Nat /\ nextStep[r] = Len(plan) + 1
    <2>1. TriggerTyped /\ RequestHeld(r) /\ progress[r] = "act" /\ nextStep[r] > Len(plan)
      BY <1>0 DEF TriggerInv, A!Commit, A!Ended
    <2>2. d \in A!Docs /\ Len(plan) \in Nat
      BY <1>0, <2>1, BooksTwice, PlanFits
    <2>3. QED
      BY <1>0, <2>1, <2>2 DEF RequestHeld, Holding, Writing, TriggerTyped
  <1>2. PICK ships, returns : ships = A!Ships(before, after) /\ returns = A!Returns(before, after)
    OBVIOUS
  <1>3. ships \in {0, 1} /\ returns \in {0, 1}
    BY <1>2 DEF A!Ships, A!Returns
  <1>4. /\ status' = [status EXCEPT ![d] = after] /\ stock' = [p \in Products |-> A!OwnStock(r, p)]
        /\ lines' = [lines EXCEPT ![d] = version]
        /\ invoiced' = [invoiced EXCEPT ![d] = invoiced[d] + mine[r].invoiced]
        /\ posted' = [posted EXCEPT ![d] = posted[d] + mine[r].posted]
        /\ moves' = [moves EXCEPT ![d] = [shipments |-> moves[d].shipments + ships,
             net |-> [p \in Products |-> moves[d].net[p] + (ships - returns) * A!QtyOf(meant, p)]]]
        /\ detached' = IF returns = 1 /\ version # meant THEN detached \cup {d} ELSE detached
        /\ lock' = A!Unlocked(r) /\ mine' = [mine EXCEPT ![r] = A!NothingYet]
        /\ progress' = [progress EXCEPT ![r] = "committed"]
        /\ UNCHANGED <<wanted, old, own, nextStep, lookedUp, acc, qty, staleDocs, failed>>
    BY <1>0, <1>1, <1>2 DEF A!Commit, A!Moved, TriggerTyped
  <1>5. mine[r] \in OwnRows /\ mine[r].invoiced \in Int /\ mine[r].posted \in Int
    BY <1>1 DEF TriggerTyped, OwnRows
  <1>6. version \in DOMAIN Lines /\ meant \in DOMAIN Lines /\ \A v \in DOMAIN Lines, p \in Products : A!QtyOf(v, p) \in Int
    BY <1>0, <1>1 DEF TriggerTyped, A!Meant, A!TriggersAssumption
  <1>7. \A x \in A!Docs : moves[x] \in Movements /\ moves[x].shipments \in Int /\ \A p \in Products : moves[x].net[p] \in Int
    BY <1>1 DEF TriggerTyped, Movements
  <1>8. TriggerTyped'
    <2>1. lock' \in [A!Docs \cup Products -> Reqs \cup {Nobody}]
      BY <1>1, <1>4 DEF A!Unlocked, TriggerTyped
    <2>2. stock' \in [Products -> Int]
      <3>1. \A p \in Products : A!OwnStock(r, p) \in Int
        BY <1>1, <1>5 DEF A!OwnStock, TriggerTyped, OwnRows
      <3>2. QED
        BY <1>4, <3>1
    <2>3. moves' \in [A!Docs -> Movements]
      <3>1. \A p \in Products : moves[d].net[p] + (ships - returns) * A!QtyOf(meant, p) \in Int
        <4>1. \A p \in Products : moves[d].net[p] \in Int /\ A!QtyOf(meant, p) \in Int
          BY <1>1, <1>6, <1>7
        <4>2. QED
          BY <1>3, <4>1
      <3>2. moves[d].shipments + ships \in Int
        BY <1>1, <1>3, <1>7
      <3>3. QED
        BY <1>1, <1>4, <3>1, <3>2 DEF TriggerTyped, Movements
    <2>4. status' \in [A!Docs -> Statuses \cup {A!Gone}] /\ lines' \in [A!Docs -> DOMAIN Lines]
      BY <1>0, <1>1, <1>4, <1>6, PlanFits DEF TriggerTyped
    <2>5. invoiced' \in [A!Docs -> Int] /\ posted' \in [A!Docs -> Int]
      BY <1>1, <1>4, <1>5 DEF TriggerTyped
    <2>6. mine' \in [Reqs -> OwnRows]
      BY <1>1, <1>4, NothingTyped DEF TriggerTyped
    <2>7. QED
      BY <1>1, <1>4, <2>1, <2>2, <2>3, <2>4, <2>5, <2>6 DEF TriggerTyped
  <1>9. RequestHeld(r)'
    <2>1. progress'[r] = "committed" /\ mine'[r] = A!NothingYet
      BY <1>1, <1>4 DEF TriggerTyped
    <2>2. QED
      BY <2>1 DEF RequestHeld, Holding, Writing, A!NothingYet
  <1>10. A!StockMatchesDocuments'
    <2>1. SUFFICES ASSUME staleDocs = {}, detached' = {}, NEW p \in Products PROVE stock'[p] = Stock0[p] - A!Shipped(p)'
      BY <1>4 DEF A!StockMatchesDocuments
    <2>2. PICK q, k : q = A!QtyOf(meant, p) /\ k = A!QtyOf(version, p)
      OBVIOUS
    <2>3. q \in Int /\ k \in Int /\ MaxDoc \in Nat /\ d \in 1..MaxDoc
      BY <1>1, <1>6, <2>2 DEF A!TriggersAssumption, A!Docs
    \* What the rows found come to is what is meant, or neither moves.
    <2>4. (returns - ships) * k = (returns - ships) * q
      <3>1. CASE version = meant
        BY <2>2, <3>1
      <3>2. CASE version # meant
        <4>1. wanted[r].op = "delete"
          BY <1>0, <3>2 DEF A!Meant
        <4>2. ships = 0
          BY <1>0, <1>1, <1>2, <4>1, PlanFits DEF A!Ships, A!Gone
        <4>3. returns = 0
          BY <1>3, <1>4, <2>1, <3>2
        <4>4. QED
          BY <2>3, <4>2, <4>3
      <3>3. QED
        BY <3>1, <3>2
    <2>5. stock'[p] = stock[p] + (returns - ships) * q
      <3>1. DoneTo(r, p) = A!Sum(A!Effects(plan, p), nextStep[r] - 1)
        BY <1>0 DEF DoneTo
      <3>2. nextStep[r] - 1 = Len(plan)
        BY <1>1
      <3>3. A!Sum(A!Effects(plan, p), Len(plan)) = (returns - ships) * k
        BY <1>0, <1>1, <1>2, <2>1, <2>2, DoneStep
      <3>4. DoneTo(r, p) = (returns - ships) * q
        BY <2>4, <3>1, <3>2, <3>3
      <3>5. A!OwnStock(r, p) = stock[p] + DoneTo(r, p)
        <4>1. (returns - ships) * q \in Int /\ stock[p] \in Int
          BY <1>1, <1>3, <2>3 DEF TriggerTyped
        <4>2. QED
          BY <1>1, <3>4, <4>1 DEF OwnLots, A!OwnStock
      <3>6. QED
        BY <1>4, <3>4, <3>5
    <2> DEFINE f == [x \in A!Docs |-> moves[x].net[p]]
               h == [x \in A!Docs |-> moves'[x].net[p]]
    <2>6. A!Shipped(p) = A!Sum(f, MaxDoc) /\ A!Shipped(p)' = A!Sum(h, MaxDoc)
      BY DEF A!Shipped
    <2>7. /\ h[d] = f[d] + (ships - returns) * q
          /\ \A x \in A!Docs : f[x] \in Int /\ h[x] \in Int /\ (x # d => f[x] = h[x])
      <3>1. \A x \in A!Docs : x # d => moves'[x] = moves[x]
        BY <1>1, <1>4 DEF TriggerTyped
      <3>2. moves'[d].net[p] = moves[d].net[p] + (ships - returns) * q
        BY <1>1, <1>4, <2>2 DEF TriggerTyped
      <3>3. moves[d].net[p] + (ships - returns) * q \in Int
        <4>1. moves[d].net[p] \in Int
          BY <1>1, <1>7
        <4>2. QED
          BY <1>3, <2>3, <4>1
      <3>4. QED
        BY <1>1, <1>7, <3>1, <3>2, <3>3
    <2>8. AllInt(f, MaxDoc) /\ AllInt(h, MaxDoc) /\ \A x \in 1..MaxDoc : x # d => f[x] = h[x]
      BY <2>7 DEF AllInt, A!Docs
    <2>9. f[d] \in Int /\ h[d] \in Int
      BY <1>1, <2>7
    <2> HIDE DEF f, h
    <2>10. A!Sum(h, MaxDoc) = A!Sum(f, MaxDoc) + h[d] - f[d]
      BY <2>3, <2>8, SumMoves
    <2>11. A!Sum(f, MaxDoc) \in Int /\ Stock0[p] \in Int
      BY <2>3, <2>8, SumStep DEF A!TriggersAssumption
    <2>12. stock[p] = Stock0[p] - A!Shipped(p)
      <3>1. detached = {}
        BY <1>4, <2>1
      <3>2. QED
        BY <2>1, <3>1 DEF TriggerInv, A!StockMatchesDocuments
    <2>13. (returns - ships) * q = 0 - (ships - returns) * q /\ (ships - returns) * q \in Int
      BY <1>3, <2>3
    <2>14. QED
      BY <2>5, <2>6, <2>7, <2>9, <2>10, <2>11, <2>12, <2>13
  <1>11. A!BooksBalance'
    <2>1. PICK total : total = Totals[d]
      OBVIOUS
    <2>2. total \in Int
      BY <1>1, <2>1 DEF A!TriggersAssumption
    <2>3. mine[r].invoiced = ships * total /\ mine[r].posted = ships * total
      <3>1. ships = A!Ships(old[r], after)
        <4>1. CASE wanted[r].op = "put"
          BY <1>1, <1>2, <4>1
        <4>2. CASE wanted[r].op # "put"
          BY <1>0, <1>1, <1>2, <4>2, PlanFits DEF A!Ships, A!Gone
        <4>3. QED
          BY <4>1, <4>2
      <3>2. {i \in A!Bookings(plan) : i < nextStep[r]} = A!Bookings(plan)
        BY <1>0, <1>1, BooksTwice
      <3>3. CASE ships = 0
        <4>1. A!Bookings(plan) = {}
          BY <1>0, <1>1, <3>1, <3>3, BooksTwice
        <4>2. mine[r].invoiced = 0 /\ mine[r].posted = 0
          BY <1>0, <1>1, <3>2, <4>1 DEF OwnBooks
        <4>3. QED
          BY <2>2, <3>3, <4>2
      <3>4. CASE ships = 1
        <4>1. A!Bookings(plan) # {}
          <5>1. A!Ships(old[r], A!NewStatus(r)) # 0
            BY <1>0, <3>1, <3>4
          <5>2. QED
            BY <1>0, <1>1, <5>1, BooksTwice
        <4>2. mine[r].invoiced = total /\ mine[r].posted = total
          BY <1>0, <1>1, <2>1, <3>2, <4>1 DEF OwnBooks
        <4>3. QED
          BY <2>2, <3>4, <4>2
      <3>5. QED
        BY <1>3, <3>3, <3>4
    <2>4. SUFFICES ASSUME NEW x \in A!Docs
          PROVE  invoiced'[x] = posted'[x] /\ posted'[x] = moves'[x].shipments * Totals[x]
      BY DEF A!BooksBalance
    <2>5. invoiced[x] = posted[x] /\ posted[x] = moves[x].shipments * Totals[x]
      BY DEF TriggerInv, A!BooksBalance
    <2>6. CASE x # d
      BY <1>1, <1>4, <2>5, <2>6 DEF TriggerTyped
    <2>7. CASE x = d
      <3>1. PICK out \in Int : out = moves[d].shipments
        BY <1>1, <1>7
      <3>2. moves'[d].shipments = out + ships
        BY <1>1, <1>4, <3>1 DEF TriggerTyped
      <3>3. (out + ships) * total = out * total + ships * total
        BY <1>3, <2>2, <3>1
      <3>4. invoiced'[d] = invoiced[d] + ships * total /\ posted'[d] = posted[d] + ships * total
        BY <1>1, <1>4, <2>3 DEF TriggerTyped
      <3>5. QED
        BY <2>1, <2>5, <2>7, <3>1, <3>2, <3>3, <3>4
    <2>8. QED
      BY <2>6, <2>7
  <1>12. QED
    BY <1>8, <1>9, <1>10, <1>11

LEMMA SumOfNothing ==
  ASSUME NEW n \in Nat, NEW f, \A i \in 1..n : f[i] = 0
  PROVE  A!Sum(f, n) = 0
  <1>1. AllInt(f, n) /\ Running([i \in 0..n |-> 0], f, n)
    BY DEF AllInt, Running
  <1>2. PICK g : Running(g, f, n) /\ A!Sum(f, n) = g[n]
    BY <1>1, SumRuns
  <1>3. g[n] = [i \in 0..n |-> 0][n]
    BY <1>1, <1>2, RunningAgree
  <1>4. QED
    BY <1>2, <1>3

LEMMA TriggerInit ==
  ASSUME A!TriggersAssumption, A!Init
  PROVE  TriggerInv
  <1>1. TriggerTyped
    <2>1. /\ Totals \in [A!Docs -> Int] /\ Stock0 \in [Products -> Int]
      BY DEF A!TriggersAssumption
    <2>2. mine \in [Reqs -> OwnRows] /\ moves \in [A!Docs -> Movements]
      BY NothingTyped DEF A!Init, Movements
    <2>3. status \in [A!Docs -> Statuses \cup {A!Gone}] /\ wanted \in Wanted
      BY DEF A!Init
    <2>4. lines \in [A!Docs -> DOMAIN Lines] /\ own \in [Reqs -> DOMAIN Lines]
      BY DEF A!Init, A!TriggersAssumption
    <2>5. /\ stock \in [Products -> Int] /\ invoiced \in [A!Docs -> Int] /\ posted \in [A!Docs -> Int]
          /\ lock \in [A!Docs \cup Products -> Reqs \cup {Nobody}] /\ old \in [Reqs -> Statuses \cup {A!Gone}]
          /\ lookedUp \in [Reqs -> Int] /\ acc \in [Reqs -> Int] /\ qty \in [Reqs -> Int]
      BY <2>1 DEF A!Init
    <2>6. progress = [r \in Reqs |-> "new"] /\ nextStep = [r \in Reqs |-> 1]
      BY DEF A!Init
    <2>7. QED
      BY <2>2, <2>3, <2>4, <2>5, <2>6 DEF TriggerTyped
  <1>2. \A r \in Reqs : RequestHeld(r)
    BY DEF A!Init, RequestHeld, Holding, Writing
  <1>3. A!StockMatchesDocuments
    <2>1. SUFFICES ASSUME NEW p \in Products PROVE stock[p] = Stock0[p] - A!Shipped(p)
      BY DEF A!StockMatchesDocuments
    <2> DEFINE f == [d \in A!Docs |-> moves[d].net[p]]
    <2>2. ASSUME NEW d \in A!Docs PROVE f[d] = 0
      BY DEF A!Init
    <2>3. A!Shipped(p) = A!Sum(f, MaxDoc)
      BY DEF A!Shipped
    <2> HIDE DEF f
    <2>4. A!Shipped(p) = 0
      BY <2>2, <2>3, SumOfNothing DEF A!TriggersAssumption, A!Docs
    <2>5. QED
      BY <2>4 DEF A!Init, A!TriggersAssumption
  <1>4. A!BooksBalance
    <2>1. SUFFICES ASSUME NEW d \in A!Docs
          PROVE  invoiced[d] = posted[d] /\ posted[d] = moves[d].shipments * Totals[d]
      BY DEF A!BooksBalance
    <2>2. Totals[d] \in Int /\ invoiced[d] = 0 /\ posted[d] = 0 /\ moves[d].shipments = 0
      BY DEF A!Init, A!TriggersAssumption
    <2>3. QED
      BY <2>2
  <1>5. QED
    BY <1>1, <1>2, <1>3, <1>4 DEF TriggerInv

LEMMA ActingTyped ==
  ASSUME A!TriggersAssumption, TriggerTyped, NEW r \in Reqs,
         A!Start(r) \/ A!Iterate(r) \/ (A!Lookup(r) /\ ~A!RollBack(r)) \/ A!Accumulate(r)
  PROVE  /\ TriggerTyped' /\ progress[r] = "act" /\ nextStep[r] <= Len(A!Plan(r))
         /\ A!Act(r).type \notin {"update", "insert", "insert_batch"}
         /\ progress' = progress /\ nextStep' = [nextStep EXCEPT ![r] = nextStep[r] + 1]
         /\ UNCHANGED <<status, lines, stock, invoiced, posted, lock, wanted, old, own, mine, moves, staleDocs, detached>>
  <1> USE DEF A!database, A!request, A!runtime, A!ghosts
  <1>0. PICK plan, n : plan = A!Plan(r) /\ n = nextStep[r]
    OBVIOUS
  <1>1. /\ progress[r] = "act" /\ n \in 1..Len(plan)
        /\ A!Act(r) = plan[n].act /\ A!Item(r) = plan[n].item
        /\ A!Act(r).type \in {"start", "iterate_detail", "lookup", "accumulate"}
    BY <1>0, BooksTwice DEF A!Start, A!Iterate, A!Lookup, A!Accumulate, A!At, A!Ended, A!Act, A!Item, TriggerTyped
  <1>2. /\ progress' = progress /\ nextStep' = [nextStep EXCEPT ![r] = n + 1]
        /\ UNCHANGED <<status, lines, stock, invoiced, posted, lock, wanted, old, own, qty, mine, moves, staleDocs, detached, failed>>
    BY <1>0 DEF A!Start, A!Iterate, A!Lookup, A!Accumulate, A!Advance, TriggerTyped
  <1>3. lookedUp' \in [Reqs -> Int] /\ acc' \in [Reqs -> Int]
    <2>1. CASE A!Start(r) \/ A!Iterate(r)
      BY <2>1 DEF A!Start, A!Iterate, TriggerTyped
    <2>2. CASE A!Lookup(r) /\ ~A!RollBack(r)
      <3>1. A!Item(r).product \in DOMAIN Cost => Cost[A!Item(r).product] \in Int
        BY DEF A!TriggersAssumption
      <3>2. QED
        BY <2>2, <3>1 DEF A!Lookup, TriggerTyped
    <2>3. CASE A!Accumulate(r)
      <3>1. plan[n].item.qty \in Int
        <4>1. plan[n].act.type = "accumulate"
          BY <1>0, <2>3 DEF A!Accumulate, A!At, A!Act
        <4>2. QED
          BY <1>0, <1>1, <4>1, PlanFits DEF A!Fits
      <3>2. acc[r] + plan[n].item.qty * lookedUp[r] \in Int
        <4>1. acc[r] \in Int /\ lookedUp[r] \in Int
          BY DEF TriggerTyped
        <4>2. QED
          BY <3>1, <4>1
      <3>3. acc' = [acc EXCEPT ![r] = acc[r] + plan[n].item.qty * lookedUp[r]] /\ lookedUp' = lookedUp
        BY <1>1, <2>3 DEF A!Accumulate, TriggerTyped
      <3>4. QED
        BY <3>2, <3>3 DEF TriggerTyped
    <2>4. QED
      BY <2>1, <2>2, <2>3
  <1>4. TriggerTyped'
    <2>1. n + 1 \in Nat \ {0}
      BY <1>1
    <2>2. QED
      BY <1>2, <1>3, <2>1 DEF TriggerTyped
  <1>5. n <= Len(plan) /\ A!Act(r).type \notin {"update", "insert", "insert_batch"}
    BY <1>1
  <1>6. QED
    BY <1>0, <1>1, <1>2, <1>4, <1>5

LEMMA ActingHeld ==
  ASSUME A!TriggersAssumption, TriggerTyped, NEW r \in Reqs, RequestHeld(r), Acting(r) \/ Settling(r) \/ A!StatementFails(r)
  PROVE  TriggerTyped' /\ RequestHeld(r)' /\ UNCHANGED <<status, stock, invoiced, posted, moves, staleDocs, detached>>
  <1>1. CASE A!RollBack(r)
    BY <1>1, RollsBack
  <1>2. CASE A!Start(r) \/ A!Iterate(r) \/ (A!Lookup(r) /\ ~A!RollBack(r)) \/ A!Accumulate(r)
    BY <1>2, ActingTyped, PassesOver
  <1>3. CASE A!ReadRow(r)
    BY <1>3, Reads
  <1>4. CASE A!UpdateRow(r)
    <2>1. CASE A!TooLow(r)
      BY <1>4, <2>1, RollsBack DEF A!UpdateRow
    <2>2. CASE ~A!TooLow(r)
      BY <1>4, <2>2, Updates
    <2>3. QED
      BY <2>1, <2>2
  <1>5. CASE A!Insert(r)
    BY <1>5, Books
  <1>6. CASE A!InsertBatch(r)
    <2>1. CASE acc[r] = Totals[wanted[r].doc]
      BY <1>6, <2>1, Books
    <2>2. CASE acc[r] # Totals[wanted[r].doc]
      BY <1>6, <2>2, RollsBack DEF A!InsertBatch
    <2>3. QED
      BY <2>1, <2>2
  <1>7. CASE Settling(r) /\ ~A!RollBack(r)
    BY <1>7, Settles
  <1>8. QED
    BY <1>1, <1>2, <1>3, <1>4, <1>5, <1>6, <1>7 DEF Acting, A!StatementFails

\* What was committed stays as it is until the next commit.
LEMMA BooksKept ==
  ASSUME A!StockMatchesDocuments, A!BooksBalance, staleDocs \subseteq staleDocs', detached' = detached,
         UNCHANGED <<stock, invoiced, posted, moves>>
  PROVE  A!StockMatchesDocuments' /\ A!BooksBalance'
  <1>1. \A p : A!Shipped(p)' = A!Shipped(p)
    BY DEF A!Shipped
  <1>2. staleDocs' = {} => staleDocs = {}
    OBVIOUS
  <1>3. A!StockMatchesDocuments'
    BY <1>1, <1>2 DEF A!StockMatchesDocuments
  <1>4. A!BooksBalance'
    BY DEF A!BooksBalance
  <1>5. QED
    BY <1>3, <1>4

LEMMA TriggerNext ==
  ASSUME A!TriggersAssumption, TriggerInv, [A!Next]_triggers
  PROVE  TriggerInv'
  <1>1. CASE A!Next
    <2>1. PICK r \in Reqs : StepOf(r)
      BY <1>1 DEF A!Next, StepOf, Beginning, Settling, Acting
    <2>2. TriggerTyped /\ RequestHeld(r) /\ A!StockMatchesDocuments /\ A!BooksBalance
      BY DEF TriggerInv
    <2>3. TriggerTyped' /\ RequestHeld(r)' /\ A!StockMatchesDocuments' /\ A!BooksBalance'
      <3>1. CASE Beginning(r)
        BY <2>2, <3>1, Begins, BooksKept
      <3>2. CASE Acting(r) \/ Settling(r) \/ A!StatementFails(r)
        BY <2>2, <3>2, ActingHeld, BooksKept
      <3>3. CASE A!Commit(r)
        BY <3>3, CommitsTransition
      <3>4. QED
        BY <2>1, <3>1, <3>2, <3>3 DEF StepOf
    <2>4. \A q \in Reqs \ {r} : RequestHeld(q)'
      BY <2>1, OthersHeld
    <2>5. QED
      BY <2>3, <2>4 DEF TriggerInv
  <1>2. CASE UNCHANGED triggers
    <2> USE <1>2 DEF triggers
    <2>1. TriggerTyped' /\ A!StockMatchesDocuments' /\ A!BooksBalance'
      BY BooksKept DEF TriggerInv, TriggerTyped
    <2>2. \A q \in Reqs : RequestHeld(q)'
      BY LeftHeld DEF TriggerInv
    <2>3. QED
      BY <2>1, <2>2 DEF TriggerInv
  <1>3. QED
    BY <1>1, <1>2

----------------------------------------------------------------------------
(* Triggers in the services *)

allParts == <<part, calls, values, imports, references, pages, lints, tools, generation, triggers>>

\* A step of the services is, for the triggers, one of their own or none.
LEMMA TriggersPart ==
  /\ ServicesInit => A!Init
  /\ [ServicesNext]_allParts => [A!Next]_triggers
  BY DEF ServicesInit, ServicesNext, allParts
\* Whoever races, fails or is rolled back: the lots are what the committed
\* transitions of the documents make them, if what each transition fires does
\* so when it is executed alone.
THEOREM StockFollowsDocuments == ServicesSpec => []StockMatchesDocuments
  <1>1. ServicesInit => TriggerInv
    BY TriggersPart, TriggerInit, ServicesAssumption
  <1>2. TriggerInv /\ [ServicesNext]_allParts => TriggerInv'
    BY TriggersPart, TriggerNext, ServicesAssumption
  <1>3. TriggerInv => StockMatchesDocuments
    BY DEF TriggerInv, StockMatchesDocuments
  <1>4. QED
    BY <1>1, <1>2, <1>3, PTL DEF ServicesSpec, allParts

\* And each committed shipment, and nothing else, is invoiced and posted once.
THEOREM BooksStayBalanced == ServicesSpec => []BooksBalance
  <1>1. ServicesInit => TriggerInv
    BY TriggersPart, TriggerInit, ServicesAssumption
  <1>2. TriggerInv /\ [ServicesNext]_allParts => TriggerInv'
    BY TriggersPart, TriggerNext, ServicesAssumption
  <1>3. TriggerInv => BooksBalance
    BY DEF TriggerInv, BooksBalance
  <1>4. QED
    BY <1>1, <1>2, <1>3, PTL DEF ServicesSpec, allParts

=============================================================================
