-------------------------- MODULE ScopeStoreProofs --------------------------
(***************************************************************************)
(* What holds of the store for every suite: any tests, plans, scopes and   *)
(* dependencies that PlanAssumption allows.                                *)
(***************************************************************************)
EXTENDS ScopeStore, FiniteSetTheorems, TLAPS

Flushes(t)    == pc[t] = "releasing" /\ phase[t] = "flush"
Reported(t)   == pc[t] = "finished" \/ Flushes(t)
Unreported(m) == {t \in Tests : ModuleOf[t] = m /\ ~Reported(t)}
Holds(t, k)   == Uses(t, k) \/ Keeps(t, k) \/ Owed(t, k) \/ t \in leaked[k]

(* Where a task is, what it has come to and what it still has to do.       *)
Places ==
    \A t \in Tests :
        /\ pc[t] = "new" => at[t] = 1
        /\ pc[t] \in {"building", "parked", "woken"} => at[t] <= Len(Plan[t])
        /\ pc[t] = "calling" => at[t] = Len(Plan[t]) + 1
        /\ pc[t] # "releasing" => todo[t] = {} /\ closing[t] = {}
        /\ stage # "suite" => pc[t] \in Ended

(* An entry under construction has its constructor, and only one.          *)
Constructions ==
    /\ \A t \in Tests : pc[t] = "building" => entry[Wanted(t)] = "building"
    /\ \A t \in Tests : pc[t] = "parked" => entry[Wanted(t)] # "absent"
    /\ \A k \in Keys : entry[k] = "building" => \E t \in Tests : pc[t] = "building" /\ Wanted(t) = k
    /\ SingleFlight

(* What the store says of a fixture, and what became of it.                *)
Instances ==
    \A k \in Keys :
        /\ entry[k] = "building" <=> inst[k] = "building"
        /\ entry[k] = "ready" => inst[k] \in {"up", "closing"}
        /\ inst[k] = "up" => entry[k] = "ready"
        /\ entry[k] = "failed" => inst[k] = "broken"
        /\ entry[k] = "absent" /\ stage = "suite" => inst[k] \in {"none", "down"}
        /\ inst[k] = "closing" =>
             IF stage = "suite" THEN \E t \in Tests : k \in closing[t] ELSE entry[k] = "absent"
        /\ inst[k] # "none" => \E t \in Tests : k \in KeysOf(t)

Closers ==
    /\ \A t \in Tests : \A k \in closing[t] :
         /\ closing[t] = {k}
         /\ inst[k] = "closing" /\ entry[k] = "ready" /\ refcount[k] = 0
         /\ ScopeOf[k] # "session"
         /\ ScopeOf[k] = "function" => phase[t] # "flush" /\ k \in KeysOf(t)
         /\ ScopeOf[k] = "module" =>
              /\ phase[t] = "flush" /\ \E u \in Tests : k \in KeysOf(u)
              /\ \A u \in Tests : k \in KeysOf(u) => ModuleOf[u] = ModuleOf[t]
    /\ \A t, u \in Tests : closing[t] \cap closing[u] # {} => t = u

Past ==
    \A k \in Keys, t \in Tests :
        inst[k] \in {"closing", "down"} /\ k \in KeysOf(t) => pc[t] \in {"releasing"} \cup Ended

Reports ==
    /\ \A m \in Modules : remaining[m] = Cardinality(Unreported(m))
    /\ \A m \in Modules : remaining[m] = 0 => pending[m] = {}
    /\ \A t \in Tests : Flushes(t) => remaining[ModuleOf[t]] = 0
    /\ \A t, u \in Tests : Flushes(t) /\ Flushes(u) /\ ModuleOf[t] = ModuleOf[u] => t = u

Owing ==
    /\ \A u \in Tests : \A r \in todo[u] :
         /\ r[2] \in Acquired(r[1])
         /\ phase[u] = "flush" => ScopeOf[r[2]] = "module" /\ ModuleOf[r[1]] = ModuleOf[u]
         /\ phase[u] # "flush" => ScopeOf[r[2]] # "module" /\ r[1] = u
    /\ \A m \in Modules : \A r \in pending[m] :
         r[2] \in OfModule(Acquired(r[1])) /\ ModuleOf[r[1]] = m /\ pc[r[1]] = "finished"

Leaks ==
    \A k \in Keys : \A t \in leaked[k] :
        /\ ~Owed(t, k) /\ k \in Acquired(t) /\ pc[t] \in {"releasing", "finished"}
        /\ ScopeOf[k] = "module" => Reported(t)

Held ==
    stage = "suite" => \A t \in Tests, k \in Keys : Holds(t, k) => entry[k] = "ready"

Alive ==
    stage = "suite" => \A k \in Keys :
        entry[k] = "ready" /\ inst[k] = "up" /\ ScopeOf[k] # "session" => \E t \in Tests : Holds(t, k)

InOrder(S) ==
    \A t \in Tests, d \in Keys : <<t, d>> \in S =>
        \A k \in DependsOn[d] : (ScopeOf[k] = "module" <=> ScopeOf[d] = "module") => <<t, k>> \in S

Ordered ==
    /\ \A t \in Tests : InOrder(todo[t])
    /\ \A m \in Modules : InOrder(pending[m])
    /\ \A d \in Keys : older[d] \subseteq Present
    /\ \A d \in Keys : \A k \in DependsOn[d] :
         /\ d \notin older[k]
         /\ inst[d] # "none" => inst[k] \in {"up", "closing", "down"}

Sweeping ==
    /\ stage = "aclose" => sweep \in {{}, Present}
    /\ stage = "over" => Idle
    /\ stage # "suite" /\ ~stopping => Present = sweep
    /\ stage = "over" => sweep = {}
    /\ stage # "suite" => ModuleClosed
-----------------------------------------------------------------------------
(* The plans. *)

(* What t has acquired when it has come to step n. *)
Prefix(t, n) == {Plan[t][i] : i \in 1..(n - 1)}

(* A plan lists keys, each once.                                           *)
LEMMA PlanType ==
    ASSUME NEW t \in Tests
    PROVE  /\ Plan[t] \in Seq(Keys) /\ Len(Plan[t]) \in Nat
           /\ DOMAIN Plan[t] = 1..Len(Plan[t])
           /\ \A i \in 1..Len(Plan[t]) : Plan[t][i] \in Keys
           /\ \A i, j \in 1..Len(Plan[t]) : Plan[t][i] = Plan[t][j] => i = j
           /\ KeysOf(t) = Prefix(t, Len(Plan[t]) + 1)
           /\ KeysOf(t) \subseteq Keys
<1>1. Plan[t] \in Seq(Keys) /\ IsInjective(Plan[t])
  BY PlanAssumption
<1>2. Len(Plan[t]) \in Nat /\ DOMAIN Plan[t] = 1..Len(Plan[t])
  BY <1>1
<1>3. \A i \in 1..Len(Plan[t]) : Plan[t][i] \in Keys
  BY <1>1
<1>4. \A i, j \in 1..Len(Plan[t]) : Plan[t][i] = Plan[t][j] => i = j
  BY <1>1, <1>2 DEF IsInjective
<1>5. KeysOf(t) = Prefix(t, Len(Plan[t]) + 1)
  BY <1>2 DEF KeysOf, ToSet, Prefix
<1> QED BY <1>1, <1>2, <1>3, <1>4, <1>5 DEF KeysOf, ToSet

(* A prefix of a plan is closed under the dependencies, and so is what its *)
(* next step needs.                                                        *)
LEMMA PrefixFacts ==
    ASSUME NEW t \in Tests, NEW n \in 1..(Len(Plan[t]) + 1)
    PROVE  /\ Prefix(t, n) \subseteq KeysOf(t)
           /\ \A d \in Prefix(t, n) : DependsOn[d] \subseteq Prefix(t, n)
           /\ n <= Len(Plan[t]) =>
                /\ Plan[t][n] \in KeysOf(t) /\ Plan[t][n] \notin Prefix(t, n)
                /\ DependsOn[Plan[t][n]] \subseteq Prefix(t, n)
                /\ Prefix(t, n + 1) = Prefix(t, n) \cup {Plan[t][n]}
<1>1. Prefix(t, n) \subseteq KeysOf(t)
  BY PlanType DEF Prefix
<1>2. ASSUME NEW i \in 1..Len(Plan[t])
      PROVE  DependsOn[Plan[t][i]] \subseteq Prefix(t, i)
  BY <1>2, PlanType, PlanAssumption DEF Prefix
<1>3. \A i \in 1..n : Prefix(t, i) \subseteq Prefix(t, n)
  BY PlanType DEF Prefix
<1>4. ASSUME NEW d \in Prefix(t, n) PROVE DependsOn[d] \subseteq Prefix(t, n)
  <2>1. PICK i \in 1..(n - 1) : d = Plan[t][i]  BY DEF Prefix
  <2> QED BY <2>1, <1>2, <1>3, PlanType
<1>5. ASSUME n <= Len(Plan[t])
      PROVE  /\ Plan[t][n] \in KeysOf(t) /\ Plan[t][n] \notin Prefix(t, n)
             /\ DependsOn[Plan[t][n]] \subseteq Prefix(t, n)
             /\ Prefix(t, n + 1) = Prefix(t, n) \cup {Plan[t][n]}
  <2>1. n \in 1..Len(Plan[t])  BY <1>5, PlanType
  <2>2. Plan[t][n] \in KeysOf(t)  BY <2>1, PlanType DEF Prefix
  <2>3. Plan[t][n] \notin Prefix(t, n)
    BY <2>1, PlanType DEF Prefix
  <2>4. Prefix(t, n + 1) = Prefix(t, n) \cup {Plan[t][n]}
    BY <2>1, PlanType DEF Prefix
  <2> QED BY <2>1, <2>2, <2>3, <2>4, <1>2
<1> QED BY <1>1, <1>4, <1>5

(* The acquired keys of a test, and the one it wants. *)
LEMMA AcquiredFacts ==
    ASSUME TypeOK, NEW t \in Tests
    PROVE  /\ Acquired(t) \subseteq KeysOf(t) /\ KeysOf(t) \subseteq Keys
           /\ \A d \in Acquired(t) : DependsOn[d] \subseteq Acquired(t)
           /\ at[t] = Len(Plan[t]) + 1 => Acquired(t) = KeysOf(t)
           /\ at[t] <= Len(Plan[t]) =>
                /\ Wanted(t) \in KeysOf(t) /\ Wanted(t) \notin Acquired(t)
                /\ DependsOn[Wanted(t)] \subseteq Acquired(t)
<1>1. at[t] \in 1..(Len(Plan[t]) + 1)  BY DEF TypeOK
<1>2. Acquired(t) = Prefix(t, at[t]) /\ Wanted(t) = Plan[t][at[t]]
  BY DEF Acquired, Wanted, Prefix
<1> QED BY <1>1, <1>2, PrefixFacts, PlanType

-----------------------------------------------------------------------------
(* References. *)

Ref(t, k) == Holds(t, k) \/ Waits(t, k)

IInv ==
    /\ TypeOK /\ Places /\ Constructions /\ Instances /\ Closers /\ Past
    /\ Reports /\ Owing /\ Leaks /\ Held /\ Alive /\ Ordered /\ Sweeping
    /\ RefcountExact /\ NoInheritedInterrupt /\ DependentsFirst

(* The tests with a reference on a key are finitely many.                  *)
LEMMA ReferencesFacts ==
    ASSUME NEW k \in Keys
    PROVE  /\ References(k) = {t \in Tests : Ref(t, k)}
           /\ IsFiniteSet(References(k)) /\ Cardinality(References(k)) \in Nat
<1>1. References(k) = {t \in Tests : Ref(t, k)}
  BY DEF References, Ref, Holds
<1> QED BY <1>1, PlanAssumption, FS_Subset, FS_CardinalityType

(* So are the tests of a module that have yet to report.                   *)
LEMMA UnreportedFacts ==
    ASSUME NEW m \in Modules
    PROVE  /\ IsFiniteSet(Unreported(m)) /\ Cardinality(Unreported(m)) \in Nat
           /\ Unreported(m) \subseteq Tests
<1>1. Unreported(m) \subseteq Tests  BY DEF Unreported
<1> QED BY <1>1, PlanAssumption, FS_Subset, FS_CardinalityType

(* When a test flushes its module, every test of the module has reported. *)
LEMMA FlushesLast ==
    ASSUME IInv, NEW t \in Tests, Flushes(t)
    PROVE  /\ \A u \in Tests : ModuleOf[u] = ModuleOf[t] => Reported(u)
           /\ pending[ModuleOf[t]] = {}
<1>1. ModuleOf[t] \in Modules  BY PlanAssumption
<1>2. remaining[ModuleOf[t]] = 0  BY DEF IInv, Reports
<1>3. Unreported(ModuleOf[t]) = {}
  BY <1>1, <1>2, UnreportedFacts, FS_EmptySet DEF IInv, Reports
<1> QED BY <1>1, <1>2, <1>3 DEF Unreported, IInv, Reports

(* Who still has to give a reference back is past its call; a module key   *)
(* is owed only by tests that have reported, any other by the test itself. *)
LEMMA OwedFacts ==
    ASSUME IInv, NEW t \in Tests, NEW k \in Keys, Owed(t, k)
    PROVE  /\ k \in Acquired(t)
           /\ pc[t] \in {"releasing", "finished"}
           /\ ScopeOf[k] = "module" => Reported(t)
           /\ ScopeOf[k] # "module" => pc[t] = "releasing" /\ phase[t] # "flush" /\ <<t, k>> \in todo[t]
<1>1. CASE \E u \in Tests : <<t, k>> \in todo[u]
  <2>1. PICK u \in Tests : <<t, k>> \in todo[u]  BY <1>1
  <2>2. k \in Acquired(t) /\ pc[u] = "releasing"
    BY <2>1 DEF IInv, Owing, Places
  <2>3. CASE phase[u] = "flush"
    <3>1. ScopeOf[k] = "module" /\ ModuleOf[t] = ModuleOf[u]
      BY <2>1, <2>3 DEF IInv, Owing
    <3> QED BY <3>1, <2>2, <2>3, FlushesLast DEF Flushes, Reported
  <2>4. CASE phase[u] # "flush"
    BY <2>1, <2>2, <2>4 DEF IInv, Owing
  <2> QED BY <2>3, <2>4
<1>2. CASE \E m \in Modules : <<t, k>> \in pending[m]
  <2>1. PICK m \in Modules : <<t, k>> \in pending[m]  BY <1>2
  <2> QED BY <2>1 DEF IInv, Owing, OfModule, Reported
<1> QED BY <1>1, <1>2 DEF Owed

(* What a reference says of its test. *)
LEMMA HoldsFacts ==
    ASSUME IInv, NEW t \in Tests, NEW k \in Keys, Holds(t, k)
    PROVE  /\ k \in Acquired(t)
           /\ pc[t] \notin {"new", "dropped"}
           /\ InSetup(t) \/ pc[t] = "calling" => Uses(t, k)
<1>1. Uses(t, k) => k \in Acquired(t) /\ pc[t] \notin {"new", "dropped"}
  BY DEF Uses, InSetup
<1>2. Keeps(t, k) => k \in Acquired(t) /\ pc[t] = "releasing"
  BY DEF Keeps, OfModule
<1>3. t \in leaked[k] => k \in Acquired(t) /\ pc[t] \in {"releasing", "finished"}
  BY DEF IInv, Leaks
<1> QED BY <1>1, <1>2, <1>3, OwedFacts DEF Holds, Uses

(* A key that is closing has no reference left. *)
LEMMA ClosingUnheld ==
    ASSUME IInv, NEW t \in Tests, NEW k \in closing[t]
    PROVE  k \in Keys /\ \A u \in Tests : ~Ref(u, k)
<1>1. k \in Keys  BY DEF IInv, TypeOK
<1>2. entry[k] # "absent" /\ refcount[k] = 0  BY DEF IInv, Closers
<1>3. References(k) = {}
  BY <1>1, <1>2, ReferencesFacts, FS_EmptySet DEF IInv, RefcountExact
<1> QED BY <1>1, <1>3, ReferencesFacts

(* While tasks run, what is held is there. *)
LEMMA HeldIsUp ==
    ASSUME IInv, stage = "suite", NEW t \in Tests, NEW k \in Keys, Holds(t, k)
    PROVE  entry[k] = "ready" /\ inst[k] = "up"
<1>1. entry[k] = "ready"  BY DEF IInv, Held
<1>2. \A u \in Tests : k \notin closing[u]  BY ClosingUnheld DEF Ref
<1> QED BY <1>1, <1>2 DEF IInv, Instances

(* A reference is owed in one place. *)
LEMMA OwedOnce ==
    ASSUME IInv, NEW t \in Tests, NEW r \in todo[t]
    PROVE  /\ r[1] \in Tests /\ r[2] \in Keys /\ r = <<r[1], r[2]>>
           /\ Owed(r[1], r[2])
           /\ pc[t] = "releasing"
           /\ \A v \in Tests : r \in todo[v] => v = t
           /\ \A m \in Modules : r \notin pending[m]
<1>1. r[1] \in Tests /\ r[2] \in Keys /\ r = <<r[1], r[2]>>
  BY DEF IInv, TypeOK, Refs
<1>2. Owed(r[1], r[2])  BY <1>1 DEF Owed
<1>3. \A v \in Tests : r \in todo[v] => pc[v] = "releasing"
  BY DEF IInv, Places
<1>4. \A v \in Tests : r \in todo[v] => v = t
  <2>1. ASSUME NEW v \in Tests, r \in todo[v], phase[t] = "flush"
        PROVE  v = t
    <3>1. ScopeOf[r[2]] = "module" /\ ModuleOf[r[1]] = ModuleOf[t]
      BY <2>1 DEF IInv, Owing
    <3>2. phase[v] = "flush" /\ ModuleOf[r[1]] = ModuleOf[v]
      BY <2>1, <3>1 DEF IInv, Owing
    <3> QED BY <1>3, <2>1, <3>1, <3>2 DEF IInv, Reports, Flushes
  <2>2. ASSUME NEW v \in Tests, r \in todo[v], phase[t] # "flush"
        PROVE  v = t
    BY <2>2 DEF IInv, Owing
  <2> QED BY <2>1, <2>2
<1>5. ASSUME NEW m \in Modules, r \in pending[m]
      PROVE  FALSE
  <2>1. ScopeOf[r[2]] = "module" /\ ModuleOf[r[1]] = m
    BY <1>5 DEF IInv, Owing, OfModule
  <2>2. Flushes(t) /\ ModuleOf[t] = m
    BY <1>3, <2>1 DEF IInv, Owing, Flushes
  <2> QED BY <1>5, <2>2, FlushesLast
<1> QED BY <1>1, <1>2, <1>3, <1>4, <1>5

-----------------------------------------------------------------------------
(* What a step leaves as it was. *)

HoldsKept == \A u \in Tests, k \in Keys : Holds(u, k)' <=> Holds(u, k)
AtKept    == \A u \in Tests : Acquired(u)' = Acquired(u) /\ Wanted(u)' = Wanted(u)
AtGrows   == \A u \in Tests : Acquired(u) \subseteq Acquired(u)'
StillPast == \A u \in Tests :
                 /\ pc[u] = "finished" => pc'[u] = "finished"
                 /\ pc[u] = "releasing" => pc'[u] \in {"releasing", "finished"}
                 /\ pc[u] = "dropped" => pc'[u] = "dropped"

(* A step that advances no task leaves what each has acquired.             *)
LEMMA AtFrame ==
    ASSUME UNCHANGED at  PROVE AtKept /\ AtGrows
BY DEF AtKept, AtGrows, Acquired, Wanted

(* Only tasks that have not ended take steps, and only while the suite runs. *)
LEMMA TaskSteps ==
    ASSUME IInv, NEW t \in Tests, pc[t] \notin Ended
    PROVE  stage = "suite"
BY DEF IInv, Places

(* While the suite runs, nothing is said of aclose.                        *)
LEMMA SweepingKept ==
    ASSUME IInv, stage = "suite", stage' = "suite"  PROVE Sweeping'
BY DEF Sweeping

(* Counts stay exact where neither they nor the references change.         *)
LEMMA RefcountKept ==
    ASSUME IInv,
           \A k \in Keys : entry'[k] # "absent" =>
               /\ entry[k] # "absent" /\ refcount'[k] = refcount[k]
               /\ \A u \in Tests : Ref(u, k)' <=> Ref(u, k)
    PROVE  RefcountExact'
<1> SUFFICES ASSUME NEW k \in Keys, entry'[k] # "absent"
             PROVE  refcount'[k] = Cardinality(References(k)')
  BY DEF RefcountExact
<1>1. References(k)' = References(k)
  BY DEF References, Ref, Holds
<1> QED BY <1>1 DEF IInv, RefcountExact

Gains(t, k) == \A u \in Tests, j \in Keys : Ref(u, j)' <=> Ref(u, j) \/ (u = t /\ j = k)
Loses(t, k) == \A u \in Tests, j \in Keys : Ref(u, j)' <=> Ref(u, j) /\ ~(u = t /\ j = k)
NoneEntered == \A j \in Keys : entry'[j] # "absent" => entry[j] # "absent"

(* A test that takes a reference on k, with the count. *)
LEMMA RefcountGains ==
    ASSUME IInv, NEW t \in Tests, NEW k \in Keys, entry[k] # "absent", ~Ref(t, k),
           refcount' = [refcount EXCEPT ![k] = @ + 1],
           NoneEntered, Gains(t, k)
    PROVE  RefcountExact'
<1> SUFFICES ASSUME NEW j \in Keys, entry'[j] # "absent"
             PROVE  refcount'[j] = Cardinality(References(j)')
  BY DEF RefcountExact
<1>1. refcount[j] = Cardinality(References(j))
  BY DEF IInv, RefcountExact, NoneEntered
<1>2. CASE j = k
  <2>1. \A u \in Tests : u \in References(j)' <=> u \in References(j) \/ u = t
    BY <1>2 DEF References, Ref, Holds, Gains, Loses
  <2>2. References(j)' = References(j) \cup {t}  BY <2>1 DEF References
  <2>3. t \notin References(j)  BY <1>2, ReferencesFacts
  <2>4. refcount'[j] = refcount[j] + 1  BY <1>2 DEF IInv, TypeOK
  <2> QED BY <1>1, <2>2, <2>3, <2>4, ReferencesFacts, FS_AddElement
<1>3. CASE j # k
  <2>1. References(j)' = References(j)  BY <1>3 DEF References, Ref, Holds, Gains, Loses
  <2> QED BY <1>1, <1>3, <2>1 DEF IInv, TypeOK
<1> QED BY <1>2, <1>3

(* And one that gives its reference on k back. *)
LEMMA RefcountLoses ==
    ASSUME IInv, NEW t \in Tests, NEW k \in Keys, entry[k] # "absent", Ref(t, k),
           refcount' = [refcount EXCEPT ![k] = @ - 1],
           NoneEntered, Loses(t, k)
    PROVE  RefcountExact' /\ refcount' \in [Keys -> Nat]
<1>1. \A j \in Keys : entry[j] # "absent" => refcount[j] = Cardinality(References(j))
  BY DEF IInv, RefcountExact
<1>2. t \in References(k)  BY ReferencesFacts
<1>3. refcount[k] > 0
  BY <1>1, <1>2, ReferencesFacts, FS_EmptySet DEF IInv, TypeOK
<1>4. refcount' \in [Keys -> Nat]  BY <1>3 DEF IInv, TypeOK
<1>5. ASSUME NEW j \in Keys, entry'[j] # "absent"
      PROVE  refcount'[j] = Cardinality(References(j)')
  <2>1. CASE j = k
    <3>1. \A u \in Tests : u \in References(j)' <=> u \in References(j) /\ u # t
      BY <2>1 DEF References, Ref, Holds, Gains, Loses
    <3>2. References(j)' = References(j) \ {t}  BY <3>1 DEF References
    <3>3. refcount'[j] = refcount[j] - 1  BY <2>1 DEF IInv, TypeOK
    <3> QED BY <1>1, <1>2, <1>5, <2>1, <3>2, <3>3, ReferencesFacts, FS_RemoveElement DEF NoneEntered
  <2>2. CASE j # k
    <3>1. References(j)' = References(j)  BY <2>2 DEF References, Ref, Holds, Gains, Loses
    <3> QED BY <1>1, <1>5, <2>2, <3>1 DEF IInv, TypeOK, NoneEntered
  <2> QED BY <2>1, <2>2
<1> QED BY <1>4, <1>5 DEF RefcountExact

(* What is held stays there, unless nobody holds it.                       *)
LEMMA HeldKept ==
    ASSUME IInv, HoldsKept, UNCHANGED stage,
           \A k \in Keys : entry[k] = "ready" =>
               entry'[k] = "ready" \/ \A u \in Tests : ~Holds(u, k)
    PROVE  Held'
BY DEF IInv, Held, HoldsKept

(* What nobody holds does not live, where no reference goes.               *)
LEMMA AliveKept ==
    ASSUME IInv, HoldsKept, UNCHANGED stage,
           \A k \in Keys : entry'[k] = "ready" /\ inst'[k] = "up" => entry[k] = "ready" /\ inst[k] = "up"
    PROVE  Alive'
BY DEF IInv, Alive, HoldsKept

(* What is owed stays owed.                                                *)
LEMMA OwingKept ==
    ASSUME IInv, UNCHANGED <<todo, phase, pending>>, AtGrows, StillPast
    PROVE  Owing'
<1>1. ASSUME NEW u \in Tests, NEW r \in todo[u]
      PROVE  /\ r[2] \in Acquired(r[1])'
             /\ phase[u] = "flush" => ScopeOf[r[2]] = "module" /\ ModuleOf[r[1]] = ModuleOf[u]
             /\ phase[u] # "flush" => ScopeOf[r[2]] # "module" /\ r[1] = u
  <2>1. r[1] \in Tests  BY <1>1 DEF IInv, TypeOK, Refs
  <2> QED BY <1>1, <2>1 DEF IInv, Owing, AtGrows
<1>2. ASSUME NEW m \in Modules, NEW r \in pending[m]
      PROVE  r[2] \in OfModule(Acquired(r[1])') /\ ModuleOf[r[1]] = m /\ pc'[r[1]] = "finished"
  <2>1. r[1] \in Tests  BY <1>2 DEF IInv, TypeOK, Refs
  <2> QED BY <1>2, <2>1 DEF IInv, Owing, AtGrows, StillPast, OfModule
<1> QED BY <1>1, <1>2 DEF Owing, OfModule

(* The accounts of the modules, where no test reports.                     *)
LEMMA ReportsKept ==
    ASSUME IInv, UNCHANGED <<remaining, pending>>,
           \A u \in Tests : (Reported(u)' <=> Reported(u)) /\ (Flushes(u)' <=> Flushes(u))
    PROVE  Reports'
<1>1. \A m \in Modules : Unreported(m)' = Unreported(m)  BY DEF Unreported
<1> QED BY <1>1 DEF IInv, Reports

(* What an interrupted release dropped stays dropped.                      *)
LEMMA LeaksKept ==
    ASSUME IInv, UNCHANGED leaked, AtGrows, StillPast,
           \A u \in Tests, k \in Keys : u \in leaked[k] /\ Owed(u, k)' => Owed(u, k),
           \A u \in Tests : Reported(u) => Reported(u)'
    PROVE  Leaks'
<1> SUFFICES ASSUME NEW k \in Keys, NEW t \in leaked[k]
             PROVE  /\ ~Owed(t, k)' /\ k \in Acquired(t)' /\ pc'[t] \in {"releasing", "finished"}
                    /\ ScopeOf[k] = "module" => Reported(t)'
  BY DEF Leaks
<1>1. t \in Tests  BY DEF IInv, TypeOK
<1> QED BY <1>1 DEF IInv, Leaks, AtGrows, StillPast

(* The order of entries and references, where neither change.              *)
LEMMA OrderedKept ==
    ASSUME IInv, UNCHANGED <<todo, pending, older, entry, inst>>
    PROVE  Ordered'
BY DEF IInv, Ordered, InOrder, Present

(* And so do the facts about fixtures where fixtures do not change.        *)
LEMMA FixturesKept ==
    ASSUME IInv, UNCHANGED <<inst, leaked>>
    PROVE  DependentsFirst'
BY DEF IInv, DependentsFirst, Gone

(* A broken fixture stays broken, and so does the setup it failed.         *)
LEMMA BlameKept ==
    ASSUME IInv, UNCHANGED blame, \A k \in Keys : inst[k] = "broken" => inst'[k] = "broken"
    PROVE  NoInheritedInterrupt'
BY AcquiredFacts DEF IInv, NoInheritedInterrupt

(* A closed fixture is behind the tests that used it.                      *)
LEMMA PastKept ==
    ASSUME IInv, StillPast,
           \A k \in Keys : inst'[k] \in {"closing", "down"} => inst[k] \in {"closing", "down"}
    PROVE  Past'
BY DEF IInv, Past, StillPast, Ended

(* A closer that runs on keeps its key to itself.                          *)
LEMMA ClosersKept ==
    ASSUME IInv, UNCHANGED closing,
           \A u \in Tests : closing[u] # {} => phase'[u] = phase[u],
           \A u \in Tests : \A k \in closing[u] :
               entry'[k] = entry[k] /\ inst'[k] = inst[k] /\ refcount'[k] = refcount[k]
    PROVE  Closers'
BY DEF IInv, Closers

-----------------------------------------------------------------------------
(* The steps of a task, in the order of Next. *)

(* A step that touches no fixture.                                         *)
LEMMA MovesOn ==
    ASSUME IInv, NEW t \in Tests, Start(t) \/ Retry(t) \/ Call(t)
    PROVE  IInv'
<1> DEFINE p == pc'[t]
<1>1. /\ pc' = [pc EXCEPT ![t] = p]
      /\ UNCHANGED <<store, phase, at, todo, closing, fate, suite, ghost>>
      /\ pc[t] \in {"new", "woken", "setup"} /\ p \in {"dropped", "setup", "calling"}
      /\ p = "dropped" => pc[t] = "new"
      /\ p = "calling" => at[t] = Len(Plan[t]) + 1
  <2>1. at[t] > Len(Plan[t]) => at[t] = Len(Plan[t]) + 1  BY PlanType DEF IInv, TypeOK
  <2> QED BY <2>1 DEF IInv, TypeOK, Start, Retry, Call
<1> HIDE DEF p
<1> USE <1>1 DEF store, suite, ghost, fate
<1>2. AtKept /\ AtGrows  BY AtFrame
<1>3. StillPast /\ stage = "suite"  BY TaskSteps DEF StillPast, IInv, TypeOK, Ended
<1>4. \A u \in Tests : (Reported(u)' <=> Reported(u)) /\ (Flushes(u)' <=> Flushes(u))
  BY DEF IInv, TypeOK, Reported, Flushes
<1>5. HoldsKept
  <2> SUFFICES ASSUME NEW u \in Tests, NEW k \in Keys PROVE Holds(u, k)' <=> Holds(u, k)
    BY DEF HoldsKept
  <2>1. Acquired(t) = {} \/ pc[t] # "new"
    BY DEF IInv, Places, Acquired
  <2>2. Uses(u, k)' <=> Uses(u, k)
    BY <1>2, <2>1 DEF Uses, InSetup, AtKept, IInv, TypeOK
  <2>3. Keeps(u, k)' <=> Keeps(u, k)
    BY <1>2 DEF Keeps, AtKept, OfModule, IInv, TypeOK
  <2>4. Owed(u, k)' <=> Owed(u, k)
    BY DEF Owed
  <2> QED BY <2>2, <2>3, <2>4 DEF Holds
<1>6. \A k \in Keys, u \in Tests : Waits(u, k)' <=> Waits(u, k)
  BY <1>2 DEF Waits, AtKept, IInv, TypeOK
<1>7. TypeOK'  BY DEF IInv, TypeOK, Ended
<1>8. Places'  BY DEF IInv, TypeOK, Ended, Places
<1>9. Constructions'  BY <1>2 DEF IInv, TypeOK, Constructions, SingleFlight, AtKept
<1>10. Instances' /\ Closers'  BY DEF IInv, Instances, Closers
<1>11. Past'  BY DEF IInv, TypeOK, Past, Ended
<1>12. Reports' /\ Owing'  BY <1>2, <1>3, <1>4, ReportsKept, OwingKept
<1>13. Leaks'  BY <1>2, <1>3, <1>4, LeaksKept DEF Owed
<1>14. Held' /\ Alive' /\ RefcountExact'
  BY <1>5, <1>6, HeldKept, AliveKept, RefcountKept DEF HoldsKept, Ref
<1>15. Ordered' /\ DependentsFirst' /\ NoInheritedInterrupt' /\ Sweeping'
  BY <1>3, OrderedKept, FixturesKept, BlameKept, SweepingKept
<1> QED BY <1>7, <1>8, <1>9, <1>10, <1>11, <1>12, <1>13, <1>14, <1>15 DEF IInv

(* A construction starts: nothing was there before, and all it depends on  *)
(* is held by its constructor.                                             *)
LEMMA ConstructStep ==
    ASSUME IInv, NEW t \in Tests, Construct(t)
    PROVE  IInv' /\ inst[Wanted(t)] = "none"
<1>1. PICK k \in KeysOf(t) :
        /\ k = Wanted(t) /\ k \in Keys /\ k \notin Acquired(t)
        /\ DependsOn[k] \subseteq Acquired(t)
  BY AcquiredFacts DEF Construct, IInv
<1>2. /\ pc[t] = "setup" /\ pc' = [pc EXCEPT ![t] = "building"]
      /\ entry[k] = "absent" /\ entry' = [entry EXCEPT ![k] = "building"]
      /\ older' = [older EXCEPT ![k] = Present]
      /\ refcount' = [refcount EXCEPT ![k] = 0]
      /\ inst' = [inst EXCEPT ![k] = "building"]
      /\ UNCHANGED <<phase, at, todo, closing, fate, suite, blame, leaked>>
      /\ at[t] <= Len(Plan[t]) 
  BY <1>1 DEF Construct
<1> USE DEF suite, fate
<1>3. AtKept /\ AtGrows  BY <1>2, AtFrame
<1>4. StillPast /\ stage = "suite" /\ stage' = "suite"
  BY <1>2, TaskSteps DEF StillPast, IInv, TypeOK, Ended
<1>5. inst[k] = "none"
  BY <1>1, <1>2, <1>4 DEF IInv, Instances, Past, Ended
<1>6. \A u \in Tests : (Reported(u)' <=> Reported(u)) /\ (Flushes(u)' <=> Flushes(u))
  BY <1>2 DEF IInv, TypeOK, Reported, Flushes
<1>7. HoldsKept
  <2> SUFFICES ASSUME NEW u \in Tests, NEW j \in Keys PROVE Holds(u, j)' <=> Holds(u, j)
    BY DEF HoldsKept
  <2>1. Uses(u, j)' <=> Uses(u, j)
    BY <1>2, <1>3 DEF Uses, InSetup, AtKept, IInv, TypeOK
  <2>2. Keeps(u, j)' <=> Keeps(u, j)
    BY <1>2, <1>3 DEF Keeps, AtKept, OfModule, IInv, TypeOK
  <2>3. Owed(u, j)' <=> Owed(u, j)
    BY <1>2 DEF Owed
  <2> QED BY <1>2, <2>1, <2>2, <2>3 DEF Holds
<1>8. \A u \in Tests : ~Ref(u, k)
  BY <1>1, <1>2, <1>4 DEF IInv, Held, Constructions, Ref, Waits
<1>9. \A u \in Tests, j \in Keys : Waits(u, j)' <=> Waits(u, j)
  BY <1>2, <1>3 DEF Waits, AtKept, IInv, TypeOK
<1>10. \A d \in Keys : k \in DependsOn[d] => inst[d] = "none" /\ entry[d] = "absent"
  <2>1. \A d \in Keys : k \in DependsOn[d] => inst[d] = "none"
    BY <1>1, <1>5 DEF IInv, Ordered
  <2>2. \A d \in Keys : inst[d] = "none" => entry[d] = "absent"
    BY DEF IInv, TypeOK, Instances
  <2> QED BY <2>1, <2>2
<1>11. \A d \in DependsOn[k] : d \in Keys /\ d # k /\ inst[d] = "up"
  <2>1. \A d \in DependsOn[k] : d \in Keys /\ Uses(t, d)
    BY <1>1, <1>2, PlanAssumption DEF Uses, InSetup
  <2> QED BY <1>1, <1>4, <2>1, HeldIsUp DEF Holds
<1>12. TypeOK'  BY <1>1, <1>2 DEF IInv, TypeOK, Present
<1>13. Places'  BY <1>2, <1>4 DEF IInv, TypeOK, Places
<1>14. Constructions'
  BY <1>1, <1>2, <1>3 DEF IInv, TypeOK, Constructions, SingleFlight, AtKept
<1>15. Instances'  BY <1>1, <1>2, <1>5 DEF IInv, TypeOK, Instances
<1>16. Closers'  BY <1>1, <1>2 DEF IInv, TypeOK, Closers
<1>17. Past'  BY <1>1, <1>2 DEF IInv, TypeOK, Past, Ended
<1>18. Reports' /\ Owing'  BY <1>2, <1>3, <1>4, <1>6, ReportsKept, OwingKept
<1>19. Leaks'  BY <1>2, <1>3, <1>4, <1>6, LeaksKept DEF Owed
<1>20. Held' /\ Alive'
  BY <1>1, <1>2, <1>7, HeldKept, AliveKept DEF IInv, TypeOK
<1>21. RefcountExact'
  <2> SUFFICES ASSUME NEW j \in Keys, entry'[j] # "absent"
               PROVE  refcount'[j] = Cardinality(References(j)')
    BY DEF RefcountExact
  <2>1. References(j)' = References(j)
    BY <1>7, <1>9 DEF References, HoldsKept, Holds
  <2>2. CASE j = k
    <3>1. References(k) = {}  BY <1>1, <1>8, ReferencesFacts
    <3> QED BY <1>1, <1>2, <2>1, <2>2, <3>1, FS_EmptySet DEF IInv, TypeOK
  <2>3. CASE j # k
    BY <1>2, <2>1, <2>3 DEF IInv, TypeOK, RefcountExact
  <2> QED BY <2>2, <2>3
<1>22. Ordered'
  <2>1. (\A u \in Tests : InOrder(todo[u]))' /\ (\A m \in Modules : InOrder(pending[m]))'
    BY <1>2 DEF IInv, Ordered, InOrder
  <2>2. \A d \in Keys : older'[d] \subseteq Present'
    BY <1>1, <1>2 DEF IInv, TypeOK, Ordered, Present
  <2>3. ASSUME NEW d \in Keys, NEW j \in DependsOn[d]
        PROVE  d \notin older'[j] /\ (inst'[d] # "none" => inst'[j] \in {"up", "closing", "down"})
    <3>1. j \in Keys  BY <2>3, PlanAssumption
    <3>2. d \notin older'[j]
      BY <1>1, <1>2, <1>10, <2>3, <3>1 DEF IInv, TypeOK, Ordered, Present
    <3>3. inst'[d] # "none" => inst'[j] \in {"up", "closing", "down"}
      BY <1>1, <1>2, <1>5, <1>11, <2>3, <3>1 DEF IInv, TypeOK, Ordered
    <3> QED BY <3>2, <3>3
  <2> QED BY <2>1, <2>2, <2>3 DEF Ordered
<1>23. DependentsFirst'
  BY <1>1, <1>2, <1>11 DEF IInv, TypeOK, DependentsFirst, Gone
<1>24. NoInheritedInterrupt' /\ Sweeping'
  BY <1>1, <1>2, <1>4, <1>5, BlameKept, SweepingKept DEF IInv, TypeOK
<1> QED BY <1>1, <1>5, <1>12, <1>13, <1>14, <1>15, <1>16, <1>17, <1>18, <1>19, <1>20, <1>21, <1>22, <1>23, <1>24
       DEF IInv

(* A task waits for another's construction, its reference reserved.        *)
LEMMA ParkStep ==
    ASSUME IInv, NEW t \in Tests, Park(t)
    PROVE  IInv'
<1>1. PICK k \in Keys : k = Wanted(t) /\ k \notin Acquired(t)
  BY AcquiredFacts DEF Park, IInv
<1>2. /\ pc[t] = "setup" /\ pc' = [pc EXCEPT ![t] = "parked"]
      /\ entry[k] = "building"
      /\ refcount' = [refcount EXCEPT ![k] = @ + 1]
      /\ UNCHANGED <<entry, older, phase, at, todo, closing, fate, suite, ghost>>
      /\ at[t] <= Len(Plan[t]) 
  BY <1>1 DEF Park
<1> USE DEF suite, fate, ghost
<1>3. AtKept /\ AtGrows  BY <1>2, AtFrame
<1>4. StillPast /\ stage = "suite" /\ stage' = "suite"
  BY <1>2, TaskSteps DEF StillPast, IInv, TypeOK, Ended
<1>5. \A u \in Tests : (Reported(u)' <=> Reported(u)) /\ (Flushes(u)' <=> Flushes(u))
  BY <1>2 DEF IInv, TypeOK, Reported, Flushes
<1>6. HoldsKept
  <2> SUFFICES ASSUME NEW u \in Tests, NEW j \in Keys PROVE Holds(u, j)' <=> Holds(u, j)
    BY DEF HoldsKept
  <2>1. Uses(u, j)' <=> Uses(u, j)
    BY <1>2, <1>3 DEF Uses, InSetup, AtKept, IInv, TypeOK
  <2>2. Keeps(u, j)' <=> Keeps(u, j)
    BY <1>2, <1>3 DEF Keeps, AtKept, OfModule, IInv, TypeOK
  <2>3. Owed(u, j)' <=> Owed(u, j)
    BY <1>2 DEF Owed
  <2> QED BY <1>2, <2>1, <2>2, <2>3 DEF Holds
<1>7. \A u \in Tests, j \in Keys : Waits(u, j)' <=> Waits(u, j) \/ (u = t /\ j = k)
  BY <1>1, <1>2, <1>3 DEF Waits, AtKept, IInv, TypeOK
<1>8. TypeOK'  BY <1>1, <1>2 DEF IInv, TypeOK
<1>9. Places'  BY <1>2, <1>4 DEF IInv, TypeOK, Places
<1>10. Constructions'
  BY <1>1, <1>2, <1>3 DEF IInv, TypeOK, Constructions, SingleFlight, AtKept
<1>11. Instances'  BY <1>2 DEF IInv, Instances
<1>12. Closers'  BY <1>1, <1>2 DEF IInv, TypeOK, Closers
<1>13. Past'  BY <1>2 DEF IInv, TypeOK, Past, Ended
<1>14. Reports' /\ Owing'  BY <1>2, <1>3, <1>4, <1>5, ReportsKept, OwingKept
<1>15. Leaks'  BY <1>2, <1>3, <1>4, <1>5, LeaksKept DEF Owed
<1>16. Held' /\ Alive'
  BY <1>1, <1>2, <1>6, HeldKept, AliveKept
<1>17. RefcountExact'
  <2>1. ~Ref(t, k)  BY <1>1, <1>2, HoldsFacts DEF Ref, Waits
  <2>2. Gains(t, k)
    BY <1>6, <1>7 DEF HoldsKept, Ref, Gains
  <2>3. NoneEntered /\ entry[k] # "absent"  BY <1>2 DEF NoneEntered
  <2> QED BY <1>2, <2>1, <2>2, <2>3, RefcountGains
<1>18. Ordered' /\ DependentsFirst' /\ NoInheritedInterrupt' /\ Sweeping'
  BY <1>2, <1>4, OrderedKept, FixturesKept, BlameKept, SweepingKept
<1> QED BY <1>8, <1>9, <1>10, <1>11, <1>12, <1>13, <1>14, <1>15, <1>16, <1>17, <1>18
       DEF IInv

(* A task that acquires the fixture it wants and goes on with its plan. *)
LEMMA AcquiresNext ==
    ASSUME IInv, NEW t \in Tests, InSetup(t), at[t] <= Len(Plan[t]),
           at' = [at EXCEPT ![t] = @ + 1], pc' = [pc EXCEPT ![t] = "setup"],
           UNCHANGED <<phase, todo, closing, suite, leaked>>
    PROVE  /\ \A u \in Tests, j \in Keys :
                  Holds(u, j)' <=> Holds(u, j) \/ (u = t /\ j = Wanted(t))
           /\ \A u \in Tests, j \in Keys : Waits(u, j)' <=> Waits(u, j) /\ u # t
           /\ \A u \in Tests : u # t => Wanted(u)' = Wanted(u)
           /\ at' \in [Tests -> Nat] /\ \A u \in Tests : at'[u] \in 1..(Len(Plan[u]) + 1)
           /\ stage = "suite" /\ stage' = "suite"
           /\ Places' /\ Reports' /\ Owing' /\ Leaks' /\ Sweeping'
<1> USE DEF suite
<1>1. PICK k \in KeysOf(t) : k = Wanted(t) /\ k \in Keys /\ k \notin Acquired(t)
  BY AcquiredFacts DEF IInv
<1>2. at' \in [Tests -> Nat] /\ \A u \in Tests : at'[u] \in 1..(Len(Plan[u]) + 1)
  BY PlanType DEF IInv, TypeOK
<1>3. at[t] \in 1..(Len(Plan[t]) + 1) /\ at'[t] = at[t] + 1
  BY DEF IInv, TypeOK
<1>4. Acquired(t)' = Acquired(t) \cup {k}
  <2>1. Acquired(t) = Prefix(t, at[t]) /\ Acquired(t)' = Prefix(t, at[t] + 1)
    BY <1>3 DEF Acquired, Prefix
  <2> QED BY <1>1, <1>3, <2>1, PrefixFacts DEF Wanted
<1>5. \A u \in Tests : u # t => Acquired(u)' = Acquired(u) /\ Wanted(u)' = Wanted(u)
  BY DEF Acquired, Wanted, IInv, TypeOK
<1>6. AtGrows  BY <1>4, <1>5 DEF AtGrows
<1>7. StillPast /\ stage = "suite" /\ stage' = "suite"
  BY TaskSteps DEF StillPast, InSetup, IInv, TypeOK, Ended
<1>8. \A u \in Tests : (Reported(u)' <=> Reported(u)) /\ (Flushes(u)' <=> Flushes(u))
  BY DEF IInv, TypeOK, Reported, Flushes, InSetup
<1>9. ASSUME NEW u \in Tests, NEW j \in Keys
      PROVE  /\ Holds(u, j)' <=> Holds(u, j) \/ (u = t /\ j = k)
             /\ Waits(u, j)' <=> Waits(u, j) /\ u # t
  <2>1. Uses(u, j)' <=> Uses(u, j) \/ (u = t /\ j = k)
    BY <1>4, <1>5 DEF Uses, InSetup, IInv, TypeOK
  <2>2. Keeps(u, j)' <=> Keeps(u, j)
    BY <1>5 DEF Keeps, OfModule, InSetup, IInv, TypeOK
  <2>3. Owed(u, j)' <=> Owed(u, j)
    BY DEF Owed
  <2>4. Waits(u, j)' <=> Waits(u, j) /\ u # t
    BY <1>5 DEF Waits, IInv, TypeOK
  <2> QED BY <2>1, <2>2, <2>3, <2>4 DEF Holds
<1>10. Places'
  BY <1>2, <1>7 DEF IInv, TypeOK, Places, InSetup
<1>11. Reports' /\ Owing' /\ Leaks' /\ Sweeping'
  BY <1>6, <1>7, <1>8, ReportsKept, OwingKept, LeaksKept, SweepingKept DEF Owed
<1> QED BY <1>1, <1>2, <1>5, <1>7, <1>9, <1>10, <1>11

(* A construction succeeds: its constructor takes the first reference.     *)
LEMMA BuildEndsStep ==
    ASSUME IInv, NEW t \in Tests, BuildEnds(t)
    PROVE  IInv'
<1>1. PICK k \in KeysOf(t) : k = Wanted(t) /\ k \in Keys /\ k \notin Acquired(t)
  BY AcquiredFacts DEF BuildEnds, IInv, Places
<1>2. /\ pc[t] = "building" /\ pc' = [pc EXCEPT ![t] = "setup"] /\ at' = [at EXCEPT ![t] = @ + 1]
      /\ entry[k] = "building" /\ entry' = [entry EXCEPT ![k] = "ready"]
      /\ inst[k] = "building" /\ inst' = [inst EXCEPT ![k] = "up"]
      /\ refcount' = [refcount EXCEPT ![k] = @ + 1]
      /\ UNCHANGED <<older, phase, todo, closing, fate, suite, blame, leaked>>
      /\ at[t] <= Len(Plan[t]) /\ InSetup(t)
  BY <1>1 DEF BuildEnds, IInv, Constructions, Instances, Places, InSetup
<1> USE DEF suite, fate
<1>3. /\ \A u \in Tests, j \in Keys : Holds(u, j)' <=> Holds(u, j) \/ (u = t /\ j = k)
      /\ \A u \in Tests, j \in Keys : Waits(u, j)' <=> Waits(u, j) /\ u # t
      /\ stage = "suite" /\ stage' = "suite"
      /\ Places' /\ Reports' /\ Owing' /\ Leaks' /\ Sweeping'
  BY <1>1, <1>2, AcquiresNext
<1>at. at' \in [Tests -> Nat] /\ \A u \in Tests : at'[u] \in 1..(Len(Plan[u]) + 1)
  BY <1>1, <1>2, AcquiresNext
<1>wt. \A u \in Tests : u # t => Wanted(u)' = Wanted(u)
  BY <1>1, <1>2, AcquiresNext
<1>4. TypeOK'  BY <1>1, <1>2, <1>at DEF IInv, TypeOK, Ended
<1>5. Constructions'
  <2>1. \A u \in Tests : pc'[u] \in {"building", "parked"} =>
            u # t /\ pc'[u] = pc[u] /\ Wanted(u)' = Wanted(u)
    BY <1>2, <1>wt DEF IInv, TypeOK
  <2>2. \A u \in Tests : pc'[u] = "building" => entry'[Wanted(u)] = "building"
    BY <1>1, <1>2, <2>1 DEF IInv, TypeOK, Constructions, SingleFlight
  <2>3. \A u \in Tests : pc'[u] = "parked" => entry'[Wanted(u)] # "absent"
    BY <1>1, <1>2, <2>1 DEF IInv, TypeOK, Constructions
  <2>4. \A j \in Keys : entry'[j] = "building" => \E u \in Tests : pc'[u] = "building" /\ Wanted(u) = j
    BY <1>1, <1>2, <2>1 DEF IInv, TypeOK, Constructions
  <2> QED BY <2>1, <2>2, <2>3, <2>4 DEF Constructions, SingleFlight, IInv
<1>6. Instances'  BY <1>2 DEF IInv, TypeOK, Instances
<1>7. Closers'  BY <1>2 DEF IInv, TypeOK, Closers
<1>8. Past'  BY <1>2 DEF IInv, TypeOK, Past, Ended
<1>9. Held'
  BY <1>2, <1>3 DEF IInv, TypeOK, Held
<1>10. Alive'
  BY <1>2, <1>3 DEF IInv, TypeOK, Alive
<1>11. RefcountExact'
  <2>1. ~Ref(t, k) /\ ~Waits(t, k)
    BY <1>1, <1>2, HoldsFacts DEF Ref, Waits
  <2>2. Gains(t, k)
    BY <1>2, <1>3 DEF Ref, Waits, Gains
  <2>3. NoneEntered  BY <1>2 DEF IInv, TypeOK, NoneEntered
  <2>4. k \in Keys /\ entry[k] # "absent" /\ refcount' = [refcount EXCEPT ![k] = @ + 1]
    BY <1>1, <1>2
  <2> QED BY <2>1, <2>2, <2>3, <2>4, RefcountGains
<1>12. Ordered'
  BY <1>2 DEF IInv, TypeOK, Ordered, InOrder, Present
<1>13. DependentsFirst'  BY <1>1, <1>2 DEF IInv, TypeOK, DependentsFirst, Gone
<1>14. NoInheritedInterrupt'  BY <1>2, BlameKept DEF IInv, TypeOK
<1> QED BY <1>3, <1>4, <1>5, <1>6, <1>7, <1>8, <1>9, <1>10, <1>11, <1>12, <1>13, <1>14
       DEF IInv

(* A fixture that is there is shared.                                      *)
LEMMA ReuseReady ==
    ASSUME IInv, NEW t \in Tests, Reuse(t), entry[Wanted(t)] = "ready"
    PROVE  IInv'
<1>1. PICK k \in KeysOf(t) : k = Wanted(t) /\ k \in Keys /\ k \notin Acquired(t)
  BY AcquiredFacts DEF Reuse, IInv
<1>2. /\ pc[t] = "setup" /\ pc' = [pc EXCEPT ![t] = "setup"] /\ at' = [at EXCEPT ![t] = @ + 1]
      /\ entry[k] = "ready" /\ refcount' = [refcount EXCEPT ![k] = @ + 1]
      /\ UNCHANGED <<entry, older, phase, todo, closing, fate, suite, inst, blame, leaked>>
      /\ at[t] <= Len(Plan[t]) /\ InSetup(t)
  BY <1>1 DEF Reuse, InSetup, IInv, TypeOK
<1> USE DEF suite, fate
<1>3. /\ \A u \in Tests, j \in Keys : Holds(u, j)' <=> Holds(u, j) \/ (u = t /\ j = k)
      /\ \A u \in Tests, j \in Keys : Waits(u, j)' <=> Waits(u, j) /\ u # t
      /\ stage = "suite" /\ stage' = "suite"
      /\ Places' /\ Reports' /\ Owing' /\ Leaks' /\ Sweeping'
  BY <1>1, <1>2, AcquiresNext
<1>at. at' \in [Tests -> Nat] /\ \A u \in Tests : at'[u] \in 1..(Len(Plan[u]) + 1)
  BY <1>1, <1>2, AcquiresNext
<1>wt. \A u \in Tests : u # t => Wanted(u)' = Wanted(u)
  BY <1>1, <1>2, AcquiresNext
<1>4. TypeOK'  BY <1>1, <1>2, <1>at DEF IInv, TypeOK, Ended
<1>5. Constructions'
  <2>1. \A u \in Tests : pc'[u] \in {"building", "parked"} =>
            u # t /\ pc'[u] = pc[u] /\ Wanted(u)' = Wanted(u)
    BY <1>2, <1>wt DEF IInv, TypeOK
  <2>2. \A u \in Tests : pc'[u] = "building" => entry'[Wanted(u)] = "building"
    BY <1>1, <1>2, <2>1 DEF IInv, TypeOK, Constructions, SingleFlight
  <2>3. \A u \in Tests : pc'[u] = "parked" => entry'[Wanted(u)] # "absent"
    BY <1>1, <1>2, <2>1 DEF IInv, TypeOK, Constructions
  <2>4. \A j \in Keys : entry'[j] = "building" => \E u \in Tests : pc'[u] = "building" /\ Wanted(u) = j
    BY <1>1, <1>2, <2>1 DEF IInv, TypeOK, Constructions
  <2> QED BY <2>1, <2>2, <2>3, <2>4 DEF Constructions, SingleFlight, IInv
<1>6. Instances'  BY <1>2 DEF IInv, Instances
<1>7. \A u \in Tests : k \notin closing[u]
  <2>1. inst[k] \notin {"closing", "down"}
    BY <1>1, <1>2 DEF IInv, Past, Ended
  <2> QED BY <2>1 DEF IInv, Closers
<1>8. Closers'  BY <1>2, <1>7 DEF IInv, TypeOK, Closers
<1>9. Past'  BY <1>2 DEF IInv, TypeOK, Past, Ended
<1>10. Held' /\ Alive'
  BY <1>2, <1>3 DEF IInv, Held, Alive
<1>11. RefcountExact'
  <2>1. ~Ref(t, k) /\ \A j \in Keys : ~Waits(t, j)
    BY <1>1, <1>2, HoldsFacts DEF Ref, Waits
  <2>2. Gains(t, k)
    BY <1>3, <2>1 DEF Ref, Gains
  <2>3. entry[k] # "absent" /\ NoneEntered  BY <1>2 DEF NoneEntered
  <2> QED BY <1>1, <1>2, <2>1, <2>2, <2>3, RefcountGains
<1>12. Ordered' /\ DependentsFirst' /\ NoInheritedInterrupt'
  BY <1>2, OrderedKept, FixturesKept, BlameKept
<1> QED BY <1>3, <1>4, <1>5, <1>6, <1>8, <1>9, <1>10, <1>11, <1>12 DEF IInv

(* A parked task finds it built: the reserved reference becomes its own.   *)
LEMMA UnparkReady ==
    ASSUME IInv, NEW t \in Tests, Unpark(t), entry[Wanted(t)] = "ready"
    PROVE  IInv'
<1>1. PICK k \in KeysOf(t) : k = Wanted(t) /\ k \in Keys /\ k \notin Acquired(t)
  BY AcquiredFacts DEF Unpark, IInv, Places
<1>2. /\ pc[t] = "parked" /\ pc' = [pc EXCEPT ![t] = "setup"] /\ at' = [at EXCEPT ![t] = @ + 1]
      /\ entry[k] = "ready"
      /\ UNCHANGED <<entry, older, refcount, phase, todo, closing, fate, suite, inst, blame, leaked>>
      /\ at[t] <= Len(Plan[t]) /\ InSetup(t)
  BY <1>1 DEF Unpark, InSetup, IInv, Places
<1> USE DEF suite, fate
<1>3. /\ \A u \in Tests, j \in Keys : Holds(u, j)' <=> Holds(u, j) \/ (u = t /\ j = k)
      /\ \A u \in Tests, j \in Keys : Waits(u, j)' <=> Waits(u, j) /\ u # t
      /\ stage = "suite" /\ stage' = "suite"
      /\ Places' /\ Reports' /\ Owing' /\ Leaks' /\ Sweeping'
  BY <1>1, <1>2, AcquiresNext
<1>at. at' \in [Tests -> Nat] /\ \A u \in Tests : at'[u] \in 1..(Len(Plan[u]) + 1)
  BY <1>1, <1>2, AcquiresNext
<1>wt. \A u \in Tests : u # t => Wanted(u)' = Wanted(u)
  BY <1>1, <1>2, AcquiresNext
<1>4. TypeOK'  BY <1>1, <1>2, <1>at DEF IInv, TypeOK, Ended
<1>5. Constructions'
  <2>1. \A u \in Tests : pc'[u] \in {"building", "parked"} =>
            u # t /\ pc'[u] = pc[u] /\ Wanted(u)' = Wanted(u)
    BY <1>2, <1>wt DEF IInv, TypeOK
  <2>2. \A u \in Tests : pc'[u] = "building" => entry'[Wanted(u)] = "building"
    BY <1>1, <1>2, <2>1 DEF IInv, TypeOK, Constructions, SingleFlight
  <2>3. \A u \in Tests : pc'[u] = "parked" => entry'[Wanted(u)] # "absent"
    BY <1>1, <1>2, <2>1 DEF IInv, TypeOK, Constructions
  <2>4. \A j \in Keys : entry'[j] = "building" => \E u \in Tests : pc'[u] = "building" /\ Wanted(u) = j
    BY <1>1, <1>2, <2>1 DEF IInv, TypeOK, Constructions
  <2> QED BY <2>1, <2>2, <2>3, <2>4 DEF Constructions, SingleFlight, IInv
<1>6. Instances' /\ Closers'  BY <1>2 DEF IInv, Instances, Closers
<1>7. Past'  BY <1>2 DEF IInv, TypeOK, Past, Ended
<1>8. Held' /\ Alive'
  BY <1>2, <1>3 DEF IInv, Held, Alive
<1>9. RefcountExact'
  <2>1. \A j \in Keys : Waits(t, j) <=> j = k
    BY <1>1, <1>2 DEF Waits
  <2>2. \A u \in Tests, j \in Keys : Ref(u, j)' <=> Ref(u, j)
    BY <1>3, <2>1 DEF Ref
  <2> QED BY <1>2, <2>2, RefcountKept
<1>10. Ordered' /\ DependentsFirst' /\ NoInheritedInterrupt'
  BY <1>2, OrderedKept, FixturesKept, BlameKept
<1> QED BY <1>3, <1>4, <1>5, <1>6, <1>7, <1>8, <1>9, <1>10 DEF IInv

(* A task leaves its setup, or its call, and starts to release what is not *)
(* the module's.                                                           *)
LEMMA BeginsRelease ==
    ASSUME IInv, NEW t \in Tests, InSetup(t) \/ pc[t] = "calling",
           NEW ph \in {"unwind", "teardown"},
           phase' = [phase EXCEPT ![t] = ph], pc'[t] = "releasing",
           todo' = [todo EXCEPT ![t] = {t} \X NotModule(Acquired(t))],
           \A u \in Tests \ {t} : pc'[u] = pc[u] \/ (pc[u] = "parked" /\ pc'[u] = "woken"),
           UNCHANGED <<at, closing, suite, leaked>>
    PROVE  /\ HoldsKept /\ AtKept /\ StillPast /\ stage = "suite" /\ stage' = "suite"
           /\ todo' \in [Tests -> SUBSET Refs] /\ phase' \in [Tests -> {"none", "unwind", "teardown", "flush"}]
           /\ Places' /\ Reports' /\ Owing' /\ Leaks' /\ Sweeping'
           /\ \A u \in Tests : closing[u] # {} => phase'[u] = phase[u]
           /\ (\A u \in Tests : InOrder(todo[u]))' /\ (\A m \in Modules : InOrder(pending[m]))'
<1> USE DEF suite
<1>1. AtKept /\ AtGrows  BY AtFrame
<1>2. pc[t] \notin {"releasing", "finished", "dropped"}  BY DEF InSetup
<1>3. stage = "suite" /\ stage' = "suite"  BY <1>2, TaskSteps DEF Ended
<1>4. todo[t] = {} /\ closing[t] = {}  BY <1>2 DEF IInv, Places
<1>5. StillPast  BY <1>2 DEF StillPast
<1>6. Acquired(t) \subseteq KeysOf(t) /\ Acquired(t) \subseteq Keys
      /\ \A d \in Acquired(t) : DependsOn[d] \subseteq Acquired(t)
  BY AcquiredFacts DEF IInv
<1>7. \A u \in Tests : /\ todo'[u] = IF u = t THEN {t} \X NotModule(Acquired(t)) ELSE todo[u]
                       /\ phase'[u] = IF u = t THEN ph ELSE phase[u]
  BY DEF IInv, TypeOK
<1>8. todo' \in [Tests -> SUBSET Refs] /\ phase' \in [Tests -> {"none", "unwind", "teardown", "flush"}]
  BY <1>6 DEF IInv, TypeOK, Refs, NotModule
<1>9. \A u \in Tests : (Reported(u)' <=> Reported(u)) /\ (Flushes(u)' <=> Flushes(u))
  BY <1>2, <1>7 DEF Reported, Flushes
<1>10. ASSUME NEW u \in Tests, NEW k \in Keys
       PROVE  Holds(u, k)' <=> Holds(u, k)
  <2>1. CASE u # t
    <3>1. Uses(u, k)' <=> Uses(u, k)
      BY <1>1, <2>1 DEF Uses, InSetup, AtKept
    <3>2. Keeps(u, k)' <=> Keeps(u, k)
      BY <1>1, <1>7, <2>1 DEF Keeps, AtKept, OfModule
    <3>3. Owed(u, k)' <=> Owed(u, k)
      BY <1>4, <1>7, <2>1 DEF Owed
    <3> QED BY <3>1, <3>2, <3>3 DEF Holds
  <2>2. CASE u = t /\ k \in Acquired(t)
    <3>1. Uses(t, k)  BY <2>2 DEF Uses
    <3>2. ScopeOf[k] = "module" => Keeps(t, k)'
      BY <1>1, <1>7, <2>2 DEF Keeps, AtKept, OfModule
    <3>3. ScopeOf[k] # "module" => <<t, k>> \in todo'[t]
      BY <1>7, <2>2 DEF NotModule
    <3>4. Holds(t, k)'  BY <3>2, <3>3 DEF Holds, Owed
    <3> QED BY <2>2, <3>1, <3>4 DEF Holds
  <2>3. CASE u = t /\ k \notin Acquired(t)
    <3>1. ~Holds(t, k)  BY <2>3, HoldsFacts
    <3>2. ~Uses(t, k)' /\ ~Keeps(t, k)'
      BY <1>1, <2>3 DEF Uses, Keeps, AtKept, OfModule, InSetup
    <3>3. <<t, k>> \notin todo'[t]  BY <1>7, <2>3 DEF NotModule
    <3>4. ~Owed(t, k)'
      BY <1>7, <3>1, <3>3 DEF Owed, Holds
    <3> QED BY <2>3, <3>1, <3>2, <3>4 DEF Holds
  <2> QED BY <2>1, <2>2, <2>3
<1>11. Places'
  BY <1>1, <1>2, <1>3, <1>4, <1>7 DEF IInv, Places
<1>12. Reports' /\ Sweeping'  BY <1>3, <1>9, ReportsKept, SweepingKept
<1>13. Owing'
  <2>1. ASSUME NEW u \in Tests, NEW r \in todo'[u]
        PROVE  /\ r[2] \in Acquired(r[1])'
               /\ phase'[u] = "flush" => ScopeOf[r[2]] = "module" /\ ModuleOf[r[1]] = ModuleOf[u]
               /\ phase'[u] # "flush" => ScopeOf[r[2]] # "module" /\ r[1] = u
    <3>1. r[1] \in Tests  BY <1>8, <2>1 DEF Refs
    <3>2. CASE u = t
      <4>1. r[1] = t /\ r[2] \in NotModule(Acquired(t)) /\ phase'[u] # "flush"
        BY <1>7, <2>1, <3>2
      <4> QED BY <1>1, <3>2, <4>1 DEF AtKept, NotModule
    <3>3. CASE u # t
      <4>1. r \in todo[u] /\ phase'[u] = phase[u]  BY <1>7, <2>1, <3>3
      <4> QED BY <1>1, <3>1, <4>1 DEF IInv, Owing, AtKept
    <3> QED BY <3>2, <3>3
  <2>2. ASSUME NEW m \in Modules, NEW r \in pending[m]
        PROVE  r[2] \in OfModule(Acquired(r[1])') /\ ModuleOf[r[1]] = m /\ pc'[r[1]] = "finished"
    <3>1. r[1] \in Tests  BY <2>2 DEF IInv, TypeOK, Refs
    <3> QED BY <1>1, <1>5, <2>2, <3>1 DEF IInv, Owing, AtKept, StillPast
  <2> QED BY <2>1, <2>2 DEF Owing, OfModule
<1>14. Leaks'
  <2>1. ASSUME NEW u \in Tests, NEW k \in Keys, u \in leaked[k], Owed(u, k)'
        PROVE  Owed(u, k)
    <3>1. u # t  BY <1>2, <2>1 DEF IInv, Leaks
    <3> QED BY <1>7, <2>1, <3>1 DEF Owed
  <2> QED BY <1>1, <1>5, <1>9, <2>1, LeaksKept
<1>15. (\A u \in Tests : InOrder(todo[u]))' /\ (\A m \in Modules : InOrder(pending[m]))'
  <2>1. InOrder({t} \X NotModule(Acquired(t)))
    BY <1>6, PlanAssumption DEF InOrder, NotModule
  <2>2. \A u \in Tests : InOrder(todo'[u])
    BY <1>7, <2>1 DEF IInv, Ordered
  <2>3. \A m \in Modules : InOrder(pending[m])  BY DEF IInv, Ordered
  <2> QED BY <2>2, <2>3 DEF InOrder
<1>16. \A u \in Tests : closing[u] # {} => phase'[u] = phase[u]
  BY <1>4, <1>7
<1>17. HoldsKept  BY <1>10 DEF HoldsKept
<1> QED BY <1>1, <1>3, <1>5, <1>8, <1>11, <1>12, <1>13, <1>14, <1>15, <1>16, <1>17

(* The end of the call, however it ends. *)
LEMMA CallOver ==
    ASSUME IInv, NEW t \in Tests, CallEnds(t) \/ InterruptCall(t)
    PROVE  IInv'
<1>1. Acquired(t) = KeysOf(t) /\ pc[t] = "calling"
  BY AcquiredFacts DEF IInv, Places, CallEnds, InterruptCall
<1>2. /\ pc' = [pc EXCEPT ![t] = "releasing"]
      /\ phase' = [phase EXCEPT ![t] = "teardown"]
      /\ todo' = [todo EXCEPT ![t] = {t} \X NotModule(Acquired(t))]
      /\ UNCHANGED <<store, at, closing, suite, ghost>>
  BY <1>1 DEF CallEnds, InterruptCall, BeginRelease
<1>3. /\ timedOut' \in [Tests -> BOOLEAN] /\ cancelDue' \in [Tests -> BOOLEAN]
      /\ cancelled' \in [Tests -> BOOLEAN] /\ stopping' = stopping
  BY DEF CallEnds, InterruptCall, Interrupt, DeadlineFires, StopLands, fate, IInv, TypeOK
<1>4. pc'[t] = "releasing" /\ \A u \in Tests \ {t} : pc'[u] = pc[u]
  BY <1>2 DEF IInv, TypeOK
<1> USE DEF suite, store, ghost
<1>5. /\ HoldsKept /\ AtKept /\ StillPast /\ stage = "suite" /\ stage' = "suite"
      /\ todo' \in [Tests -> SUBSET Refs]
      /\ Places' /\ Reports' /\ Owing' /\ Leaks' /\ Sweeping'
      /\ \A u \in Tests : closing[u] # {} => phase'[u] = phase[u]
      /\ (\A u \in Tests : InOrder(todo[u]))' /\ (\A m \in Modules : InOrder(pending[m]))'
  BY <1>1, <1>2, <1>4, BeginsRelease
<1>6. TypeOK'  BY <1>2, <1>3, <1>5 DEF IInv, TypeOK
<1>7. Constructions'
  BY <1>1, <1>2, <1>4, <1>5 DEF IInv, Constructions, SingleFlight, AtKept
<1>8. Instances' /\ Closers'  BY <1>2, <1>5, ClosersKept DEF IInv, Instances
<1>9. Past'  BY <1>2, <1>5, PastKept
<1>10. Held' /\ Alive'  BY <1>2, <1>5, HeldKept, AliveKept
<1>11. RefcountExact'
  <2>1. \A u \in Tests, k \in Keys : Waits(u, k)' <=> Waits(u, k)
    BY <1>1, <1>4, <1>5 DEF Waits, AtKept
  <2> QED BY <1>2, <1>5, <2>1, RefcountKept DEF HoldsKept, Ref
<1>12. Ordered'  BY <1>2, <1>5 DEF IInv, Ordered, Present
<1>13. DependentsFirst' /\ NoInheritedInterrupt'
  BY <1>2, FixturesKept, BlameKept
<1> QED BY <1>5, <1>6, <1>7, <1>8, <1>9, <1>10, <1>11, <1>12, <1>13 DEF IInv

(* A construction that fails. *)
LEMMA BuildFailsStep ==
    ASSUME IInv, NEW t \in Tests, BuildFails(t)
    PROVE  IInv'
<1>1. PICK k \in KeysOf(t) : k = Wanted(t) /\ k \in Keys
  BY AcquiredFacts DEF BuildFails, IInv, Places
<1>2. /\ pc[t] = "building" /\ pc' = [pc EXCEPT ![t] = "releasing"]
      /\ phase' = [phase EXCEPT ![t] = "unwind"]
      /\ todo' = [todo EXCEPT ![t] = {t} \X NotModule(Acquired(t))]
      /\ entry[k] = "building" /\ entry' = [entry EXCEPT ![k] = "failed"]
      /\ inst[k] = "building" /\ inst' = [inst EXCEPT ![k] = "broken"]
      /\ blame' = [blame EXCEPT ![t] = "fixture"]
      /\ UNCHANGED <<older, refcount, at, closing, fate, suite, leaked>>
  BY <1>1 DEF BuildFails, Unwind, BeginRelease, IInv, Constructions, Instances
<1>3. pc'[t] = "releasing" /\ \A u \in Tests \ {t} : pc'[u] = pc[u]
  BY <1>2 DEF IInv, TypeOK
<1> USE DEF suite, fate
<1>4. /\ HoldsKept /\ AtKept /\ StillPast /\ stage = "suite" /\ stage' = "suite"
      /\ todo' \in [Tests -> SUBSET Refs]
      /\ Places' /\ Reports' /\ Owing' /\ Leaks' /\ Sweeping'
      /\ \A u \in Tests : closing[u] # {} => phase'[u] = phase[u]
      /\ (\A u \in Tests : InOrder(todo[u]))' /\ (\A m \in Modules : InOrder(pending[m]))'
  BY <1>2, <1>3, BeginsRelease DEF InSetup
<1>5. /\ entry'[k] = "failed" /\ inst'[k] = "broken"
      /\ \A j \in Keys \ {k} : entry'[j] = entry[j] /\ inst'[j] = inst[j]
  BY <1>1, <1>2 DEF IInv, TypeOK
<1>6. TypeOK'  BY <1>2, <1>4 DEF IInv, TypeOK
<1>7. Constructions'
  BY <1>1, <1>2, <1>3, <1>4, <1>5 DEF IInv, Constructions, SingleFlight, AtKept
<1>8. Instances'  BY <1>2, <1>4, <1>5 DEF IInv, Instances
<1>9. Closers'
  <2>1. \A u \in Tests : \A j \in closing[u] : j \in Keys /\ j # k
    BY <1>2 DEF IInv, TypeOK, Closers
  <2> QED BY <1>2, <1>4, <1>5, <2>1, ClosersKept
<1>10. Past'  BY <1>1, <1>2, <1>4, <1>5, PastKept
<1>11. Held' /\ Alive'  BY <1>2, <1>4, <1>5, HeldKept, AliveKept
<1>12. RefcountExact'
  <2>1. \A u \in Tests, j \in Keys : Waits(u, j)' <=> Waits(u, j)
    BY <1>2, <1>3, <1>4 DEF Waits, AtKept
  <2>2. \A j \in Keys : entry'[j] # "absent" => entry[j] # "absent"
    BY <1>2, <1>5
  <2> QED BY <1>2, <1>4, <2>1, <2>2, RefcountKept DEF HoldsKept, Ref
<1>13. Ordered'
  <2>1. Present' = Present  BY <1>1, <1>2, <1>5 DEF Present
  <2>2. \A d \in Keys : (inst'[d] # "none" <=> inst[d] # "none")
                        /\ (inst[d] \in {"up", "closing", "down"} => inst'[d] = inst[d])
    BY <1>2, <1>5
  <2> QED BY <1>2, <1>4, <2>1, <2>2, PlanAssumption DEF IInv, Ordered
<1>14. DependentsFirst'
  BY <1>2, <1>5, PlanAssumption DEF IInv, DependentsFirst, Gone
<1>15. NoInheritedInterrupt'
  BY <1>1, <1>2, <1>5, AcquiredFacts DEF IInv, TypeOK, NoInheritedInterrupt
<1> QED BY <1>4, <1>6, <1>7, <1>8, <1>9, <1>10, <1>11, <1>12, <1>13, <1>14, <1>15 DEF IInv

(* A fixture that failed fails the next setup too.                         *)
LEMMA ReuseFailed ==
    ASSUME IInv, NEW t \in Tests, Reuse(t), entry[Wanted(t)] # "ready"
    PROVE  IInv'
<1>1. PICK k \in KeysOf(t) : k = Wanted(t) /\ k \in Keys
  BY AcquiredFacts DEF Reuse, IInv
<1>2. /\ pc[t] = "setup" /\ pc' = [pc EXCEPT ![t] = "releasing"]
      /\ phase' = [phase EXCEPT ![t] = "unwind"]
      /\ todo' = [todo EXCEPT ![t] = {t} \X NotModule(Acquired(t))]
      /\ entry[k] = "failed" /\ inst[k] = "broken"
      /\ blame' = [blame EXCEPT ![t] = "fixture"]
      /\ UNCHANGED <<entry, older, refcount, at, closing, fate, suite, inst, leaked>>
  BY <1>1 DEF Reuse, Unwind, BeginRelease, IInv, Instances
<1>3. pc'[t] = "releasing" /\ \A u \in Tests \ {t} : pc'[u] = pc[u]
  BY <1>2 DEF IInv, TypeOK
<1> USE DEF suite, fate
<1>4. /\ HoldsKept /\ AtKept /\ StillPast /\ stage = "suite" /\ stage' = "suite"
      /\ todo' \in [Tests -> SUBSET Refs]
      /\ Places' /\ Reports' /\ Owing' /\ Leaks' /\ Sweeping'
      /\ \A u \in Tests : closing[u] # {} => phase'[u] = phase[u]
      /\ (\A u \in Tests : InOrder(todo[u]))' /\ (\A m \in Modules : InOrder(pending[m]))'
  BY <1>2, <1>3, BeginsRelease DEF InSetup
<1>5. TypeOK'  BY <1>2, <1>4 DEF IInv, TypeOK
<1>6. Constructions'
  BY <1>2, <1>3, <1>4 DEF IInv, Constructions, SingleFlight, AtKept
<1>7. Instances' /\ Closers' /\ Past'
  BY <1>2, <1>4, ClosersKept, PastKept DEF IInv, Instances
<1>8. Held' /\ Alive'  BY <1>2, <1>4, HeldKept, AliveKept
<1>9. RefcountExact'
  <2>1. \A u \in Tests, j \in Keys : Waits(u, j)' <=> Waits(u, j)
    BY <1>2, <1>3, <1>4 DEF Waits, AtKept
  <2> QED BY <1>2, <1>4, <2>1, RefcountKept DEF HoldsKept, Ref
<1>10. Ordered'  BY <1>2, <1>4 DEF IInv, Ordered, Present
<1>11. DependentsFirst'  BY <1>2, FixturesKept
<1>12. NoInheritedInterrupt'
  BY <1>1, <1>2 DEF IInv, TypeOK, NoInheritedInterrupt
<1> QED BY <1>4, <1>5, <1>6, <1>7, <1>8, <1>9, <1>10, <1>11, <1>12 DEF IInv

(* A wait that ends badly: the fixture failed, or the task is interrupted. *)
LEMMA WaitOver ==
    ASSUME IInv, NEW t \in Tests,
           InterruptWait(t) \/ (Unpark(t) /\ entry[Wanted(t)] # "ready")
    PROVE  IInv'
<1>1. PICK k \in KeysOf(t) : k = Wanted(t) /\ k \in Keys /\ k \notin Acquired(t)
  BY AcquiredFacts DEF InterruptWait, Unpark, IInv, Places
<1>2. /\ pc[t] \in {"parked", "woken"} /\ pc' = [pc EXCEPT ![t] = "releasing"]
      /\ phase' = [phase EXCEPT ![t] = "unwind"]
      /\ todo' = [todo EXCEPT ![t] = {t} \X NotModule(Acquired(t))]
      /\ UNCHANGED <<entry, older, at, closing, suite, inst, leaked>>
      /\ refcount' = [refcount EXCEPT ![k] = IF pc[t] = "parked" THEN @ - 1 ELSE @]
  BY <1>1 DEF InterruptWait, Unpark, Unwind, BeginRelease
<1>3. pc'[t] = "releasing" /\ \A u \in Tests \ {t} : pc'[u] = pc[u]
  BY <1>2 DEF IInv, TypeOK
<1>4. /\ timedOut' \in [Tests -> BOOLEAN] /\ cancelDue' \in [Tests -> BOOLEAN]
      /\ cancelled' \in [Tests -> BOOLEAN] /\ stopping' = stopping
  BY DEF InterruptWait, Unpark, Interrupt, DeadlineFires, StopLands, fate, IInv, TypeOK
<1> USE DEF suite, fate
<1>5. /\ HoldsKept /\ AtKept /\ StillPast /\ stage = "suite" /\ stage' = "suite"
      /\ todo' \in [Tests -> SUBSET Refs]
      /\ Places' /\ Reports' /\ Owing' /\ Leaks' /\ Sweeping'
      /\ \A u \in Tests : closing[u] # {} => phase'[u] = phase[u]
      /\ (\A u \in Tests : InOrder(todo[u]))' /\ (\A m \in Modules : InOrder(pending[m]))'
  BY <1>2, <1>3, BeginsRelease DEF InSetup
<1>6. \/ blame' = [blame EXCEPT ![t] = "interrupt"]
      \/ blame' = [blame EXCEPT ![t] = "fixture"] /\ entry[k] = "failed" /\ inst[k] = "broken"
  BY <1>1 DEF InterruptWait, Unpark, Unwind, IInv, Instances
<1>7. \A u \in Tests, j \in Keys : Waits(u, j)' <=> Waits(u, j) /\ u # t
  BY <1>2, <1>3, <1>5 DEF Waits, AtKept
<1>8. ~Holds(t, k)  BY <1>1, HoldsFacts
<1>9. RefcountExact' /\ refcount' \in [Keys -> Nat]
  <2>1. CASE pc[t] = "parked"
    <3>1. Ref(t, k) /\ entry[k] # "absent" /\ \A j \in Keys : Waits(t, j) <=> j = k
      BY <1>1, <2>1 DEF Ref, Waits, IInv, Constructions
    <3>2. Loses(t, k)
      BY <1>5, <1>7, <1>8, <3>1 DEF Ref, HoldsKept, Loses
    <3>3. /\ refcount' = [refcount EXCEPT ![k] = @ - 1] /\ k \in Keys
          /\ NoneEntered
      BY <1>1, <1>2, <2>1 DEF NoneEntered
    <3> QED BY <3>1, <3>2, <3>3, RefcountLoses
  <2>2. CASE pc[t] # "parked"
    <3>1. \A u \in Tests, j \in Keys : Ref(u, j)' <=> Ref(u, j)
      BY <1>5, <1>7, <2>2 DEF Ref, HoldsKept, Waits
    <3>2. refcount' = refcount  BY <1>2, <2>2 DEF IInv, TypeOK
    <3> QED BY <1>2, <3>1, <3>2, RefcountKept DEF IInv, TypeOK
  <2> QED BY <2>1, <2>2
<1>10. TypeOK'  BY <1>2, <1>4, <1>5, <1>6, <1>9 DEF IInv, TypeOK
<1>11. Constructions'
  BY <1>2, <1>3, <1>5 DEF IInv, Constructions, SingleFlight, AtKept
<1>12. Instances' /\ Past'
  BY <1>2, <1>5, PastKept DEF IInv, Instances
<1>13. Closers'
  <2>1. inst[k] \notin {"closing", "down"}
    BY <1>1, <1>2 DEF IInv, Past, Ended
  <2>2. \A u \in Tests : \A j \in closing[u] : j \in Keys /\ j # k
    BY <2>1 DEF IInv, TypeOK, Closers
  <2>3. \A j \in Keys : j # k => refcount'[j] = refcount[j]
    BY <1>2 DEF IInv, TypeOK
  <2> QED BY <1>2, <1>5, <2>2, <2>3, ClosersKept
<1>14. Held' /\ Alive'  BY <1>2, <1>5, HeldKept, AliveKept
<1>15. Ordered'  BY <1>2, <1>5 DEF IInv, Ordered, Present
<1>16. DependentsFirst'  BY <1>2, FixturesKept
<1>17. NoInheritedInterrupt'
  BY <1>1, <1>2, <1>6 DEF IInv, TypeOK, NoInheritedInterrupt
<1> QED BY <1>5, <1>9, <1>10, <1>11, <1>12, <1>13, <1>14, <1>15, <1>16, <1>17 DEF IInv

(* An interrupt in the middle of a construction: the entry goes. *)
LEMMA InterruptBuildStep ==
    ASSUME IInv, NEW t \in Tests, InterruptBuild(t)
    PROVE  IInv'
<1>1. PICK k \in KeysOf(t) : k = Wanted(t) /\ k \in Keys
  BY AcquiredFacts DEF InterruptBuild, IInv, Places
<1>2. /\ pc[t] = "building"
      /\ phase' = [phase EXCEPT ![t] = "unwind"]
      /\ todo' = [todo EXCEPT ![t] = {t} \X NotModule(Acquired(t))]
      /\ entry[k] = "building" /\ entry' = [entry EXCEPT ![k] = "absent"]
      /\ inst[k] = "building" /\ inst' = [inst EXCEPT ![k] = "none"]
      /\ older' = [j \in Keys |-> older[j] \ {k}]
      /\ blame' = [blame EXCEPT ![t] = "interrupt"]
      /\ UNCHANGED <<refcount, at, closing, suite, leaked>>
  BY <1>1 DEF InterruptBuild, Drop, IInv, Constructions, Instances
<1>3. /\ pc' \in [Tests -> {"new", "setup", "building", "parked", "woken", "calling",
                            "releasing"} \cup Ended]
      /\ pc'[t] = "releasing"
      /\ \A u \in Tests \ {t} :
            pc'[u] = IF pc[u] = "parked" /\ Wanted(u) = k THEN "woken" ELSE pc[u]
  BY <1>1 DEF InterruptBuild, IInv, TypeOK
<1>4. /\ timedOut' \in [Tests -> BOOLEAN] /\ cancelDue' \in [Tests -> BOOLEAN]
      /\ cancelled' \in [Tests -> BOOLEAN] /\ stopping' = stopping
  BY DEF InterruptBuild, Interrupt, DeadlineFires, StopLands, IInv, TypeOK
<1> USE DEF suite
<1>5. /\ HoldsKept /\ AtKept /\ StillPast /\ stage = "suite" /\ stage' = "suite"
      /\ todo' \in [Tests -> SUBSET Refs]
      /\ Places' /\ Reports' /\ Owing' /\ Leaks' /\ Sweeping'
      /\ \A u \in Tests : closing[u] # {} => phase'[u] = phase[u]
      /\ (\A u \in Tests : InOrder(todo[u]))' /\ (\A m \in Modules : InOrder(pending[m]))'
  BY <1>2, <1>3, BeginsRelease DEF InSetup
<1>6. /\ entry'[k] = "absent" /\ inst'[k] = "none"
      /\ \A j \in Keys \ {k} : entry'[j] = entry[j] /\ inst'[j] = inst[j]
  BY <1>1, <1>2 DEF IInv, TypeOK
<1>7. TypeOK'  BY <1>2, <1>3, <1>4, <1>5 DEF IInv, TypeOK
<1>8. Constructions'
  <2>1. \A u \in Tests : pc'[u] = "building" => u # t /\ pc[u] = "building" /\ Wanted(u) # k
    BY <1>1, <1>2, <1>3 DEF IInv, Constructions, SingleFlight
  <2>2. \A u \in Tests : pc'[u] = "parked" => pc[u] = "parked" /\ Wanted(u) # k
    BY <1>3
  <2>3. \A j \in Keys : entry'[j] = "building" => j # k /\ entry[j] = "building"
    BY <1>6
  <2>4. \A u \in Tests : pc[u] = "building" /\ Wanted(u) # k => pc'[u] = "building"
    BY <1>1, <1>3
  <2>5. \A u \in Tests : pc[u] \in {"building", "parked"} => Wanted(u) \in Keys
    BY AcquiredFacts DEF IInv, Places
  <2> QED BY <1>5, <1>6, <2>1, <2>2, <2>3, <2>4, <2>5 DEF IInv, Constructions, SingleFlight, AtKept
<1>9. Instances'  BY <1>2, <1>5, <1>6 DEF IInv, Instances
<1>10. Closers'
  <2>1. \A u \in Tests : \A j \in closing[u] : j \in Keys /\ j # k
    BY <1>2 DEF IInv, TypeOK, Closers
  <2> QED BY <1>2, <1>5, <1>6, <2>1, ClosersKept
<1>11. Past'  BY <1>1, <1>2, <1>5, <1>6, PastKept
<1>12. Held' /\ Alive'
  <2>1. \A u \in Tests : ~Holds(u, k)  BY <1>1, <1>2, <1>5 DEF IInv, Held
  <2> QED BY <1>2, <1>5, <1>6, <2>1, HeldKept, AliveKept
<1>13. RefcountExact'
  <2>1. \A u \in Tests, j \in Keys : j # k => (Waits(u, j)' <=> Waits(u, j))
    BY <1>2, <1>3, <1>5 DEF Waits, AtKept
  <2>2. \A j \in Keys : entry'[j] # "absent" => j # k /\ entry[j] # "absent"
    BY <1>2, <1>6
  <2> QED BY <1>2, <1>5, <2>1, <2>2, RefcountKept DEF HoldsKept, Ref
<1>14. Ordered'
  <2>1. Present' = Present \ {k}  BY <1>1, <1>2, <1>6 DEF Present
  <2>2. \A d \in Keys : older'[d] = older[d] \ {k}  BY <1>2
  <2>3. ASSUME NEW d \in Keys, NEW j \in DependsOn[d], inst'[d] # "none"
        PROVE  inst'[j] \in {"up", "closing", "down"}
    <3>1. j \in Keys  BY <2>3, PlanAssumption
    <3>2. inst[d] # "none"  BY <1>2, <1>6, <2>3
    <3>3. inst[j] \in {"up", "closing", "down"}  BY <3>2 DEF IInv, Ordered
    <3> QED BY <1>2, <1>6, <3>1, <3>3
  <2>4. \A d \in Keys : older'[d] \subseteq Present'
    BY <2>1, <2>2 DEF IInv, Ordered
  <2>5. \A d \in Keys : \A j \in DependsOn[d] : d \notin older'[j]
    BY <2>2, PlanAssumption DEF IInv, Ordered
  <2> QED BY <1>5, <2>3, <2>4, <2>5 DEF Ordered
<1>15. DependentsFirst'
  BY <1>2, <1>6, PlanAssumption DEF IInv, DependentsFirst, Gone
<1>16. NoInheritedInterrupt'
  BY <1>2, <1>6, AcquiredFacts DEF IInv, TypeOK, NoInheritedInterrupt
<1> QED BY <1>5, <1>7, <1>8, <1>9, <1>10, <1>11, <1>12, <1>13, <1>14, <1>15, <1>16 DEF IInv

(* A stop of the run changes nothing of the fixtures, and so does a step   *)
(* that leaves all as it is.                                               *)
LEMMA QuietStep ==
    ASSUME IInv, RequestStop \/ UNCHANGED vars
    PROVE  IInv'
<1>1. UNCHANGED <<entry, older, refcount, pc, phase, at, todo, closing, suite, ghost>>
  BY DEF RequestStop, vars, store, task, suite, ghost
<1> USE DEF suite, ghost
<1>2. AtKept /\ AtGrows /\ StillPast  BY <1>1, AtFrame DEF StillPast
<1>3. \A u \in Tests : (Reported(u)' <=> Reported(u)) /\ (Flushes(u)' <=> Flushes(u))
  BY <1>1 DEF Reported, Flushes
<1>4. HoldsKept /\ \A u \in Tests, k \in Keys : Waits(u, k)' <=> Waits(u, k)
  BY <1>1, <1>2 DEF HoldsKept, Holds, Uses, Keeps, Owed, InSetup, OfModule, AtKept, Waits
<1>5. TypeOK'  BY <1>1 DEF IInv, TypeOK, RequestStop, vars, fate
<1>6. Places' /\ Instances' /\ Closers' /\ Past'
  BY <1>1 DEF IInv, Places, Instances, Closers, Past
<1>7. Constructions'  BY <1>1, <1>2 DEF IInv, Constructions, SingleFlight, AtKept
<1>8. Reports' /\ Owing' /\ Leaks'
  BY <1>1, <1>2, <1>3, ReportsKept, OwingKept, LeaksKept DEF Owed
<1>9. Held' /\ Alive' /\ RefcountExact'
  BY <1>1, <1>4, HeldKept, AliveKept, RefcountKept DEF HoldsKept, Ref
<1>10. Ordered' /\ DependentsFirst' /\ NoInheritedInterrupt'
  BY <1>1, OrderedKept, FixturesKept, BlameKept
<1>11. Sweeping'
  <2>1. CASE RequestStop  BY <1>1, <2>1, SweepingKept DEF RequestStop
  <2>2. CASE UNCHANGED vars
    BY <2>2 DEF IInv, Sweeping, ModuleClosed, Idle, Present, Gone, vars, store, task, fate
  <2> QED BY <2>1, <2>2
<1> QED BY <1>5, <1>6, <1>7, <1>8, <1>9, <1>10, <1>11 DEF IInv

-----------------------------------------------------------------------------
(* Releasing. *)

(* The closer of t is through; the references behind it stay to be         *)
(* released, or are dropped.                                               *)
LEMMA ClosedStep ==
    ASSUME IInv, NEW t \in Tests, CloseEnds(t) \/ InterruptClose(t) \/ GraceExpires(t)
    PROVE  IInv'
<1>1. PICK k \in closing[t] : Drop(k) /\ inst' = [inst EXCEPT ![k] = "down"]
  BY DEF CloseEnds, InterruptClose, GraceExpires, CutShort, Closed
<1>2. /\ closing[t] = {k} /\ k \in Keys /\ pc[t] = "releasing"
      /\ entry[k] = "ready" /\ inst[k] = "closing"
      /\ \A u \in Tests : ~Ref(u, k)
  BY ClosingUnheld DEF IInv, Closers, Places
<1>3. /\ entry' = [entry EXCEPT ![k] = "absent"]
      /\ older' = [j \in Keys |-> older[j] \ {k}]
      /\ inst' = [inst EXCEPT ![k] = "down"]
      /\ closing' = [closing EXCEPT ![t] = {}]
      /\ UNCHANGED <<refcount, pc, phase, at, suite, blame>>
  BY <1>1 DEF Drop, CloseEnds, InterruptClose, GraceExpires, CutShort, Closed
<1>4. /\ timedOut' \in [Tests -> BOOLEAN] /\ cancelDue' \in [Tests -> BOOLEAN]
      /\ cancelled' \in [Tests -> BOOLEAN] /\ stopping' = stopping
  BY DEF CloseEnds, InterruptClose, GraceExpires, Interrupt, DeadlineFires, StopLands, fate, IInv, TypeOK
<1>5. \/ UNCHANGED <<todo, leaked>>
      \/ /\ leaked' = [j \in Keys |-> leaked[j] \cup {u \in Tests : <<u, j>> \in todo[t]}]
         /\ todo' = [todo EXCEPT ![t] = {}]
  BY DEF CloseEnds, InterruptClose, GraceExpires, CutShort
<1>6. /\ \A u \in Tests : todo'[u] \subseteq todo[u] /\ (u # t => todo'[u] = todo[u])
      /\ \A j \in Keys : leaked[j] \subseteq leaked'[j]
      /\ todo' \in [Tests -> SUBSET Refs] /\ leaked' \in [Keys -> SUBSET Tests]
  <2>1. /\ todo \in [Tests -> SUBSET Refs] /\ leaked \in [Keys -> SUBSET Tests]
    BY DEF IInv, TypeOK
  <2>2. todo' = todo \/ todo' = [todo EXCEPT ![t] = {}]  BY <1>5
  <2>3. \/ leaked' = leaked
        \/ leaked' = [j \in Keys |-> leaked[j] \cup {u \in Tests : <<u, j>> \in todo[t]}]
    BY <1>5
  <2>4. todo' \in [Tests -> SUBSET Refs] /\ \A u \in Tests : todo'[u] \subseteq todo[u] /\ (u # t => todo'[u] = todo[u])
    BY <2>1, <2>2
  <2>5. \A j \in Keys : leaked[j] \subseteq leaked'[j]  BY <2>3
  <2>6. leaked' \in [Keys -> SUBSET Tests]  BY <2>1, <2>3
  <2> QED BY <2>4, <2>5, <2>6
<1> USE DEF suite
<1>7. AtKept /\ AtGrows /\ StillPast /\ stage = "suite" /\ stage' = "suite"
  BY <1>2, <1>3, AtFrame, TaskSteps DEF StillPast, Ended
<1>8. \A u \in Tests : (Reported(u)' <=> Reported(u)) /\ (Flushes(u)' <=> Flushes(u))
  BY <1>3 DEF Reported, Flushes
<1>9. /\ entry'[k] = "absent" /\ inst'[k] = "down"
      /\ \A j \in Keys \ {k} : entry'[j] = entry[j] /\ inst'[j] = inst[j]
      /\ closing'[t] = {} /\ \A u \in Tests \ {t} : closing'[u] = closing[u] /\ k \notin closing[u]
  BY <1>2, <1>3 DEF IInv, TypeOK, Closers
<1>10. ASSUME NEW u \in Tests, NEW j \in Keys
       PROVE  Holds(u, j)' <=> Holds(u, j)
  <2>1. Uses(u, j)' <=> Uses(u, j)  BY <1>3, <1>7 DEF Uses, InSetup, AtKept
  <2>2. Keeps(u, j)' <=> Keeps(u, j)  BY <1>3, <1>7 DEF Keeps, OfModule, AtKept
  <2>3. (Owed(u, j) \/ u \in leaked[j])' <=> Owed(u, j) \/ u \in leaked[j]
    <3>1. CASE UNCHANGED <<todo, leaked>>
      BY <1>3, <3>1 DEF Owed
    <3>2. CASE /\ leaked' = [i \in Keys |-> leaked[i] \cup {w \in Tests : <<w, i>> \in todo[t]}]
               /\ todo' = [todo EXCEPT ![t] = {}]
      <4>1. u \in leaked'[j] <=> u \in leaked[j] \/ <<u, j>> \in todo[t]  BY <3>2
      <4>2. todo'[t] = {}  BY <3>2 DEF IInv, TypeOK
      <4>3. Owed(u, j)' <=> \/ \E v \in Tests \ {t} : <<u, j>> \in todo[v]
                            \/ \E m \in Modules : <<u, j>> \in pending[m]
        BY <1>3, <1>6, <4>2 DEF Owed
      <4> QED BY <4>1, <4>3 DEF Owed
    <3> QED BY <1>5, <3>1, <3>2
  <2> QED BY <2>1, <2>2, <2>3 DEF Holds
<1>11. HoldsKept  BY <1>10 DEF HoldsKept
<1>12. TypeOK'  BY <1>2, <1>3, <1>4, <1>6 DEF IInv, TypeOK
<1>13. Places'  BY <1>2, <1>3, <1>6, <1>7, <1>9 DEF IInv, Places
<1>14. Constructions'
  <2>1. \A u \in Tests : pc[u] \in {"building", "parked"} => Wanted(u) \in Keys /\ Wanted(u) # k
    BY <1>2, AcquiredFacts DEF IInv, Places, Constructions, Ref, Waits
  <2>2. \A j \in Keys : entry'[j] = "building" => entry[j] = "building"
    BY <1>9
  <2> QED BY <1>3, <1>7, <1>9, <2>1, <2>2 DEF IInv, Constructions, SingleFlight, AtKept
<1>15. Instances'
  <2> SUFFICES ASSUME NEW j \in Keys
               PROVE  /\ entry'[j] = "building" <=> inst'[j] = "building"
                      /\ entry'[j] = "ready" => inst'[j] \in {"up", "closing"}
                      /\ inst'[j] = "up" => entry'[j] = "ready"
                      /\ entry'[j] = "failed" => inst'[j] = "broken"
                      /\ entry'[j] = "absent" => inst'[j] \in {"none", "down"}
                      /\ inst'[j] = "closing" => \E u \in Tests : j \in closing'[u]
                      /\ inst'[j] # "none" => \E u \in Tests : j \in KeysOf(u)
    BY <1>7 DEF Instances
  <2>1. CASE j = k  BY <1>2, <1>9, <2>1 DEF IInv, Instances
  <2>2. CASE j # k
    <3>1. entry'[j] = entry[j] /\ inst'[j] = inst[j] /\ j \notin closing[t]
      BY <1>2, <1>9, <2>2
    <3> QED BY <1>7, <1>9, <3>1 DEF IInv, Instances
  <2> QED BY <2>1, <2>2
<1>16. Closers'
  <2>1. ASSUME NEW u \in Tests, NEW j \in closing'[u]
        PROVE  /\ closing'[u] = closing[u] /\ j \in Keys /\ j # k
               /\ entry'[j] = entry[j] /\ inst'[j] = inst[j]
    BY <1>9, <2>1 DEF IInv, TypeOK
  <2> QED BY <1>3, <2>1 DEF IInv, Closers
<1>17. Past'
  <2>1. \A j \in Keys : inst'[j] \in {"closing", "down"} => inst[j] \in {"closing", "down"}
    BY <1>2, <1>9
  <2> QED BY <1>7, <2>1, PastKept
<1>18. Reports' /\ Sweeping'  BY <1>3, <1>7, <1>8, ReportsKept, SweepingKept
<1>19. Owing'
  BY <1>3, <1>6, <1>7 DEF IInv, TypeOK, Refs, Owing, AtKept, OfModule
<1>20. Leaks'
  <2> SUFFICES ASSUME NEW j \in Keys, NEW u \in leaked'[j]
               PROVE  /\ ~Owed(u, j)' /\ j \in Acquired(u)' /\ pc'[u] \in {"releasing", "finished"}
                      /\ ScopeOf[j] = "module" => Reported(u)'
    BY DEF Leaks
  <2>1. u \in Tests  BY <1>6
  <2>2. CASE u \in leaked[j]
    <3>1. ~Owed(u, j)'  BY <1>3, <1>6, <2>2 DEF IInv, Leaks, Owed
    <3> QED BY <1>3, <1>7, <1>8, <2>1, <2>2, <3>1 DEF IInv, Leaks, AtKept
  <2>3. CASE u \notin leaked[j]
    <3>1. <<u, j>> \in todo[t] /\ todo'[t] = {}
      BY <1>5, <2>3 DEF IInv, TypeOK
    <3>2. /\ Owed(u, j)
          /\ \A v \in Tests : <<u, j>> \in todo[v] => v = t
          /\ \A m \in Modules : <<u, j>> \notin pending[m]
      BY <3>1, OwedOnce
    <3>3. ~Owed(u, j)'  BY <1>3, <1>6, <3>1, <3>2 DEF Owed
    <3> QED BY <1>3, <1>7, <1>8, <2>1, <3>2, <3>3, OwedFacts DEF AtKept
  <2> QED BY <2>2, <2>3
<1>21. Held' /\ Alive'
  <2>1. \A u \in Tests : ~Holds(u, k)  BY <1>2 DEF Ref
  <2> QED BY <1>7, <1>9, <1>11, <2>1, HeldKept, AliveKept
<1>22. RefcountExact'
  <2>1. \A u \in Tests, j \in Keys : Ref(u, j)' <=> Ref(u, j)
    BY <1>3, <1>7, <1>10 DEF Ref, Waits, AtKept
  <2> QED BY <1>3, <1>9, <2>1, RefcountKept
<1>23. Ordered'
  <2>1. Present' = Present \ {k}  BY <1>2, <1>9 DEF Present
  <2>2. \A d \in Keys : older'[d] = older[d] \ {k}  BY <1>3
  <2>3. \A d \in Keys : (inst'[d] # "none" => inst[d] # "none")
                        /\ (inst[d] \in {"up", "closing", "down"} => inst'[d] \in {"up", "closing", "down"})
    BY <1>2, <1>9
  <2>4. \A d \in Keys : \A j \in DependsOn[d] :
            d \notin older'[j] /\ (inst'[d] # "none" => inst'[j] \in {"up", "closing", "down"})
    BY <2>2, <2>3, PlanAssumption DEF IInv, Ordered
  <2>5. \A u \in Tests : InOrder(todo'[u])
    <3>1. \A u \in Tests : todo'[u] = todo[u] \/ todo'[u] = {}
      BY <1>5 DEF IInv, TypeOK
    <3> QED BY <3>1 DEF IInv, Ordered, InOrder
  <2>6. \A d \in Keys : older'[d] \subseteq Present'  BY <2>1, <2>2 DEF IInv, Ordered
  <2> QED BY <1>3, <2>4, <2>5, <2>6 DEF IInv, Ordered, InOrder
<1>24. DependentsFirst'
  <2>1. \A d \in Keys : inst'[d] \in {"closing", "down"} => inst[d] \in {"closing", "down"}
    BY <1>2, <1>9
  <2>2. \A d \in Keys : Gone(d) \/ leaked[d] # {} => Gone(d)' \/ leaked'[d] # {}
    BY <1>6, <1>9 DEF Gone
  <2> QED BY <2>1, <2>2 DEF IInv, DependentsFirst
<1>25. NoInheritedInterrupt'
  <2>1. \A j \in Keys : inst[j] = "broken" => inst'[j] = "broken"  BY <1>2, <1>9
  <2> QED BY <1>3, <2>1, BlameKept
<1> QED BY <1>12, <1>13, <1>14, <1>15, <1>16, <1>17, <1>18, <1>19, <1>20, <1>21, <1>22, <1>23, <1>24, <1>25
       DEF IInv

(* One reference goes back. *)
LEMMA ReleaseKeyStep ==
    ASSUME IInv, NEW t \in Tests, ReleaseKey(t)
    PROVE  IInv'
<1>1. PICK r \in Refs :
        /\ r \in todo[t] /\ \A s \in todo[t] \ {r} : Before(s, r)
        /\ todo' = [todo EXCEPT ![t] = @ \ {r}]
        /\ refcount' = [refcount EXCEPT ![r[2]] = IF entry[r[2]] = "ready" THEN @ - 1 ELSE @]
        /\ closing' = [closing EXCEPT ![t] =
              IF entry[r[2]] = "ready" /\ refcount[r[2]] = 1 /\ ScopeOf[r[2]] # "session" THEN {r[2]} ELSE {}]
        /\ inst' = [inst EXCEPT ![r[2]] =
              IF entry[r[2]] = "ready" /\ refcount[r[2]] = 1 /\ ScopeOf[r[2]] # "session" THEN "closing" ELSE @]
  BY DEF ReleaseKey, IInv, TypeOK
<1>2. PICK v \in Tests, k \in Keys : r = <<v, k>> /\ v = r[1] /\ k = r[2]
  BY <1>1, OwedOnce
<1>3. /\ pc[t] = "releasing" /\ closing[t] = {}
      /\ UNCHANGED <<entry, older, pc, phase, at, fate, suite, blame, leaked>>
  BY DEF ReleaseKey
<1> DEFINE last == refcount[k] = 1 /\ ScopeOf[k] # "session"
<1>4. AtKept /\ AtGrows /\ StillPast /\ stage = "suite" /\ stage' = "suite"
  BY <1>3, AtFrame, TaskSteps DEF StillPast, Ended, suite
<1>5. Owed(v, k) /\ Holds(v, k) /\ Ref(v, k)
  BY <1>1, <1>2, OwedOnce DEF Holds, Ref
<1>6. entry[k] = "ready" /\ inst[k] = "up"
  BY <1>4, <1>5, HeldIsUp
<1>7. /\ k \in Acquired(v) /\ k \in KeysOf(v)
      /\ pc[v] \in {"releasing", "finished"}
      /\ ScopeOf[k] = "module" => Reported(v) /\ Flushes(t) /\ ModuleOf[v] = ModuleOf[t]
      /\ ScopeOf[k] # "module" => v = t /\ ~Flushes(t)
  <2>1. k \in Acquired(v) /\ pc[v] \in {"releasing", "finished"} /\ (ScopeOf[k] = "module" => Reported(v))
    BY <1>5, OwedFacts
  <2>2. k \in KeysOf(v)  BY <2>1, AcquiredFacts DEF IInv
  <2>3. phase[t] = "flush" => ScopeOf[k] = "module" /\ ModuleOf[v] = ModuleOf[t]
    BY <1>1, <1>2 DEF IInv, Owing
  <2>4. phase[t] # "flush" => ScopeOf[k] # "module" /\ v = t
    BY <1>1, <1>2 DEF IInv, Owing
  <2> QED BY <1>3, <2>1, <2>2, <2>3, <2>4 DEF Flushes
<1>8. /\ todo' = [todo EXCEPT ![t] = @ \ {r}]
      /\ refcount' = [refcount EXCEPT ![k] = @ - 1]
      /\ closing' = [closing EXCEPT ![t] = IF last THEN {k} ELSE {}]
      /\ inst' = [inst EXCEPT ![k] = IF last THEN "closing" ELSE @]
  BY <1>1, <1>2, <1>6
<1> HIDE DEF last
<1>9. /\ \A u \in Tests : todo'[u] = IF u = t THEN todo[t] \ {r} ELSE todo[u]
      /\ todo' \in [Tests -> SUBSET Refs]
      /\ \A u \in Tests : closing'[u] = IF u = t /\ last THEN {k} ELSE closing[u]
      /\ closing' \in [Tests -> SUBSET Keys]
      /\ \A j \in Keys : inst'[j] = IF j = k /\ last THEN "closing" ELSE inst[j]
      /\ inst' \in [Keys -> {"none", "building", "up", "closing", "down", "broken"}]
      /\ \A j \in Keys : j # k => refcount'[j] = refcount[j]
      /\ refcount'[k] = refcount[k] - 1
  BY <1>2, <1>3, <1>8 DEF IInv, TypeOK
<1>10. \A u \in Tests : k \in KeysOf(u) =>
          IF ScopeOf[k] = "module" THEN Reported(u) /\ ModuleOf[u] = ModuleOf[t]
          ELSE ScopeOf[k] = "function" => u = t
  BY <1>7, FlushesLast, PlanAssumption
<1>11. \A u \in Tests : Ref(u, k) => k \in KeysOf(u)
  BY HoldsFacts, AcquiredFacts DEF Ref, Waits, IInv, Places
<1>12. \A u \in Tests : Ref(u, k) /\ ScopeOf[k] # "session" => Holds(u, k)
  <2>1. pc[t] # "parked" /\ \A u \in Tests : Reported(u) => pc[u] # "parked"
    BY <1>3 DEF Reported, Flushes
  <2> QED BY <1>10, <1>11, <2>1, PlanAssumption DEF Ref, Waits
<1>13. ASSUME NEW u \in Tests, NEW j \in Keys
       PROVE  Holds(u, j)' <=> Holds(u, j) /\ ~(u = v /\ j = k)
  <2>1. Uses(u, j)' <=> Uses(u, j)  BY <1>3, <1>4 DEF Uses, InSetup, AtKept
  <2>2. Keeps(u, j)' <=> Keeps(u, j)  BY <1>3, <1>4 DEF Keeps, OfModule, AtKept
  <2>3. CASE u = v /\ j = k
    <3>1. ~Uses(v, k)  BY <1>7 DEF Uses, InSetup
    <3>2. ~Keeps(v, k)  BY <1>7 DEF Keeps, OfModule, Reported, Flushes
    <3>3. v \notin leaked[k]  BY <1>5 DEF IInv, Leaks
    <3>4. ~Owed(v, k)'
      <4>1. (\A w \in Tests : r \in todo[w] => w = t) /\ \A m \in Modules : r \notin pending[m]
        BY <1>1, OwedOnce
      <4>2. (\A w \in Tests : r \notin todo'[w]) /\ \A m \in Modules : r \notin pending'[m]
        BY <1>3, <1>9, <4>1 DEF suite
      <4> QED BY <1>2, <4>2 DEF Owed
    <3> QED BY <1>3, <2>1, <2>2, <2>3, <3>1, <3>2, <3>3, <3>4 DEF Holds
  <2>4. CASE ~(u = v /\ j = k)
    <3>1. <<u, j>> # r  BY <1>2, <2>4
    <3>2. Owed(u, j)' <=> Owed(u, j)  BY <1>3, <1>9, <3>1 DEF Owed, suite
    <3> QED BY <1>3, <2>1, <2>2, <2>4, <3>2 DEF Holds
  <2> QED BY <2>3, <2>4
<1>14. RefcountExact' /\ refcount' \in [Keys -> Nat]
  <2>1. ~Waits(v, k)  BY <1>7 DEF Waits
  <2>2. \A u \in Tests, j \in Keys : Waits(u, j)' <=> Waits(u, j)
    BY <1>3, <1>4 DEF Waits, AtKept
  <2>3. Loses(v, k)
    BY <1>13, <2>1, <2>2 DEF Ref, Loses
  <2>4. entry[k] # "absent" /\ NoneEntered
    BY <1>3, <1>6 DEF NoneEntered
  <2>5. Ref(v, k) /\ refcount' = [refcount EXCEPT ![k] = @ - 1] /\ v \in Tests /\ k \in Keys
    BY <1>5, <1>8
  <2> QED BY <2>3, <2>4, <2>5, RefcountLoses
(* Before the last reference goes, v alone refers to k; before any other,  *)
(* somebody else does.                                                     *)
<1>15. refcount[k] = Cardinality(References(k)) /\ v \in References(k)
  BY <1>5, <1>6, ReferencesFacts DEF IInv, RefcountExact
<1>16. last => \A u \in Tests : Ref(u, k) => u = v
  <2>1. refcount[k] = 1 => \E x : References(k) = {x}
    BY <1>15, ReferencesFacts, FS_Singleton
  <2> QED BY <1>15, <2>1, ReferencesFacts DEF last
<1>17. ~last /\ ScopeOf[k] # "session" => \E u \in Tests : u # v /\ Holds(u, k)
  <2> SUFFICES ASSUME ~last, ScopeOf[k] # "session", \A u \in Tests : Holds(u, k) => u = v
               PROVE  FALSE
    OBVIOUS
  <2>1. References(k) = {v}  BY <1>12, <1>15, ReferencesFacts
  <2>2. Cardinality({v}) = 1  BY FS_Singleton
  <2> QED BY <1>15, <2>1, <2>2 DEF last
<1> USE DEF suite, fate
<1>18. \A u \in Tests : (Reported(u)' <=> Reported(u)) /\ (Flushes(u)' <=> Flushes(u))
  BY <1>3 DEF Reported, Flushes
<1>19. TypeOK'  BY <1>3, <1>9, <1>14 DEF IInv, TypeOK
<1>20. Places'
  BY <1>3, <1>4, <1>9 DEF IInv, Places
<1>21. Constructions'  BY <1>3, <1>4 DEF IInv, Constructions, SingleFlight, AtKept
<1>22. Instances'  BY <1>3, <1>4, <1>6, <1>9 DEF IInv, Instances
<1>23. Closers'
  <2>1. \A u \in Tests : k \notin closing[u]  BY <1>6 DEF IInv, Closers
  <2>2. ASSUME NEW u \in Tests, NEW j \in closing'[u], ~(u = t /\ last)
        PROVE  /\ j \in closing[u] /\ closing'[u] = closing[u] /\ j \in Keys /\ j # k
               /\ inst'[j] = inst[j] /\ refcount'[j] = refcount[j]
    BY <1>9, <2>1, <2>2 DEF IInv, TypeOK
  <2>3. ASSUME last
        PROVE  /\ closing'[t] = {k} /\ inst'[k] = "closing" /\ entry'[k] = "ready" /\ refcount'[k] = 0
               /\ ScopeOf[k] # "session"
               /\ ScopeOf[k] = "function" => phase'[t] # "flush" /\ k \in KeysOf(t)
               /\ ScopeOf[k] = "module" => phase'[t] = "flush" /\ (\E u \in Tests : k \in KeysOf(u))
                    /\ \A u \in Tests : k \in KeysOf(u) => ModuleOf[u] = ModuleOf[t]
    BY <1>3, <1>6, <1>7, <1>9, <1>10, <2>3 DEF last, Flushes
  <2>4. ASSUME NEW u \in Tests, NEW j \in closing'[u]
        PROVE  /\ closing'[u] = {j}
               /\ inst'[j] = "closing" /\ entry'[j] = "ready" /\ refcount'[j] = 0
               /\ ScopeOf[j] # "session"
               /\ ScopeOf[j] = "function" => phase'[u] # "flush" /\ j \in KeysOf(u)
               /\ ScopeOf[j] = "module" => phase'[u] = "flush" /\ (\E w \in Tests : j \in KeysOf(w))
                    /\ \A w \in Tests : j \in KeysOf(w) => ModuleOf[w] = ModuleOf[u]
    <3>1. CASE u = t /\ last  BY <2>3, <2>4, <3>1
    <3>2. CASE ~(u = t /\ last)  BY <1>3, <2>2, <2>4, <3>2 DEF IInv, Closers
    <3> QED BY <3>1, <3>2
  <2>5. \A u, w \in Tests : closing'[u] \cap closing'[w] # {} => u = w
    BY <1>9, <2>1 DEF IInv, Closers
  <2> QED BY <2>4, <2>5 DEF Closers
<1>24. Past'
  <2>1. last => \A u \in Tests : k \in KeysOf(u) => pc[u] \in {"releasing"} \cup Ended
    BY <1>3, <1>10, PlanAssumption DEF last, Reported, Flushes, Ended
  <2> QED BY <1>3, <1>9, <2>1 DEF IInv, Past
<1>25. Reports' /\ Sweeping'  BY <1>3, <1>4, <1>18, ReportsKept, SweepingKept
<1>26. Owing'
  <2>1. \A u \in Tests : todo'[u] \subseteq todo[u]  BY <1>9
  <2> QED BY <1>3, <1>4, <2>1 DEF IInv, TypeOK, Refs, Owing, AtKept, OfModule
<1>27. Leaks'
  <2>1. \A u \in Tests, j \in Keys : Owed(u, j)' => Owed(u, j)
    BY <1>3, <1>9 DEF Owed
  <2> QED BY <1>3, <1>4, <1>18, <2>1, LeaksKept
<1>28. Held'  BY <1>3, <1>4, <1>13 DEF IInv, Held
<1>29. Alive'
  <2> SUFFICES ASSUME NEW j \in Keys, entry'[j] = "ready", inst'[j] = "up", ScopeOf[j] # "session"
               PROVE  \E u \in Tests : Holds(u, j)'
    BY DEF Alive
  <2>1. CASE j = k  BY <1>9, <1>13, <1>17, <2>1
  <2>2. CASE j # k
    <3>1. PICK u \in Tests : Holds(u, j)
      BY <1>3, <1>4, <1>9, <2>2 DEF IInv, Alive
    <3> QED BY <1>13, <2>2, <3>1
  <2> QED BY <2>1, <2>2
(* In reverse: what is built on k was released before. *)
<1>30. \A d \in Keys : k \in DependsOn[d] => <<v, d>> \notin todo[t]
  <2> SUFFICES ASSUME NEW d \in Keys, k \in DependsOn[d], <<v, d>> \in todo[t] PROVE FALSE
    OBVIOUS
  <2>1. d \in KeysOf(v)  BY OwedOnce, OwedFacts, AcquiredFacts DEF IInv
  <2>2. PICK i \in 1..Len(Plan[v]) : Plan[v][i] = d  BY <2>1, PlanType DEF Prefix
  <2>3. PICK j \in 1..(i - 1) : Plan[v][j] = k  BY <2>2, PlanType, PlanAssumption
  <2>4. d # k  BY <2>2, <2>3, PlanType
  <2>5. Before(<<v, d>>, <<v, k>>)  BY <1>1, <1>2, <2>4
  <2>6. PICK m \in DOMAIN Plan[v] : \E n \in 1..(m - 1) : Plan[v][n] = d /\ Plan[v][m] = k
    BY <2>5 DEF Before
  <2>7. m = j  BY <2>2, <2>3, <2>6, PlanType
  <2>8. PICK n \in 1..(m - 1) : Plan[v][n] = d  BY <2>6
  <2>9. n = i  BY <2>2, <2>6, <2>8, PlanType
  <2> QED BY <2>2, <2>3, <2>7, <2>8, <2>9, PlanType
<1>31. Ordered'
  <2>1. InOrder(todo'[t])
    <3> SUFFICES ASSUME NEW u \in Tests, NEW d \in Keys, <<u, d>> \in todo'[t], NEW j \in DependsOn[d],
                        ScopeOf[j] = "module" <=> ScopeOf[d] = "module"
                 PROVE  <<u, j>> \in todo'[t]
      BY DEF InOrder
    <3>1. <<u, j>> \in todo[t]  BY <1>9 DEF IInv, Ordered, InOrder
    <3>2. <<u, j>> # r  BY <1>2, <1>9, <1>30
    <3> QED BY <1>9, <3>1, <3>2
  <2>2. \A u \in Tests : InOrder(todo'[u])  BY <1>9, <2>1 DEF IInv, Ordered
  <2>3. (\A u \in Tests : InOrder(todo[u]))' /\ (\A m \in Modules : InOrder(pending[m]))'
    BY <1>3, <2>2 DEF IInv, Ordered, InOrder
  <2>4. Present' = Present  BY <1>3 DEF Present
  <2>5. \A d \in Keys : (inst'[d] # "none" <=> inst[d] # "none")
                        /\ (inst[d] \in {"up", "closing", "down"} => inst'[d] \in {"up", "closing", "down"})
    BY <1>6, <1>9
  <2> QED BY <1>3, <2>3, <2>4, <2>5, PlanAssumption DEF IInv, Ordered
<1>33. NoInheritedInterrupt'
  <2>1. \A j \in Keys : inst[j] = "broken" => inst'[j] = "broken"  BY <1>6, <1>9
  <2> QED BY <1>3, <2>1, BlameKept
(* The last reference on k leaves nothing that was built on it.            *)
<1>32. last => \A d \in Keys : k \in DependsOn[d] => Gone(d) \/ leaked[d] # {}
  <2> SUFFICES ASSUME last, NEW d \in Keys, k \in DependsOn[d], ~Gone(d), leaked[d] = {}
               PROVE  FALSE
    OBVIOUS
  <2>1. /\ ScopeOf[k] \in {"module", "function"} /\ ScopeOf[d] \in {"module", "function"}
        /\ ScopeOf[k] = "function" => ScopeOf[d] = "function"
    BY PlanAssumption DEF last
  <2>2. \A u \in Tests : d \in Acquired(u) => k \in Acquired(u)
    BY AcquiredFacts DEF IInv
  <2>3. ASSUME NEW u \in Tests, d \in KeysOf(u)  PROVE k \in KeysOf(u)
    <3>1. Len(Plan[u]) + 1 \in 1..(Len(Plan[u]) + 1) /\ KeysOf(u) = Prefix(u, Len(Plan[u]) + 1)
      BY PlanType
    <3> QED BY <2>3, <3>1, PrefixFacts
  <2>4. inst[d] \in {"building", "up", "closing"}  BY DEF Gone, IInv, TypeOK
  <2>5. CASE inst[d] = "building"
    <3>1. PICK u \in Tests : pc[u] = "building" /\ Wanted(u) = d
      BY <2>5 DEF IInv, Instances, Constructions
    <3>2. k \in Acquired(u)  BY <3>1, AcquiredFacts DEF IInv, Places
    <3>3. Ref(u, k)  BY <3>1, <3>2 DEF Ref, Holds, Uses, InSetup
    <3> QED BY <1>7, <1>16, <3>1, <3>3
  <2>6. CASE inst[d] = "closing"
    <3>1. PICK u \in Tests : d \in closing[u]  BY <1>4, <2>6 DEF IInv, Instances
    <3>2. u # t /\ pc[u] = "releasing"  BY <1>3, <3>1 DEF IInv, Places
    <3>3. CASE ScopeOf[d] = "function"
      <4>1. phase[u] # "flush" /\ k \in KeysOf(u)  BY <2>3, <3>1, <3>3 DEF IInv, Closers
      <4> QED BY <1>10, <2>1, <3>2, <4>1 DEF Reported, Flushes
    <3>4. CASE ScopeOf[d] = "module"
      <4>1. PICK w \in Tests : d \in KeysOf(w) /\ Flushes(u) /\ ModuleOf[w] = ModuleOf[u]
        BY <3>1, <3>2, <3>4 DEF IInv, Closers, Flushes
      <4>2. CASE ScopeOf[k] = "module"
        <5>1. Flushes(t) /\ ModuleOf[w] = ModuleOf[t]
          BY <1>7, <1>10, <2>3, <4>1, <4>2
        <5> QED BY <3>2, <4>1, <5>1 DEF IInv, Reports
      <4>3. CASE ScopeOf[k] = "function"
        BY <2>1, <3>4, <4>3
      <4> QED BY <2>1, <4>2, <4>3
    <3> QED BY <2>1, <3>3, <3>4
  <2>7. CASE inst[d] = "up"
    <3>1. PICK u \in Tests : Holds(u, d)
      BY <1>4, <2>1, <2>7 DEF IInv, Alive, Instances
    <3>2. k \in Acquired(u) /\ u \notin leaked[d]  BY <2>2, <3>1, HoldsFacts
    <3>3. CASE Uses(u, d)
      <4>1. Ref(u, k)  BY <3>2, <3>3 DEF Uses, Ref, Holds
      <4> QED BY <1>7, <1>16, <3>3, <4>1 DEF Uses, InSetup
    <3>4. CASE Keeps(u, d)
      <4>1. ScopeOf[d] = "module" /\ ~Reported(u) /\ pc[u] = "releasing" /\ phase[u] # "flush"
        BY <3>4 DEF Keeps, OfModule, Reported, Flushes
      <4>2. CASE ScopeOf[k] = "module"
        <5>1. Ref(u, k)  BY <3>2, <4>1, <4>2 DEF Keeps, OfModule, Ref, Holds
        <5> QED BY <1>7, <1>16, <4>1, <4>2, <5>1
      <4>3. CASE ScopeOf[k] = "function"
        BY <2>1, <4>1, <4>3
      <4> QED BY <2>1, <4>2, <4>3
    <3>5. CASE Owed(u, d)
      <4>1. CASE ScopeOf[k] = "module" <=> ScopeOf[d] = "module"
        <5>1. Ref(u, k)
          BY <3>5, <4>1 DEF Owed, Ref, Holds, IInv, Ordered, InOrder
        <5>2. u = v  BY <1>16, <5>1
        <5>3. <<v, d>> \notin todo[t]  BY <1>30
        <5>4. (\E w \in Tests : <<v, d>> \in todo[w]) \/ (\E m \in Modules : <<v, d>> \in pending[m])
          BY <3>5, <5>2 DEF Owed
        <5>5. ASSUME NEW x \in Tests, <<v, d>> \in todo[x]  PROVE x = t
          <6>1. <<v, k>> \in todo[x]  BY <4>1, <5>5 DEF IInv, Ordered, InOrder
          <6> QED BY <1>1, <1>2, <6>1, OwedOnce
        <5>6. ASSUME NEW m \in Modules, <<v, d>> \in pending[m]  PROVE FALSE
          <6>1. <<v, k>> \in pending[m]  BY <4>1, <5>6 DEF IInv, Ordered, InOrder
          <6> QED BY <1>1, <1>2, <6>1, OwedOnce
        <5> QED BY <5>3, <5>4, <5>5, <5>6
      <4>2. CASE ScopeOf[k] = "module" /\ ScopeOf[d] = "function"
        <5>1. pc[u] = "releasing" /\ phase[u] # "flush"  BY <3>5, <4>2, OwedFacts
        <5>2. k \in KeysOf(u)  BY <3>2, AcquiredFacts DEF IInv
        <5> QED BY <1>10, <4>2, <5>1, <5>2 DEF Reported, Flushes
      <4> QED BY <2>1, <4>1, <4>2
    <3> QED BY <3>1, <3>2, <3>3, <3>4, <3>5 DEF Holds
  <2> QED BY <2>4, <2>5, <2>6, <2>7
<1>34. DependentsFirst'
  <2>1. ASSUME NEW j \in Keys, NEW d \in Keys, j \in DependsOn[d], inst'[j] \in {"closing", "down"}
        PROVE  Gone(d) \/ leaked[d] # {}
    BY <1>9, <1>32, <2>1 DEF IInv, DependentsFirst
  <2>2. \A d \in Keys : Gone(d) \/ leaked[d] # {} => Gone(d)' \/ leaked'[d] # {}
    BY <1>3, <1>6, <1>9 DEF Gone
  <2> QED BY <2>1, <2>2 DEF DependentsFirst
<1> QED BY <1>14, <1>19, <1>20, <1>21, <1>22, <1>23, <1>24, <1>25, <1>26, <1>27, <1>28, <1>29, <1>31, <1>33, <1>34
       DEF IInv


(* The module's last test has released all that was handed to it.          *)
LEMMA FlushEnds ==
    ASSUME IInv, NEW t \in Tests, PhaseEnds(t), phase[t] = "flush"
    PROVE  IInv'
<1>1. /\ pc[t] = "releasing" /\ closing[t] = {} /\ todo[t] = {}
      /\ pc' = [pc EXCEPT ![t] = "finished"]
      /\ UNCHANGED <<store, phase, at, todo, closing, fate, suite, ghost>>
  BY DEF PhaseEnds, suite
<1>2. pc'[t] = "finished" /\ \A u \in Tests : u # t => pc'[u] = pc[u]
  BY <1>1 DEF IInv, TypeOK
<1> USE DEF store, fate, suite, ghost
<1>3. AtKept /\ AtGrows /\ StillPast /\ stage = "suite" /\ stage' = "suite"
  BY <1>1, <1>2, AtFrame, TaskSteps DEF StillPast, Ended
<1>4. \A u \in Tests : (Reported(u)' <=> Reported(u)) /\ (Flushes(u)' => Flushes(u))
  BY <1>1, <1>2 DEF Reported, Flushes
<1>5. HoldsKept /\ \A u \in Tests, k \in Keys : Waits(u, k)' <=> Waits(u, k)
  <2> SUFFICES ASSUME NEW u \in Tests, NEW k \in Keys
               PROVE  (Holds(u, k)' <=> Holds(u, k)) /\ (Waits(u, k)' <=> Waits(u, k))
    BY DEF HoldsKept
  <2>1. Uses(u, k)' <=> Uses(u, k)  BY <1>1, <1>2, <1>3 DEF Uses, InSetup, AtKept
  <2>2. Keeps(u, k)' <=> Keeps(u, k)  BY <1>1, <1>2, <1>3 DEF Keeps, OfModule, AtKept
  <2>3. Owed(u, k)' <=> Owed(u, k)  BY <1>1 DEF Owed
  <2>4. Waits(u, k)' <=> Waits(u, k)  BY <1>1, <1>2, <1>3 DEF Waits, AtKept
  <2> QED BY <1>1, <2>1, <2>2, <2>3, <2>4 DEF Holds
<1>6. TypeOK'  BY <1>1 DEF IInv, TypeOK, Ended
<1>7. Places'  BY <1>1, <1>2, <1>3 DEF IInv, Places
<1>8. Constructions'
  BY <1>1, <1>2, <1>3 DEF IInv, Constructions, SingleFlight, AtKept
<1>9. Instances' /\ Closers' /\ Past'
  BY <1>1, <1>3, PastKept DEF IInv, Instances, Closers
<1>10. Reports'
  <2>1. \A m \in Modules : Unreported(m)' = Unreported(m)  BY <1>4 DEF Unreported
  <2> QED BY <1>1, <1>4, <2>1 DEF IInv, Reports
<1>11. Owing' /\ Leaks'
  BY <1>1, <1>3, <1>4, OwingKept, LeaksKept DEF Owed
<1>12. Held' /\ Alive' /\ RefcountExact'
  BY <1>1, <1>5, HeldKept, AliveKept, RefcountKept DEF HoldsKept, Ref
<1>13. Ordered' /\ DependentsFirst' /\ NoInheritedInterrupt' /\ Sweeping'
  BY <1>1, <1>3, OrderedKept, FixturesKept, BlameKept, SweepingKept
<1> QED BY <1>6, <1>7, <1>8, <1>9, <1>10, <1>11, <1>12, <1>13 DEF IInv

(* A test is through with its own fixtures: its module keys go to the      *)
(* account of the module, or with it to the test itself, the last one.     *)
LEMMA HandsOverStep ==
    ASSUME IInv, NEW t \in Tests, PhaseEnds(t), phase[t] # "flush"
    PROVE  IInv'
<1>1. PICK m \in Modules : m = ModuleOf[t]  BY PlanAssumption
<1> DEFINE kept == pending[m] \cup HandsOver(t)
           flushes == remaining[m] = 1 /\ kept # {}
<1>2. /\ pc[t] = "releasing" /\ closing[t] = {} /\ todo[t] = {}
      /\ remaining' = [remaining EXCEPT ![m] = @ - 1]
      /\ pending' = [pending EXCEPT ![m] = IF flushes THEN {} ELSE kept]
      /\ earlier' = [earlier EXCEPT ![t] = {r[1] : r \in pending[m]}]
      /\ flushes => BeginRelease(t, "flush", kept)
      /\ ~flushes => pc' = [pc EXCEPT ![t] = "finished"] /\ UNCHANGED <<phase, todo>>
      /\ UNCHANGED <<store, at, closing, fate, stage, sweep, ghost>>
  BY <1>1 DEF PhaseEnds
<1>3. kept \subseteq Refs /\ \A r \in pending[m] : r[1] \in Tests
  BY AcquiredFacts DEF IInv, TypeOK, Refs, HandsOver, OfModule
<1>4. /\ pc'[t] = IF flushes THEN "releasing" ELSE "finished"
      /\ flushes => phase'[t] = "flush"
      /\ \A u \in Tests : u # t => pc'[u] = pc[u] /\ phase'[u] = phase[u] /\ todo'[u] = todo[u]
      /\ todo'[t] = IF flushes THEN kept ELSE {}
      /\ pending'[m] = IF flushes THEN {} ELSE kept
      /\ remaining'[m] = remaining[m] - 1
      /\ \A n \in Modules : n # m => pending'[n] = pending[n] /\ remaining'[n] = remaining[n]
  <2>1. CASE flushes  BY <1>1, <1>2, <2>1 DEF IInv, TypeOK, BeginRelease
  <2>2. CASE ~flushes  BY <1>1, <1>2, <2>2 DEF IInv, TypeOK
  <2> QED BY <2>1, <2>2
<1>5. /\ pc' \in [Tests -> {"new", "setup", "building", "parked", "woken", "calling",
                            "releasing"} \cup Ended]
      /\ phase' \in [Tests -> {"none", "unwind", "teardown", "flush"}]
      /\ todo' \in [Tests -> SUBSET Refs] /\ pending' \in [Modules -> SUBSET Refs]
      /\ earlier' \in [Tests -> SUBSET Tests]
  <2>1. earlier' \in [Tests -> SUBSET Tests]
    BY <1>2, <1>3 DEF IInv, TypeOK
  <2>2. pending' \in [Modules -> SUBSET Refs]
    BY <1>2, <1>3 DEF IInv, TypeOK
  <2>3. CASE flushes
    <3>1. /\ pc' = [pc EXCEPT ![t] = "releasing"] /\ phase' = [phase EXCEPT ![t] = "flush"]
          /\ todo' = [todo EXCEPT ![t] = kept] /\ kept \in SUBSET Refs
      BY <1>2, <1>3, <2>3 DEF BeginRelease
    <3> HIDE DEF kept, flushes
    <3> QED BY <2>1, <2>2, <3>1 DEF IInv, TypeOK
  <2>4. CASE ~flushes
    BY <1>2, <1>3, <2>1, <2>2, <2>4 DEF IInv, TypeOK, Ended
  <2> QED BY <2>3, <2>4
<1>6. HandsOver(t) = {t} \X OfModule(Acquired(t))  BY DEF HandsOver
<1>7. /\ remaining[m] = Cardinality(Unreported(m)) /\ t \in Unreported(m)
      /\ remaining[m] \in Nat \ {0}
  <2>1. t \in Unreported(m)  BY <1>1, <1>2 DEF Unreported, Reported, Flushes
  <2>2. remaining[m] = Cardinality(Unreported(m))  BY DEF IInv, Reports
  <2>3. remaining[m] # 0  BY <2>1, <2>2, UnreportedFacts, FS_EmptySet
  <2> QED BY <2>1, <2>2, <2>3, UnreportedFacts
<1> HIDE DEF kept
<1>8. kept = pending[m] \cup {t} \X OfModule(Acquired(t))  BY <1>6 DEF kept
<1>nf. ~flushes => remaining[m] # 1 \/ kept = {}  OBVIOUS
<1>fl. flushes => remaining[m] = 1  OBVIOUS
<1> HIDE DEF flushes
<1> USE DEF store, fate, ghost
<1>9. AtKept /\ AtGrows /\ StillPast /\ stage = "suite" /\ stage' = "suite"
  BY <1>2, <1>4, AtFrame, TaskSteps DEF StillPast, Ended
<1>10. \A u \in Tests : /\ Reported(u)' <=> Reported(u) \/ u = t
                        /\ Flushes(u)' <=> Flushes(u) \/ (u = t /\ flushes)
  BY <1>2, <1>4 DEF Reported, Flushes
<1>11. \A u \in Tests, j \in Keys : Owed(u, j)' <=> Owed(u, j) \/ (u = t /\ j \in OfModule(Acquired(t)))
  <2> SUFFICES ASSUME NEW r \in Refs
               PROVE  /\ ((\E w \in Tests : r \in todo'[w]) \/ (\E n \in Modules : r \in pending'[n]))
                         <=> \/ (\E w \in Tests : r \in todo[w]) \/ (\E n \in Modules : r \in pending[n])
                             \/ r \in {t} \X OfModule(Acquired(t))
    BY DEF Owed, Refs
  <2>1. CASE flushes  BY <1>2, <1>4, <1>8, <2>1
  <2>2. CASE ~flushes  BY <1>2, <1>4, <1>8, <2>2
  <2> QED BY <2>1, <2>2
<1>12. HoldsKept /\ \A u \in Tests, k \in Keys : Waits(u, k)' <=> Waits(u, k)
  <2> SUFFICES ASSUME NEW u \in Tests, NEW k \in Keys
               PROVE  (Holds(u, k)' <=> Holds(u, k)) /\ (Waits(u, k)' <=> Waits(u, k))
    BY DEF HoldsKept
  <2>1. Uses(u, k)' <=> Uses(u, k)  BY <1>2, <1>4, <1>9 DEF Uses, InSetup, AtKept
  <2>2. u # t => (Keeps(u, k)' <=> Keeps(u, k))
    BY <1>4, <1>9 DEF Keeps, AtKept, OfModule
  <2>3. ~Keeps(t, k)' /\ (Keeps(t, k) <=> k \in OfModule(Acquired(t)))
    BY <1>2, <1>4 DEF Keeps
  <2>4. Waits(u, k)' <=> Waits(u, k)  BY <1>2, <1>4, <1>9 DEF Waits, AtKept
  <2> QED BY <1>2, <1>11, <2>1, <2>2, <2>3, <2>4 DEF Holds
<1>13. TypeOK'
  BY <1>1, <1>2, <1>4, <1>5, <1>7 DEF IInv, TypeOK
<1>14. Places'  BY <1>2, <1>4, <1>9 DEF IInv, Places, Ended
<1>15. Constructions'
  BY <1>2, <1>4, <1>9 DEF IInv, Constructions, SingleFlight, AtKept
<1>16. Instances' /\ Past'  BY <1>2, <1>9, PastKept DEF IInv, Instances
<1>17. Closers'  BY <1>2, <1>4, ClosersKept
<1>18. Reports'
  <2>1. \A n \in Modules : remaining'[n] = Cardinality(Unreported(n)')
    <3> SUFFICES ASSUME NEW n \in Modules PROVE remaining'[n] = Cardinality(Unreported(n)')
      OBVIOUS
    <3>1. CASE n = m
      <4>1. Unreported(m)' = Unreported(m) \ {t}  BY <1>10 DEF Unreported
      <4> QED BY <1>1, <1>4, <1>7, <3>1, <4>1, UnreportedFacts, FS_RemoveElement
    <3>2. CASE n # m
      <4>1. Unreported(n)' = Unreported(n)  BY <1>1, <1>10, <3>2 DEF Unreported
      <4> QED BY <1>4, <3>2, <4>1 DEF IInv, Reports
    <3> QED BY <3>1, <3>2
  <2>2. ASSUME NEW n \in Modules, remaining'[n] = 0  PROVE pending'[n] = {}
    <3>1. CASE n = m  BY <1>4, <1>7, <1>nf, <2>2, <3>1
    <3>2. CASE n # m  BY <1>4, <2>2, <3>2 DEF IInv, Reports
    <3> QED BY <3>1, <3>2
  <2>3. \A u \in Tests : Flushes(u) => ModuleOf[u] # m /\ ModuleOf[u] \in Modules
    BY <1>7, PlanAssumption DEF IInv, Reports
  <2>4. \A u \in Tests : Flushes(u)' => remaining'[ModuleOf[u]] = 0
    BY <1>1, <1>4, <1>7, <1>10, <1>fl, <2>3 DEF IInv, Reports
  <2>5. \A u, w \in Tests : Flushes(u)' /\ Flushes(w)' /\ ModuleOf[u] = ModuleOf[w] => u = w
    BY <1>1, <1>10, <2>3 DEF IInv, Reports
  <2> QED BY <2>1, <2>2, <2>4, <2>5 DEF Reports
<1>19. Owing'
  <2>1. ASSUME NEW r \in kept
        PROVE  r[1] \in Tests /\ r[2] \in OfModule(Acquired(r[1])) /\ ModuleOf[r[1]] = m
               /\ (pc[r[1]] = "finished" \/ r[1] = t)
    BY <1>1, <1>3, <1>8 DEF IInv, Owing
  <2>2. ASSUME NEW u \in Tests, NEW r \in todo'[u]
        PROVE  /\ r[2] \in Acquired(r[1])'
               /\ phase'[u] = "flush" => ScopeOf[r[2]] = "module" /\ ModuleOf[r[1]] = ModuleOf[u]
               /\ phase'[u] # "flush" => ScopeOf[r[2]] # "module" /\ r[1] = u
    <3>1. CASE u = t
      <4>1. flushes /\ r \in kept  BY <1>4, <2>2, <3>1
      <4> QED BY <1>1, <1>4, <1>9, <2>1, <3>1, <4>1 DEF AtKept, OfModule
    <3>2. CASE u # t
      <4>1. r \in todo[u] /\ phase'[u] = phase[u]  BY <1>4, <2>2, <3>2
      <4>2. r[1] \in Tests  BY <4>1 DEF IInv, TypeOK, Refs
      <4> QED BY <1>9, <4>1, <4>2 DEF IInv, Owing, AtKept
    <3> QED BY <3>1, <3>2
  <2>3. ASSUME NEW n \in Modules, NEW r \in pending'[n]
        PROVE  r[2] \in OfModule(Acquired(r[1])') /\ ModuleOf[r[1]] = n /\ pc'[r[1]] = "finished"
    <3>1. CASE n = m
      <4>1. ~flushes /\ r \in kept  BY <1>4, <2>3, <3>1
      <4> QED BY <1>4, <1>9, <2>1, <3>1, <4>1 DEF AtKept, StillPast
    <3>2. CASE n # m
      <4>1. r \in pending[n]  BY <1>4, <2>3, <3>2
      <4>2. r[1] \in Tests  BY <4>1 DEF IInv, TypeOK, Refs
      <4> QED BY <1>9, <4>1, <4>2 DEF IInv, Owing, AtKept, StillPast
    <3> QED BY <3>1, <3>2
  <2> QED BY <2>2, <2>3 DEF Owing, OfModule
<1>20. Leaks'
  <2>1. ASSUME NEW u \in Tests, NEW k \in Keys, u \in leaked[k], Owed(u, k)'
        PROVE  Owed(u, k)
    <3>1. ~Reported(t)  BY <1>2 DEF Reported, Flushes
    <3>2. u = t => ScopeOf[k] # "module"  BY <2>1, <3>1 DEF IInv, Leaks
    <3> QED BY <1>11, <2>1, <3>2 DEF OfModule
  <2> QED BY <1>2, <1>9, <1>10, <2>1, LeaksKept
<1>21. Held' /\ Alive'  BY <1>2, <1>9, <1>12, HeldKept, AliveKept
<1>22. RefcountExact'  BY <1>2, <1>12, RefcountKept DEF HoldsKept, Ref
<1>23. Ordered'
  <2>1. InOrder(kept)
    <3> SUFFICES ASSUME NEW u \in Tests, NEW d \in Keys, <<u, d>> \in kept, NEW k \in DependsOn[d],
                        ScopeOf[k] = "module" <=> ScopeOf[d] = "module"
                 PROVE  <<u, k>> \in kept
      BY DEF InOrder
    <3>1. CASE <<u, d>> \in pending[m]
      BY <1>8, <3>1 DEF IInv, Ordered, InOrder
    <3>2. CASE <<u, d>> \in {t} \X OfModule(Acquired(t))
      <4>1. u = t /\ d \in Acquired(t) /\ ScopeOf[d] = "module"  BY <3>2 DEF OfModule
      <4>2. k \in Acquired(t)  BY <4>1, AcquiredFacts DEF IInv
      <4> QED BY <1>8, <4>1, <4>2 DEF OfModule
    <3> QED BY <1>8, <3>1, <3>2
  <2>2. InOrder({})  BY DEF InOrder
  <2>3. \A u \in Tests : InOrder(todo'[u])
    BY <1>2, <1>4, <2>1, <2>2 DEF IInv, Ordered
  <2>4. \A n \in Modules : InOrder(pending'[n])
    BY <1>4, <2>1, <2>2 DEF IInv, Ordered
  <2>5. (\A u \in Tests : InOrder(todo[u]))' /\ (\A n \in Modules : InOrder(pending[n]))'
    BY <2>3, <2>4 DEF InOrder
  <2> QED BY <1>2, <2>5 DEF IInv, Ordered, Present
<1>24. DependentsFirst' /\ NoInheritedInterrupt' /\ Sweeping'
  BY <1>2, <1>9, FixturesKept, BlameKept, SweepingKept
<1> QED BY <1>13, <1>14, <1>15, <1>16, <1>17, <1>18, <1>19, <1>20, <1>21, <1>22, <1>23, <1>24 DEF IInv

-----------------------------------------------------------------------------
(* aclose. *)

(* While tasks run, the fixtures of a module whose tests have all ended    *)
(* are gone: whoever could hold, build or close one has not ended.         *)
LEMMA ModuleOver ==
    ASSUME IInv, stage = "suite"
    PROVE  ModuleClosed
<1> SUFFICES ASSUME NEW m \in Modules, remaining[m] = 0,
                    \A u \in Tests : ModuleOf[u] = m => pc[u] \in Ended,
                    NEW t \in Tests, ModuleOf[t] = m, NEW k \in KeysOf(t), ScopeOf[k] = "module",
                    ~Gone(k), leaked[k] = {}
             PROVE  FALSE
  BY DEF ModuleClosed
<1>1. k \in Keys /\ inst[k] \in {"building", "up", "closing"}
  BY PlanType DEF Gone, IInv, TypeOK
<1>2. \A u \in Tests : k \in KeysOf(u) => pc[u] \in Ended /\ ModuleOf[u] = m
  BY PlanAssumption
<1>3. CASE inst[k] = "building"
  <2>1. PICK u \in Tests : pc[u] = "building" /\ Wanted(u) = k
    BY <1>1, <1>3 DEF IInv, Instances, Constructions
  <2>2. k \in KeysOf(u)  BY <2>1, AcquiredFacts DEF IInv, Places
  <2> QED BY <1>2, <2>1, <2>2 DEF Ended
<1>4. CASE inst[k] = "closing"
  <2>1. PICK u \in Tests : k \in closing[u]  BY <1>1, <1>4 DEF IInv, Instances
  <2>2. pc[u] = "releasing" /\ ModuleOf[t] = ModuleOf[u]  BY <2>1 DEF IInv, Places, Closers
  <2> QED BY <2>2 DEF Ended
<1>5. CASE inst[k] = "up"
  <2>1. PICK u \in Tests : Holds(u, k)  BY <1>1, <1>5 DEF IInv, Alive, Instances
  <2>2. k \in KeysOf(u)  BY <1>1, <2>1, HoldsFacts, AcquiredFacts DEF IInv
  <2>3. Owed(u, k)
    BY <1>2, <2>1, <2>2 DEF Holds, Uses, Keeps, InSetup, Ended
  <2>4. CASE \E w \in Tests : <<u, k>> \in todo[w]
    <3>1. PICK w \in Tests : <<u, k>> \in todo[w]  BY <2>4
    <3>2. pc[w] = "releasing" /\ ModuleOf[u] = ModuleOf[w]
      BY <3>1 DEF IInv, Places, Owing
    <3> QED BY <1>2, <2>2, <3>2 DEF Ended
  <2>5. CASE \E n \in Modules : <<u, k>> \in pending[n]
    BY <1>2, <2>2, <2>5 DEF IInv, Owing, Reports
  <2> QED BY <2>3, <2>4, <2>5 DEF Owed
<1> QED BY <1>1, <1>3, <1>4, <1>5

(* aclose changes nothing of the tests.                                    *)
LEMMA AcloseFrame ==
    ASSUME IInv, UNCHANGED <<refcount, task, pending, earlier, remaining, leaked>>,
           stage' # "suite", \A u \in Tests : pc[u] \in Ended
    PROVE  /\ Places' /\ Past' /\ Reports' /\ Owing' /\ Leaks' /\ Held' /\ Alive'
           /\ HoldsKept /\ AtKept
           /\ \A u \in Tests : todo[u] = {} /\ closing[u] = {}
           /\ \A u \in Tests, k \in Keys : ~Waits(u, k)' /\ ~Waits(u, k)
           /\ (\A k \in Keys : entry'[k] # "absent" => entry[k] # "absent") => RefcountExact'
<1> USE DEF task
<1>1. AtKept /\ AtGrows /\ StillPast  BY AtFrame DEF StillPast
<1>2. \A u \in Tests : (Reported(u)' <=> Reported(u)) /\ (Flushes(u)' <=> Flushes(u))
  BY DEF Reported, Flushes
<1>3. HoldsKept
  BY <1>1 DEF HoldsKept, Holds, Uses, Keeps, Owed, InSetup, OfModule, AtKept
<1>4. \A u \in Tests, k \in Keys : ~Waits(u, k)' /\ ~Waits(u, k)
  BY DEF Waits, Ended
<1>5. \A u \in Tests : todo[u] = {} /\ closing[u] = {}
  BY DEF IInv, Places, Ended
<1>6. Places' /\ Past'  BY <1>5 DEF IInv, Places, Past
<1>7. Reports' /\ Owing' /\ Leaks'
  BY <1>1, <1>2, ReportsKept, OwingKept, LeaksKept DEF Owed
<1>8. Held' /\ Alive'  BY DEF Held, Alive
<1>9. ASSUME \A k \in Keys : entry'[k] # "absent" => entry[k] # "absent"
      PROVE  RefcountExact'
  BY <1>3, <1>4, <1>9, RefcountKept DEF HoldsKept, Ref
<1> QED BY <1>1, <1>3, <1>4, <1>5, <1>6, <1>7, <1>8, <1>9

(* aclose takes over the entries that are left.                            *)
LEMMA AcloseBeginsStep ==
    ASSUME IInv, AcloseBegins
    PROVE  IInv'
<1>1. /\ stage = "suite" /\ stage' = "aclose" /\ sweep' = Present
      /\ \A u \in Tests : pc[u] \in Ended
      /\ UNCHANGED <<store, task, fate, pending, earlier, remaining, ghost>>
  BY DEF AcloseBegins
<1> USE DEF store, task, fate, ghost
<1>2. /\ Places' /\ Past' /\ Reports' /\ Owing' /\ Leaks' /\ Held' /\ Alive' /\ AtKept
      /\ \A u \in Tests : closing[u] = {}
      /\ RefcountExact'
  BY <1>1, AcloseFrame
<1>3. TypeOK'  BY <1>1 DEF IInv, TypeOK, Present
<1>4. Constructions'  BY <1>1, <1>2 DEF IInv, Constructions, SingleFlight, AtKept
<1>5. Instances' /\ Closers'  BY <1>1, <1>2 DEF IInv, Instances, Closers
<1>6. Ordered' /\ DependentsFirst' /\ NoInheritedInterrupt'
  BY <1>1, OrderedKept, FixturesKept, BlameKept
<1>7. Sweeping'
  <2>1. ModuleClosed' <=> ModuleClosed  BY <1>1 DEF ModuleClosed, Gone
  <2> QED BY <1>1, <2>1, ModuleOver DEF Sweeping, Present
<1> QED BY <1>2, <1>3, <1>4, <1>5, <1>6, <1>7 DEF IInv

(* It closes the youngest.                                                 *)
LEMMA AclosePopsStep ==
    ASSUME IInv, AclosePops
    PROVE  IInv'
<1>1. PICK k \in sweep :
        /\ Youngest(k) /\ sweep' = sweep \ {k} /\ Drop(k)
        /\ inst' = [inst EXCEPT ![k] = IF entry[k] = "ready" THEN "closing" ELSE @]
  BY DEF AclosePops
<1>2. /\ stage = "aclose" /\ stage' = "aclose" /\ Idle
      /\ UNCHANGED <<refcount, task, fate, pending, earlier, remaining, blame, leaked>>
  BY DEF AclosePops
<1>3. /\ \A u \in Tests : pc[u] \in Ended
      /\ sweep = Present /\ k \in Present /\ k \in Keys
  BY <1>1, <1>2 DEF IInv, Places, Sweeping, TypeOK
<1>4. \A j \in Keys : entry[j] # "building" /\ inst[j] # "building" /\ inst[j] # "closing"
  BY <1>2, <1>3 DEF IInv, Constructions, Instances, Ended, Idle
<1> USE DEF task, fate
<1>5. /\ entry'[k] = "absent"
      /\ inst'[k] = IF entry[k] = "ready" THEN "closing" ELSE inst[k]
      /\ \A j \in Keys : j # k => entry'[j] = entry[j] /\ inst'[j] = inst[j]
      /\ older' = [j \in Keys |-> older[j] \ {k}]
      /\ Present' = Present \ {k}
  BY <1>1, <1>3 DEF IInv, TypeOK, Drop, Present
<1>6. /\ Places' /\ Past' /\ Reports' /\ Owing' /\ Leaks' /\ Held' /\ Alive' /\ AtKept
      /\ \A u \in Tests : closing[u] = {} /\ todo[u] = {}
      /\ RefcountExact'
  BY <1>2, <1>3, <1>5, AcloseFrame
<1>7. TypeOK'  BY <1>1, <1>2, <1>3 DEF IInv, TypeOK, Drop
<1>8. Constructions'
  BY <1>2, <1>3, <1>4, <1>5 DEF Constructions, SingleFlight, Ended
<1>9. Instances' /\ Closers'
  <2>1. ASSUME NEW j \in Keys
        PROVE  /\ entry'[j] = "building" <=> inst'[j] = "building"
               /\ entry'[j] = "ready" => inst'[j] \in {"up", "closing"}
               /\ inst'[j] = "up" => entry'[j] = "ready"
               /\ entry'[j] = "failed" => inst'[j] = "broken"
               /\ inst'[j] = "closing" => entry'[j] = "absent"
               /\ inst'[j] # "none" => \E u \in Tests : j \in KeysOf(u)
    <3>1. CASE j = k
      <4>1. entry[k] \in {"ready", "failed"}  BY <1>3, <1>4 DEF Present, IInv, TypeOK
      <4> QED BY <1>4, <1>5, <3>1, <4>1 DEF IInv, Instances
    <3>2. CASE j # k  BY <1>4, <1>5, <3>2 DEF IInv, Instances
    <3> QED BY <3>1, <3>2
  <2>2. Instances'  BY <1>2, <2>1 DEF Instances
  <2>3. Closers'  BY <1>2, <1>6 DEF Closers
  <2> QED BY <2>2, <2>3
<1>10. \A j \in Keys : /\ inst'[j] # "none" <=> inst[j] # "none"
                       /\ inst[j] \in {"up", "closing", "down"} => inst'[j] \in {"up", "closing", "down"}
                       /\ inst[j] = "broken" => inst'[j] = "broken"
                       /\ Gone(j) => Gone(j)'
  BY <1>4, <1>5 DEF IInv, Instances, Gone
<1>11. Ordered'
  <2>1. (\A u \in Tests : InOrder(todo[u]))' /\ (\A m \in Modules : InOrder(pending[m]))'
    BY <1>2 DEF IInv, Ordered, InOrder
  <2> QED BY <1>5, <1>10, <2>1, PlanAssumption DEF IInv, Ordered
(* The youngest entry: nothing still there was built on it. *)
<1>12. entry[k] = "ready" => \A d \in Keys : k \in DependsOn[d] => Gone(d)
  <2> SUFFICES ASSUME entry[k] = "ready", NEW d \in Keys, k \in DependsOn[d], ~Gone(d)
               PROVE  FALSE
    OBVIOUS
  <2>1. inst[d] = "up" /\ d \in Present
    BY <1>4 DEF Gone, IInv, TypeOK, Instances, Present
  <2>2. PICK t \in Tests : d \in KeysOf(t)  BY <2>1 DEF IInv, Instances
  <2>3. PICK i \in 1..Len(Plan[t]) : Plan[t][i] = d  BY <2>2, PlanType DEF Prefix
  <2>4. d # k
    <3>1. i \in 1..(Len(Plan[t]) + 1) /\ i <= Len(Plan[t])  BY <2>3, PlanType
    <3> QED BY <2>3, <3>1, PrefixFacts
  <2>5. d \in older[k]  BY <1>1, <1>3, <2>1, <2>4 DEF Youngest
  <2> QED BY <1>3, <2>5 DEF IInv, Ordered
<1>13. DependentsFirst'
  <2> SUFFICES ASSUME NEW j \in Keys, NEW d \in Keys, j \in DependsOn[d], inst'[j] \in {"closing", "down"}
               PROVE  Gone(d)' \/ leaked'[d] # {}
    BY DEF DependentsFirst
  <2>1. Gone(d) \/ leaked[d] # {}
    BY <1>5, <1>12 DEF IInv, DependentsFirst
  <2> QED BY <1>2, <1>10, <2>1
<1>14. NoInheritedInterrupt'  BY <1>2, <1>10, BlameKept
<1>15. Sweeping'
  <2>1. ModuleClosed'
    <3> SUFFICES ASSUME NEW m \in Modules, remaining'[m] = 0, \A u \in Tests : ModuleOf[u] = m => pc'[u] \in Ended,
                        NEW t \in Tests, ModuleOf[t] = m, NEW j \in KeysOf(t), ScopeOf[j] = "module"
                 PROVE  Gone(j)' \/ leaked'[j] # {}
      BY DEF ModuleClosed
    <3>1. j \in Keys /\ (Gone(j) \/ leaked[j] # {})
      BY <1>2, PlanType DEF IInv, Sweeping, ModuleClosed
    <3> QED BY <1>2, <1>10, <3>1
  <2> QED BY <1>1, <1>2, <1>3, <1>5, <2>1 DEF Sweeping
<1> QED BY <1>6, <1>7, <1>8, <1>9, <1>11, <1>13, <1>14, <1>15 DEF IInv

(* Its closer is through, or the grace is over.                            *)
LEMMA AcloseClosesStep ==
    ASSUME IInv, AcloseCloses
    PROVE  IInv'
<1>1. PICK k \in Keys : inst[k] = "closing" /\ inst' = [inst EXCEPT ![k] = "down"]
  BY DEF AcloseCloses
<1>2. /\ stage = "aclose" /\ stage' = "aclose"
      /\ sweep' = sweep \/ (stopping /\ sweep' = {})
      /\ UNCHANGED <<store, task, fate, pending, earlier, remaining, blame, leaked>>
  BY DEF AcloseCloses
<1> USE DEF store, task, fate
<1>3. \A u \in Tests : pc[u] \in Ended  BY <1>2 DEF IInv, Places
<1>4. /\ Places' /\ Past' /\ Reports' /\ Owing' /\ Leaks' /\ Held' /\ Alive' /\ AtKept
      /\ \A u \in Tests : closing[u] = {}
      /\ RefcountExact'
  BY <1>2, <1>3, AcloseFrame
<1>5. inst'[k] = "down" /\ entry[k] = "absent" /\ \A j \in Keys : j # k => inst'[j] = inst[j]
  BY <1>1, <1>2 DEF IInv, TypeOK, Instances
<1>6. TypeOK'  BY <1>1, <1>2 DEF IInv, TypeOK
<1>7. Constructions'  BY <1>2, <1>4 DEF IInv, Constructions, SingleFlight, AtKept
<1>8. Instances' /\ Closers'
  BY <1>1, <1>2, <1>4, <1>5 DEF IInv, Instances, Closers
<1>9. \A j \in Keys : /\ inst'[j] # "none" <=> inst[j] # "none"
                      /\ inst[j] \in {"up", "closing", "down"} => inst'[j] \in {"up", "closing", "down"}
                      /\ inst'[j] \in {"closing", "down"} => inst[j] \in {"closing", "down"}
                      /\ inst[j] = "broken" => inst'[j] = "broken"
                      /\ Gone(j) => Gone(j)'
  BY <1>1, <1>5 DEF Gone
<1>10. Ordered'
  <2>1. (\A u \in Tests : InOrder(todo[u]))' /\ (\A m \in Modules : InOrder(pending[m]))'
    BY <1>2 DEF IInv, Ordered, InOrder
  <2> QED BY <1>2, <1>9, <2>1, PlanAssumption DEF IInv, Ordered, Present
<1>11. DependentsFirst'  BY <1>2, <1>9 DEF IInv, DependentsFirst
<1>12. NoInheritedInterrupt'  BY <1>2, <1>9, BlameKept
<1>13. Sweeping'
  <2>1. ModuleClosed'
    <3> SUFFICES ASSUME NEW m \in Modules, remaining'[m] = 0, \A u \in Tests : ModuleOf[u] = m => pc'[u] \in Ended,
                        NEW t \in Tests, ModuleOf[t] = m, NEW j \in KeysOf(t), ScopeOf[j] = "module"
                 PROVE  Gone(j)' \/ leaked'[j] # {}
      BY DEF ModuleClosed
    <3>1. j \in Keys /\ (Gone(j) \/ leaked[j] # {})
      BY <1>2, PlanType DEF IInv, Sweeping, ModuleClosed
    <3> QED BY <1>2, <1>9, <3>1
  <2> QED BY <1>2, <2>1 DEF IInv, Sweeping, Present
<1> QED BY <1>4, <1>6, <1>7, <1>8, <1>10, <1>11, <1>12, <1>13 DEF IInv

(* Nothing is left to close.                                               *)
LEMMA AcloseEndsStep ==
    ASSUME IInv, AcloseEnds
    PROVE  IInv'
<1>1. /\ stage = "aclose" /\ stage' = "over" /\ sweep = {} /\ sweep' = {} /\ Idle
      /\ UNCHANGED <<store, task, fate, pending, earlier, remaining, ghost>>
  BY DEF AcloseEnds
<1> USE DEF store, task, fate, ghost
<1>2. \A u \in Tests : pc[u] \in Ended  BY <1>1 DEF IInv, Places
<1>3. /\ Places' /\ Past' /\ Reports' /\ Owing' /\ Leaks' /\ Held' /\ Alive' /\ AtKept
      /\ \A u \in Tests : closing[u] = {}
      /\ RefcountExact'
  BY <1>1, <1>2, AcloseFrame
<1>4. TypeOK'  BY <1>1 DEF IInv, TypeOK
<1>5. Constructions'  BY <1>1, <1>3 DEF IInv, Constructions, SingleFlight, AtKept
<1>6. Instances' /\ Closers'  BY <1>1, <1>3 DEF IInv, Instances, Closers
<1>7. Ordered' /\ DependentsFirst' /\ NoInheritedInterrupt'
  BY <1>1, OrderedKept, FixturesKept, BlameKept
<1>8. Sweeping'
  BY <1>1 DEF IInv, Sweeping, ModuleClosed, Gone, Idle, Present
<1> QED BY <1>3, <1>4, <1>5, <1>6, <1>7, <1>8 DEF IInv

-----------------------------------------------------------------------------
(* The invariant, and what follows from it. *)

(* The invariant holds of a fresh store,                                   *)
LEMMA Initially == Init => IInv
<1> SUFFICES ASSUME Init PROVE IInv
  OBVIOUS
<1> USE DEF Init
<1>1. \A m \in Modules : {t \in Tests : ModuleOf[t] = m} = Unreported(m)
  BY DEF Unreported, Reported, Flushes
<1>2. \A m \in Modules : remaining[m] = Cardinality(Unreported(m)) /\ remaining[m] \in Nat
  BY <1>1, UnreportedFacts
<1>3. TypeOK
  <2>1. remaining \in [Modules -> Nat]  BY <1>2
  <2>2. \A t \in Tests : at[t] \in 1..(Len(Plan[t]) + 1)  BY PlanType
  <2> QED BY <2>1, <2>2 DEF TypeOK
<1>4. \A t \in Tests : Acquired(t) = {}  BY DEF Acquired
<1>5. \A t \in Tests, k \in Keys : ~Ref(t, k) /\ ~Holds(t, k)
  BY DEF Ref, Holds, Waits, Uses, Keeps, Owed, InSetup
<1>6. Places /\ Constructions /\ Instances /\ Closers /\ Past
  BY DEF Places, Constructions, SingleFlight, Instances, Closers, Past
<1>7. Reports /\ Owing /\ Leaks
  BY <1>2 DEF Reports, Owing, Leaks, Flushes
<1>8. Held /\ Alive /\ RefcountExact
  BY <1>5 DEF Held, Alive, RefcountExact
<1>9. Ordered /\ Sweeping /\ NoInheritedInterrupt /\ DependentsFirst
  BY PlanAssumption DEF Ordered, InOrder, Sweeping, NoInheritedInterrupt, DependentsFirst
<1> QED BY <1>3, <1>6, <1>7, <1>8, <1>9 DEF IInv

(* every step keeps it,                                                    *)
LEMMA Inductive == IInv /\ [Next]_vars => IInv'
<1> SUFFICES ASSUME IInv, [Next]_vars PROVE IInv'
  OBVIOUS
<1>1. ASSUME NEW t \in Tests, Setup(t)  PROVE IInv'
  BY <1>1, MovesOn, ConstructStep, ParkStep, ReuseReady, ReuseFailed, BuildEndsStep, BuildFailsStep,
     UnparkReady, WaitOver DEF Setup
<1>2. ASSUME NEW t \in Tests, Leaving(t)  PROVE IInv'
  BY <1>2, CallOver, ReleaseKeyStep, FlushEnds, HandsOverStep DEF Leaving
<1>3. ASSUME NEW t \in Tests, CloseEnds(t) \/ Interrupted(t)  PROVE IInv'
  BY <1>3, InterruptBuildStep, WaitOver, CallOver, ClosedStep DEF Interrupted
<1>4. ASSUME Aclose  PROVE IInv'
  BY <1>4, AcloseBeginsStep, AclosePopsStep, AcloseClosesStep, AcloseEndsStep DEF Aclose
<1>5. ASSUME RequestStop \/ UNCHANGED vars  PROVE IInv'
  BY <1>5, QuietStep
<1> QED BY <1>1, <1>2, <1>3, <1>4, <1>5 DEF Next

(* and so it always holds.                                                 *)
LEMMA Invariance == Spec => []IInv
BY Initially, Inductive, PTL DEF Spec

(* Every variable keeps its type: entries, instances and tasks take the    *)
(* states listed for them, no count falls below zero, and no plan is       *)
(* walked past its end.                                                    *)
THEOREM TypeCorrect == Spec => []TypeOK
<1>1. IInv => TypeOK  BY DEF IInv
<1> QED BY <1>1, Invariance, PTL

(* A test never holds a fixture that is closing or closed: what a task     *)
(* acquired is there until the task itself, or its module after it, gives  *)
(* it back, whatever its siblings, their deadlines and a stop do.          *)
THEOREM HeldStaysUp == Spec => []NoUseAfterClose
<1>1. IInv => NoUseAfterClose
  <2> SUFFICES ASSUME IInv, NEW t \in Tests, NEW k \in Keys, Uses(t, k)
               PROVE  entry[k] = "ready" /\ inst[k] = "up"
    BY DEF NoUseAfterClose
  <2>1. stage = "suite"  BY TaskSteps DEF Uses, InSetup, Ended
  <2> QED BY <2>1, HeldIsUp DEF Holds
<1> QED BY <1>1, Invariance, PTL

(* acquire() makes one task the constructor of a key: two concurrent       *)
(* askers never both construct it.                                         *)
THEOREM OneConstructor == Spec => []SingleFlight
<1>1. IInv => SingleFlight  BY DEF IInv, Constructions
<1> QED BY <1>1, Invariance, PTL

(* A setup that fails without being interrupted itself failed on a         *)
(* fixture of its plan that broke: acquire() drops an interrupted          *)
(* construction from the store instead of caching its CancelledError.      *)
THEOREM InterruptsAreOwn == Spec => []NoInheritedInterrupt
<1>1. IInv => NoInheritedInterrupt  BY DEF IInv
<1> QED BY <1>1, Invariance, PTL

(* acquire() and release() keep _Entry.refcount equal to the number of     *)
(* tests that use the entry, wait for it or have yet to give it back, and  *)
(* those whose interrupted release dropped it.                             *)
THEOREM CountsAreExact == Spec => []RefcountExact
<1>1. IInv => RefcountExact  BY DEF IInv
<1> QED BY <1>1, Invariance, PTL

(* When every test of a module has reported, the module's keys have gone   *)
(* from pending_module_keys to the last test and from it to their closers. *)
THEOREM ModulesAreClosed == Spec => []ModuleClosed
<1>1. IInv => ModuleClosed
  <2>1. ASSUME IInv, stage # "suite"  PROVE ModuleClosed
    BY <2>1 DEF IInv, Sweeping
  <2> QED BY <2>1, ModuleOver
<1> QED BY <1>1, Invariance, PTL

(* aclose() leaves no entry and no instance behind, unless the run was     *)
(* stopped and its grace cut aclose short.                                 *)
THEOREM NothingIsLeft == Spec => []NothingLeft
<1>1. IInv => NothingLeft
  <2> SUFFICES ASSUME IInv, stage = "over", ~stopping, NEW k \in Keys
               PROVE  Gone(k) /\ entry[k] = "absent"
    BY DEF NothingLeft
  <2>1. entry[k] = "absent" /\ inst[k] # "closing"
    BY DEF IInv, Sweeping, Present, Idle
  <2> QED BY <2>1 DEF IInv, TypeOK, Instances, Gone
<1> QED BY <1>1, Invariance, PTL

(* No fixture is closed under a dependent that lives: the reverse order    *)
(* of _release_all and of aclose() closes dependents before what they are  *)
(* built from, across tests, modules and the session.                      *)
THEOREM DependentsGoFirst == Spec => []DependentsFirst
<1>1. IInv => DependentsFirst  BY DEF IInv
<1> QED BY <1>1, Invariance, PTL

(* A construction starts only where there was none, or where one was       *)
(* interrupted: no step but Construct starts one, and Construct finds      *)
(* neither a closed nor a broken instance in its place.                    *)
THEOREM NothingIsRebuilt == Spec => NeverRebuilt
<1> DEFINE Fresh == \A k \in Keys : inst[k] # inst'[k] /\ inst'[k] = "building" => inst[k] = "none"
<1>1. IInv /\ Next => Fresh
  <2> SUFFICES ASSUME IInv, Next, NEW k \in Keys, inst[k] # inst'[k], inst'[k] = "building"
               PROVE  inst[k] = "none"
    OBVIOUS
  <2>1. ASSUME NEW t \in Tests, Construct(t)  PROVE inst[k] = "none"
    <3>1. inst' = [inst EXCEPT ![Wanted(t)] = "building"]  BY <2>1 DEF Construct
    <3>2. k = Wanted(t)  BY <3>1 DEF IInv, TypeOK
    <3> QED BY <2>1, <3>2, ConstructStep
  <2>2. ASSUME NEW t \in Tests, Setup(t), ~Construct(t)  PROVE FALSE
    BY <2>2 DEF Setup, Start, Park, Reuse, BuildEnds, BuildFails, Unpark, Retry, Call, ghost, IInv, TypeOK
  <2>3. ASSUME NEW t \in Tests, Leaving(t) \/ CloseEnds(t)  PROVE FALSE
    BY <2>3 DEF Leaving, CallEnds, ReleaseKey, PhaseEnds, CloseEnds, Closed, ghost, IInv, TypeOK
  <2>4. ASSUME NEW t \in Tests, Interrupted(t)  PROVE FALSE
    BY <2>4 DEF Interrupted, InterruptBuild, InterruptWait, InterruptCall, InterruptClose, GraceExpires,
                CutShort, Closed, ghost, IInv, TypeOK
  <2>5. ASSUME RequestStop \/ Aclose  PROVE FALSE
    BY <2>5 DEF RequestStop, Aclose, AcloseBegins, AclosePops, AcloseCloses, AcloseEnds, ghost, IInv, TypeOK
  <2> QED BY <2>1, <2>2, <2>3, <2>4, <2>5 DEF Next
<1>2. IInv /\ UNCHANGED vars => Fresh  BY DEF vars, ghost
<1>3. IInv /\ [Next]_vars => [Fresh]_vars  BY <1>1, <1>2
<1> QED BY <1>3, Invariance, PTL DEF Spec, NeverRebuilt
=============================================================================
