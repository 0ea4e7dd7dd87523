------------------------ MODULE AdmissionGateProofs ------------------------
(***************************************************************************)
(* What holds of the gate for every suite, every choice of tokens and solo *)
(* marks, and every concurrency.  The heart is the lemma on _wake: a scan  *)
(* that books waiters one by one leaves a set of holders that may run side *)
(* by side, counted exactly, and no waiter that would still fit.           *)
(***************************************************************************)
EXTENDS AdmissionGate, FiniteSetTheorems, WellFoundedInduction, TLAPS

(* The gate state g accounts for exactly the tests of H. *)
Accounts(g, H) ==
    /\ g.running = Cardinality(H)
    /\ g.tokens = UNION {TokensOf[t] : t \in H \ SoloTests}
    /\ g.solo <=> H \cap SoloTests # {}

(* The tests of H may run side by side. *)
Together(H) ==
    /\ Cardinality(H) <= Concurrency
    /\ \A t \in H \cap SoloTests : H = {t}
    /\ \A t, u \in H : t # u => TokensOf[t] \cap TokensOf[u] = {}

IInv == TypeOK /\ Exclusion /\ Bookkeeping /\ NoLostWakeup /\ QueueAccurate

-----------------------------------------------------------------------------
(* The order of the deque. *)

Ordered ==
    /\ \A t \in waiters : ahead[t] \subseteq waiters \ {t}
    /\ \A t, u \in waiters : t # u => (t \in ahead[u] <=> u \notin ahead[t])
    /\ \A t, u \in waiters : t \in ahead[u] => ahead[t] \subseteq ahead[u]

(* A finite set of waiters has a last one. *)
LEMMA LastWaiter ==
    ASSUME Ordered, NEW A, A \subseteq waiters, IsFiniteSet(A), A # {}
    PROVE  \E t \in A : A \cap ahead[t] = A \ {t}
<1> DEFINE Behind(t) == A \ (ahead[t] \cup {t})
           Tails == {Behind(t) : t \in A}
<1>1. Tails \subseteq FiniteSubsetsOf(A)
  BY FS_Subset DEF FiniteSubsetsOf
<1>2. IsWellFoundedOn(StrictSubsetOrdering(A), FiniteSubsetsOf(A))
  BY FS_StrictSubsetOrderingWellFounded
<1>3. Tails # {}  OBVIOUS
<1> HIDE DEF Tails
<1>4. PICK s \in Tails : \A r \in Tails : <<r, s>> \notin StrictSubsetOrdering(A)
  BY <1>1, <1>2, <1>3, WFMin
<1> USE DEF Tails
<1>5. PICK t \in A : s = Behind(t)  OBVIOUS
<1>6. s = {}
  <2> SUFFICES ASSUME NEW u \in s PROVE FALSE  OBVIOUS
  <2>1. u \in A /\ u # t /\ t \in ahead[u]
    BY <1>5 DEF Ordered
  <2>2. Behind(u) \subseteq s /\ u \notin Behind(u)
    BY <1>5, <2>1 DEF Ordered
  <2>3. <<Behind(u), s>> \in StrictSubsetOrdering(A)
    BY <1>5, <2>2 DEF StrictSubsetOrdering
  <2> QED BY <1>4, <2>1, <2>3
<1> QED BY <1>5, <1>6 DEF Ordered

-----------------------------------------------------------------------------
(* Booking. *)

(* The holders are finitely many. *)
LEMMA HoldersFinite ==
    /\ IsFiniteSet(Holders)
    /\ Holders \subseteq Tests
    /\ Cardinality(Holders) \in Nat
<1>1. Holders \subseteq Tests  BY DEF Holders, Admitted
<1> QED BY <1>1, FS_Subset, FS_CardinalityType, GateAssumption

(* Booking the tests of A beside H accounts for both. *)
LEMMA TakenAccounts ==
    ASSUME NEW g, NEW H, NEW A, IsFiniteSet(H), IsFiniteSet(A), H \cap A = {},
           Accounts(g, H)
    PROVE  Accounts(Taken(g, A), H \cup A)
<1>1. Cardinality(H \cup A) = Cardinality(H) + Cardinality(A)
  <2>1. Cardinality(H \cap A) = 0  BY FS_EmptySet
  <2>2. Cardinality(H) \in Nat /\ Cardinality(A) \in Nat  BY FS_CardinalityType
  <2>3. Cardinality(H \cup A) = Cardinality(H) + Cardinality(A) - Cardinality(H \cap A)
    BY FS_Union
  <2> QED BY <2>1, <2>2, <2>3
<1>2. UNION {TokensOf[t] : t \in (H \cup A) \ SoloTests}
        = (UNION {TokensOf[t] : t \in H \ SoloTests})
            \cup (UNION {TokensOf[t] : t \in A \ SoloTests})
  OBVIOUS
<1> QED BY <1>1, <1>2 DEF Accounts, Taken

(* Giving back the booking of t accounts for the other holders. *)
LEMMA GivenBackAccounts ==
    ASSUME NEW H, IsFiniteSet(H), NEW t \in H, Accounts(gate, H), Together(H)
    PROVE  /\ Accounts(GivenBack(gate, t), H \ {t})
           /\ Together(H \ {t})
<1> DEFINE R == H \ {t}
<1>1. IsFiniteSet(R) /\ Cardinality(R) = Cardinality(H) - 1
  BY FS_RemoveElement
<1>2. Cardinality(H) \in Nat /\ Cardinality(R) \in Nat
  BY <1>1, FS_CardinalityType
<1>3. Together(R)
  BY <1>1, <1>2, GateAssumption DEF Together
<1>4. (t \in SoloTests => R = {}) /\ (t \notin SoloTests => R \cap SoloTests = H \cap SoloTests)
  BY DEF Together
<1>5. GivenBack(gate, t).tokens = UNION {TokensOf[u] : u \in R \ SoloTests}
  <2>1. CASE t \in SoloTests
    <3>1. H \ SoloTests = {} /\ R \ SoloTests = {}  BY <1>4, <2>1
    <3> QED BY <2>1, <3>1 DEF GivenBack, Accounts
  <2>2. CASE t \notin SoloTests
    <3>1. \A u \in R : TokensOf[u] \cap TokensOf[t] = {}  BY DEF Together
    <3>2. (UNION {TokensOf[u] : u \in H \ SoloTests}) \ TokensOf[t]
            = UNION {TokensOf[u] : u \in R \ SoloTests}
      BY <3>1
    <3> QED BY <2>2, <3>2 DEF GivenBack, Accounts
  <2> QED BY <2>1, <2>2
<1>6. GivenBack(gate, t).solo <=> R \cap SoloTests # {}
  BY <1>4 DEF GivenBack, Accounts
<1>7. GivenBack(gate, t).running = Cardinality(R)
  BY <1>1 DEF GivenBack, Accounts
<1> QED BY <1>3, <1>5, <1>6, <1>7 DEF Accounts

(* What _admits says of a gate that accounts for H. *)
LEMMA AdmitsMeaning ==
    ASSUME NEW g, NEW H, IsFiniteSet(H), Accounts(g, H), NEW t,
           \A u \in H : u \in Tests
    PROVE  Admits(g, t) <=> IF t \in SoloTests
                            THEN H = {}
                            ELSE /\ Cardinality(H) < Concurrency
                                 /\ H \cap SoloTests = {}
                                 /\ \A u \in H : TokensOf[u] \cap TokensOf[t] = {}
<1>1. Cardinality(H) = 0 <=> H = {}
  BY FS_EmptySet
<1>2. CASE t \in SoloTests
  BY <1>1, <1>2 DEF Admits, Accounts
<1>3. CASE t \notin SoloTests /\ H \cap SoloTests = {}
  <2>1. H \ SoloTests = H  BY <1>3
  <2>2. g.tokens = UNION {TokensOf[u] : u \in H}  BY <2>1 DEF Accounts
  <2>3. g.tokens \cap TokensOf[t] = {} <=> \A u \in H : TokensOf[u] \cap TokensOf[t] = {}
    BY <2>2
  <2> QED BY <1>3, <2>3 DEF Admits, Accounts
<1>4. CASE t \notin SoloTests /\ H \cap SoloTests # {}
  BY <1>4 DEF Admits, Accounts
<1> QED BY <1>2, <1>3, <1>4

-----------------------------------------------------------------------------
(* The scan of _wake. *)

(* From a gate that accounts for H, the set A that a scan admits may run   *)
(* beside H, is booked exactly, and leaves no live waiter that would fit.  *)
LEMMA WakeSound ==
    ASSUME Ordered, waiters \subseteq Tests,
           NEW g, NEW H, H \subseteq Tests, Accounts(g, H), Together(H), H \cap waiters = {},
           NEW A, A \subseteq waiters, Greedy(g, A)
    PROVE  /\ Accounts(Taken(g, A), H \cup A)
           /\ Together(H \cup A)
           /\ \A t \in waiters \ A : Live(t) => ~Admits(Taken(g, A), t)
<1>1. IsFiniteSet(H) /\ IsFiniteSet(A) /\ H \cap A = {}
  BY FS_Subset, GateAssumption
<1> DEFINE Front(t) == A \cap ahead[t]
<1>2. ASSUME NEW t \in waiters
      PROVE  /\ IsFiniteSet(H \cup Front(t))
             /\ H \cup Front(t) \subseteq Tests
             /\ Accounts(AsReached(g, A, t), H \cup Front(t))
  <2>1. IsFiniteSet(Front(t)) /\ H \cap Front(t) = {}
    BY <1>1, FS_Subset
  <2>2. IsFiniteSet(H \cup Front(t))  BY <1>1, <2>1, FS_Union
  <2>3. Accounts(Taken(g, Front(t)), H \cup Front(t))
    BY <1>1, <2>1, TakenAccounts
  <2> QED BY <2>2, <2>3 DEF AsReached
<1>3. ASSUME NEW t \in A
      PROVE  IF t \in SoloTests
             THEN H \cup Front(t) = {}
             ELSE /\ Cardinality(H \cup Front(t)) < Concurrency
                  /\ (H \cup Front(t)) \cap SoloTests = {}
                  /\ \A u \in H \cup Front(t) : TokensOf[u] \cap TokensOf[t] = {}
  <2>1. Admits(AsReached(g, A, t), t)  BY DEF Greedy
  <2>2. \A u \in H \cup Front(t) : u \in Tests  BY <1>2
  <2> HIDE DEF Front
  <2> QED BY <1>2, <2>1, <2>2, AdmitsMeaning
<1>4. Accounts(Taken(g, A), H \cup A)
  BY <1>1, TakenAccounts
<1>5. Cardinality(H \cup A) <= Concurrency
  <2>1. CASE A = {}
    BY <2>1 DEF Together
  <2>2. CASE A # {}
    <3>1. PICK t \in A : Front(t) = A \ {t}
      BY <1>1, <2>2, LastWaiter
    <3>2. IsFiniteSet(H \cup Front(t)) /\ t \notin H \cup Front(t)
      BY <1>2, <1>1, <3>1
    <3>3. H \cup A = (H \cup Front(t)) \cup {t}
      BY <3>1
    <3>4. Cardinality(H \cup A) = Cardinality(H \cup Front(t)) + 1
      BY <3>2, <3>3, FS_AddElement
    <3>5. Cardinality(H \cup Front(t)) \in Nat
      BY <3>2, FS_CardinalityType
    <3>6. CASE t \in SoloTests
      <4>1. Cardinality(H \cup Front(t)) = 0  BY <1>3, <3>6, FS_EmptySet
      <4> QED BY <3>4, <4>1, GateAssumption
    <3>7. CASE t \notin SoloTests
      <4>1. Cardinality(H \cup Front(t)) < Concurrency  BY <1>3, <3>7
      <4> QED BY <3>4, <3>5, <4>1, GateAssumption
    <3> QED BY <3>6, <3>7
  <2> QED BY <2>1, <2>2
<1>6. ASSUME NEW t \in A, NEW u \in H \cup A, t # u
      PROVE  t \notin SoloTests /\ u \notin SoloTests /\ TokensOf[t] \cap TokensOf[u] = {}
  <2>1. CASE u \in H \cup Front(t)
    BY <1>3, <2>1
  <2>2. CASE u \in A /\ u \notin ahead[t]
    <3>1. t \in Front(u)  BY <1>6, <2>2 DEF Ordered
    <3> QED BY <1>3, <2>2, <3>1
  <2> QED BY <2>1, <2>2
<1>7. Together(H \cup A)
  <2>1. ASSUME NEW t \in (H \cup A) \cap SoloTests PROVE H \cup A = {t}
    <3>1. \A u \in H \cup A : u # t /\ (u \in A \/ t \in A) => FALSE  BY <1>6
    <3> QED BY <3>1 DEF Together
  <2>2. ASSUME NEW t \in H \cup A, NEW u \in H \cup A, t # u
        PROVE  TokensOf[t] \cap TokensOf[u] = {}
    <3>1. CASE t \in A  BY <1>6, <2>2, <3>1
    <3>2. CASE u \in A  BY <1>6, <2>2, <3>2
    <3>3. CASE t \in H /\ u \in H  BY <2>2, <3>3 DEF Together
    <3> QED BY <3>1, <3>2, <3>3
  <2> QED BY <1>5, <2>1, <2>2 DEF Together
<1>8. ASSUME NEW t \in waiters \ A, Live(t), Admits(Taken(g, A), t)
      PROVE  FALSE
  <2>1. ~Admits(AsReached(g, A, t), t)  BY <1>8 DEF Greedy
  <2>2. IsFiniteSet(H \cup A)  BY <1>1, FS_Union
  <2>3. \A u \in H \cup A : u \in Tests  OBVIOUS
  <2>4. IF t \in SoloTests
        THEN H \cup A = {}
        ELSE /\ Cardinality(H \cup A) < Concurrency
             /\ (H \cup A) \cap SoloTests = {}
             /\ \A u \in H \cup A : TokensOf[u] \cap TokensOf[t] = {}
    BY <1>4, <1>8, <2>2, <2>3, AdmitsMeaning
  <2>5. /\ Cardinality(H \cup Front(t)) <= Cardinality(H \cup A)
        /\ Cardinality(H \cup Front(t)) \in Nat /\ Cardinality(H \cup A) \in Nat
    BY <1>2, <2>2, FS_Subset, FS_CardinalityType
  <2>6. \A u \in H \cup Front(t) : u \in Tests  BY <1>2
  <2>7. Admits(AsReached(g, A, t), t) <=>
          IF t \in SoloTests
          THEN H \cup Front(t) = {}
          ELSE /\ Cardinality(H \cup Front(t)) < Concurrency
               /\ (H \cup Front(t)) \cap SoloTests = {}
               /\ \A u \in H \cup Front(t) : TokensOf[u] \cap TokensOf[t] = {}
    <3> HIDE DEF Front
    <3> QED BY <1>2, <2>6, AdmitsMeaning
  <2>8. CASE t \in SoloTests  BY <2>1, <2>4, <2>7, <2>8
  <2>9. CASE t \notin SoloTests
    BY <2>1, <2>4, <2>5, <2>7, <2>9, GateAssumption
  <2> QED BY <2>8, <2>9
<1> QED BY <1>4, <1>7, <1>8

-----------------------------------------------------------------------------
(* The invariant. *)

(* Exclusion and Bookkeeping, in the words of the lemmas above. *)
LEMMA Restated ==
    /\ Exclusion <=> Together(Holders)
    /\ Bookkeeping <=> Accounts(gate, Holders)
BY DEF Exclusion, Together, Bookkeeping, Accounts

(* The deque is totally ordered. *)
LEMMA QueueOrdered == QueueAccurate /\ TypeOK => Ordered
BY DEF QueueAccurate, Ordered, TypeOK

(* Nobody in the deque holds a place. *)
LEMMA NoHolderWaits ==
    ASSUME TypeOK, QueueAccurate
    PROVE  Holders \cap waiters = {}
BY DEF TypeOK, QueueAccurate, Holders, Admitted

(* A gate that accounts for a set that may run side by side is well typed. *)
LEMMA AccountedGateTyped ==
    ASSUME NEW g, NEW H, H \subseteq Tests, Accounts(g, H), Together(H),
           g = [running |-> g.running, tokens |-> g.tokens, solo |-> g.solo],
           g.solo \in BOOLEAN
    PROVE  g \in [running : 0..Concurrency, tokens : SUBSET Tokens, solo : BOOLEAN]
<1>1. IsFiniteSet(H)  BY FS_Subset, GateAssumption
<1>2. g.running \in 0..Concurrency
  BY <1>1, FS_CardinalityType, GateAssumption DEF Accounts, Together
<1>3. g.tokens \subseteq Tokens
  BY DEF Accounts, Tokens
<1> QED BY <1>2, <1>3

(* release, with the scan it ends in, by a task that leaves the gate. *)
LEMMA ReleaseStep ==
    ASSUME IInv, NEW t \in Holders, ReleaseAndWake(t),
           pc' = [pc EXCEPT ![t] = "finished"], UNCHANGED mustCancel
    PROVE  IInv'
<1> USE DEF IInv
<1> DEFINE g == GivenBack(gate, t)
           H == Holders \ {t}
<1>1. PICK A \in SUBSET waiters :
        /\ Greedy(g, A)
        /\ gate' = Taken(g, A)
        /\ Dequeue(Dropped(g, A))
        /\ future' = [u \in Tests |-> IF u \in A THEN "done" ELSE future[u]]
  BY DEF ReleaseAndWake, Wake
<1> DEFINE D == Dropped(g, A)
<1>2. A \subseteq D /\ D \subseteq waiters /\ \A u \in D \ A : ~Live(u)
  BY DEF Dropped
<1>3. Accounts(g, H) /\ Together(H) /\ H \subseteq Tests /\ H \cap waiters = {} /\ t \notin waiters
  BY HoldersFinite, Restated, GivenBackAccounts, NoHolderWaits
<1>4. Ordered /\ waiters \subseteq Tests
  BY QueueOrdered DEF TypeOK
<1>5. /\ Accounts(gate', H \cup A)
      /\ Together(H \cup A)
      /\ \A u \in waiters \ A : Live(u) => ~Admits(gate', u)
  <2> HIDE DEF g, H
  <2> QED BY <1>1, <1>3, <1>4, WakeSound
<1>6. t \in Tests /\ pc \in [Tests -> {"idle", "queued", "holding", "finished"}]
  BY HoldersFinite DEF TypeOK
<1>7. \A u \in waiters : pc[u] = "queued" /\ u # t
  BY <1>3 DEF QueueAccurate
<1>8. Holders' = H \cup A
  <2>1. \A u \in Tests : u \in Holders' <=> u \in H \cup A
    BY <1>1, <1>6, <1>7 DEF Holders, Admitted
  <2>2. Holders' \subseteq Tests /\ H \cup A \subseteq Tests
    BY <1>3, <1>4 DEF Holders, Admitted
  <2> QED BY <2>1, <2>2
<1>9. \A u \in Tests : Live(u)' <=> Live(u) /\ u \notin A
  BY <1>1 DEF Live
<1>10. TypeOK'
  <2>1. gate' = [running |-> gate'.running, tokens |-> gate'.tokens, solo |-> gate'.solo]
        /\ gate'.solo \in BOOLEAN
    BY <1>1 DEF Taken
  <2>2. gate' \in [running : 0..Concurrency, tokens : SUBSET Tokens, solo : BOOLEAN]
    BY <1>3, <1>4, <1>5, <2>1, AccountedGateTyped
  <2>3. waiters' \subseteq Tests /\ ahead' \in [Tests -> SUBSET Tests]
    BY <1>1 DEF Dequeue, TypeOK
  <2>4. future' \in [Tests -> {"none", "pending", "done", "cancelled"}]
    BY <1>1 DEF TypeOK
  <2>5. /\ pc' \in [Tests -> {"idle", "queued", "holding", "finished"}]
        /\ mustCancel' \in [Tests -> BOOLEAN]
    BY DEF TypeOK
  <2> QED BY <2>2, <2>3, <2>4, <2>5 DEF TypeOK
<1>11. Exclusion' /\ Bookkeeping'
  BY <1>5, <1>8 DEF Exclusion, Together, Bookkeeping, Accounts
<1>12. NoLostWakeup'
  <2>1. \A u \in Tests : Live(u)' => u \in waiters \ A /\ Live(u)
    BY <1>9 DEF QueueAccurate
  <2>2. \A u \in Tests : Admits(gate, u)' <=> Admits(gate', u)
    BY DEF Admits
  <2> QED BY <1>5, <2>1, <2>2 DEF NoLostWakeup
<1>13. QueueAccurate'
  <2>1. \A u \in Tests : Live(u)' => u \in waiters'
    BY <1>1, <1>2, <1>9 DEF QueueAccurate, Dequeue
  <2>2. \A u \in waiters' : pc'[u] = "queued" /\ future'[u] \in {"pending", "cancelled"}
    BY <1>1, <1>2, <1>4, <1>6, <1>7 DEF QueueAccurate, Dequeue
  <2>3. /\ \A u \in waiters' : ahead'[u] \subseteq waiters' \ {u}
        /\ \A u \in Tests \ waiters' : ahead'[u] = {}
        /\ \A u, v \in waiters' : u # v => (u \in ahead'[v] <=> v \notin ahead'[u])
        /\ \A u, v \in waiters' : u \in ahead'[v] => ahead'[u] \subseteq ahead'[v]
    BY <1>1, <1>2, <1>4 DEF QueueAccurate, Dequeue
  <2> QED BY <2>1, <2>2, <2>3 DEF QueueAccurate
<1> QED BY <1>10, <1>11, <1>12, <1>13

(* A step that books and returns nothing, and makes nobody wait. *)
LEMMA QuietStep ==
    ASSUME IInv, TypeOK', QueueAccurate', UNCHANGED gate, Holders' = Holders,
           \A t \in Tests : pc'[t] = "queued" /\ Live(t)' => pc[t] = "queued" /\ Live(t)
    PROVE  IInv'
<1>1. Exclusion' /\ Bookkeeping'
  BY DEF IInv, Exclusion, Bookkeeping
<1>2. NoLostWakeup'
  BY DEF IInv, NoLostWakeup, Admits
<1> QED BY <1>1, <1>2 DEF IInv

(* acquire up to its await keeps the invariant. *)
LEMMA AcquireStep == ASSUME IInv, NEW t \in Tests, Acquire(t) PROVE IInv'
<1> USE DEF IInv
<1>1. pc[t] = "idle" /\ t \notin Holders /\ t \notin waiters /\ ~Live(t)
  BY DEF Acquire, Holders, Admitted, QueueAccurate
<1>2. CASE Admits(gate, t)
  <2>1. /\ gate' = Taken(gate, {t})
        /\ pc' = [pc EXCEPT ![t] = "holding"]
        /\ UNCHANGED <<waiters, ahead, future, mustCancel>>
    BY <1>2 DEF Acquire
  <2>2. Holders' = Holders \cup {t}
    BY <2>1, <1>1 DEF Holders, Admitted, TypeOK
  <2>3. IsFiniteSet(Holders) /\ Holders \subseteq Tests /\ Accounts(gate, Holders) /\ Together(Holders)
    BY HoldersFinite, Restated
  <2>4. Accounts(gate', Holders \cup {t})
    <3>1. IsFiniteSet({t}) /\ Holders \cap {t} = {}  BY <1>1, FS_Singleton
    <3> QED BY <2>1, <2>3, <3>1, TakenAccounts
  <2>5. IF t \in SoloTests
        THEN Holders = {}
        ELSE /\ Cardinality(Holders) < Concurrency
             /\ Holders \cap SoloTests = {}
             /\ \A u \in Holders : TokensOf[u] \cap TokensOf[t] = {}
    BY <1>2, <2>3, AdmitsMeaning
  <2>6. Together(Holders \cup {t})
    <3>1. Cardinality(Holders \cup {t}) = Cardinality(Holders) + 1 /\ Cardinality(Holders) \in Nat
      BY <1>1, <2>3, FS_AddElement, FS_CardinalityType
    <3>2. Holders = {} => Cardinality(Holders) = 0  BY FS_EmptySet
    <3>3. Cardinality(Holders \cup {t}) <= Concurrency
      BY <2>5, <3>1, <3>2, GateAssumption
    <3> QED BY <2>3, <2>5, <3>3 DEF Together
  <2>7. Exclusion' /\ Bookkeeping'
    BY <2>2, <2>4, <2>6 DEF Exclusion, Together, Bookkeeping, Accounts
  <2>8. TypeOK'
    <3>1. gate' = [running |-> gate'.running, tokens |-> gate'.tokens, solo |-> gate'.solo]
          /\ gate'.solo \in BOOLEAN
      BY <2>1 DEF Taken
    <3>2. Holders \cup {t} \subseteq Tests  BY <2>3
    <3>3. gate' \in [running : 0..Concurrency, tokens : SUBSET Tokens, solo : BOOLEAN]
      BY <2>4, <2>6, <3>1, <3>2, AccountedGateTyped
    <3> QED BY <2>1, <3>3 DEF TypeOK
  <2>9. QueueAccurate'
    BY <1>1, <2>1 DEF QueueAccurate, Live, TypeOK
  <2>10. NoLostWakeup'
    <3> SUFFICES ASSUME NEW u \in Tests, pc'[u] = "queued", Live(u)', Admits(gate', u) PROVE FALSE
      BY DEF NoLostWakeup, Admits
    <3>1. pc[u] = "queued" /\ Live(u)  BY <2>1, <1>1 DEF Live, TypeOK
    <3>2. ~Admits(gate, u)  BY <3>1 DEF NoLostWakeup
    <3>3. IsFiniteSet(Holders \cup {t}) /\ \A v \in Holders \cup {t} : v \in Tests
      BY <2>3, FS_AddElement
    <3>4. IF u \in SoloTests
          THEN Holders \cup {t} = {}
          ELSE /\ Cardinality(Holders \cup {t}) < Concurrency
               /\ (Holders \cup {t}) \cap SoloTests = {}
               /\ \A v \in Holders \cup {t} : TokensOf[v] \cap TokensOf[u] = {}
      BY <2>4, <3>3, AdmitsMeaning
    <3>5. Cardinality(Holders \cup {t}) = Cardinality(Holders) + 1 /\ Cardinality(Holders) \in Nat
      BY <1>1, <2>3, FS_AddElement, FS_CardinalityType
    <3>6. u \notin SoloTests /\ Cardinality(Holders) < Concurrency
          /\ Holders \cap SoloTests = {} /\ \A v \in Holders : TokensOf[v] \cap TokensOf[u] = {}
      BY <3>4, <3>5, GateAssumption
    <3>7. Admits(gate, u)
      BY <2>3, <3>6, AdmitsMeaning
    <3> QED BY <3>2, <3>7
  <2> QED BY <2>7, <2>8, <2>9, <2>10
<1>3. CASE ~Admits(gate, t)
  <2>1. /\ waiters' = waiters \cup {t}
        /\ ahead' = [ahead EXCEPT ![t] = waiters]
        /\ future' = [future EXCEPT ![t] = "pending"]
        /\ pc' = [pc EXCEPT ![t] = "queued"]
        /\ UNCHANGED <<gate, mustCancel>>
    BY <1>3 DEF Acquire
  <2>2. Holders' = Holders
    BY <2>1, <1>1 DEF Holders, Admitted, TypeOK
  <2>3. TypeOK'
    BY <2>1 DEF TypeOK
  <2>4. QueueAccurate'
    <3>1. \A u \in Tests : Live(u)' => u \in waiters'
      BY <2>1 DEF QueueAccurate, Live, TypeOK
    <3>2. \A u \in waiters' : pc'[u] = "queued" /\ future'[u] \in {"pending", "cancelled"}
      BY <2>1 DEF QueueAccurate, TypeOK
    <3>3. /\ \A u \in waiters' : ahead'[u] \subseteq waiters' \ {u}
          /\ \A u \in Tests \ waiters' : ahead'[u] = {}
      BY <1>1, <2>1 DEF QueueAccurate, TypeOK
    <3>4. \A u \in waiters : t \notin ahead[u]
      BY <1>1 DEF QueueAccurate
    <3>5. /\ \A u, v \in waiters' : u # v => (u \in ahead'[v] <=> v \notin ahead'[u])
          /\ \A u, v \in waiters' : u \in ahead'[v] => ahead'[u] \subseteq ahead'[v]
      BY <1>1, <2>1, <3>4 DEF QueueAccurate, TypeOK
    <3> QED BY <3>1, <3>2, <3>3, <3>5 DEF QueueAccurate
  <2>5. Exclusion' /\ Bookkeeping'
    BY <2>1, <2>2 DEF Exclusion, Bookkeeping
  <2>6. NoLostWakeup'
    BY <1>3, <2>1 DEF NoLostWakeup, Admits, Live, TypeOK
  <2> QED BY <2>3, <2>4, <2>5, <2>6
<1> QED BY <1>2, <1>3

(* A cancellation keeps the invariant, wherever it lands. *)
LEMMA CancelStep == ASSUME IInv, NEW t \in Tests, Cancel(t) PROVE IInv'
<1> USE DEF IInv
<1>1. CASE /\ pc[t] = "idle"
           /\ pc' = [pc EXCEPT ![t] = "finished"]
           /\ UNCHANGED <<gate, waiters, ahead, future, mustCancel>>
  <2>1. Holders' = Holders  BY <1>1 DEF Holders, Admitted, TypeOK
  <2>2. TypeOK'  BY <1>1 DEF TypeOK
  <2>3. QueueAccurate'  BY <1>1 DEF QueueAccurate, Live, TypeOK
  <2> QED BY <1>1, <2>1, <2>2, <2>3, QuietStep DEF Live, TypeOK
<1>2. CASE /\ pc[t] = "queued" /\ future[t] = "pending"
           /\ future' = [future EXCEPT ![t] = "cancelled"]
           /\ UNCHANGED <<gate, waiters, ahead, pc, mustCancel>>
  <2>1. Holders' = Holders  BY <1>2 DEF Holders, Admitted, TypeOK
  <2>2. TypeOK'  BY <1>2 DEF TypeOK
  <2>3. QueueAccurate'  BY <1>2 DEF QueueAccurate, Live, TypeOK
  <2> QED BY <1>2, <2>1, <2>2, <2>3, QuietStep DEF Live, TypeOK
<1>3. CASE /\ pc[t] = "queued" /\ future[t] = "done" /\ ~mustCancel[t]
           /\ mustCancel' = [mustCancel EXCEPT ![t] = TRUE]
           /\ UNCHANGED <<gate, waiters, ahead, pc, future>>
  <2>1. Holders' = Holders  BY <1>3 DEF Holders, Admitted
  <2>2. TypeOK'  BY <1>3 DEF TypeOK
  <2>3. QueueAccurate'  BY <1>3 DEF QueueAccurate, Live
  <2> QED BY <1>3, <2>1, <2>2, <2>3, QuietStep DEF Live
<1> QED BY <1>1, <1>2, <1>3 DEF Cancel

(* A waiter that resumes keeps the invariant. *)
LEMMA ResumeStep == ASSUME IInv, NEW t \in Tests, Resume(t) PROVE IInv'
<1> USE DEF IInv, Resume
<1>1. Holders' = Holders  BY DEF Holders, Admitted, TypeOK
<1>2. TypeOK'  BY DEF TypeOK
<1>3. t \notin waiters  BY DEF QueueAccurate
<1>4. QueueAccurate'  BY <1>3 DEF QueueAccurate, Live, TypeOK
<1> QED BY <1>1, <1>2, <1>4, QuietStep DEF Live, TypeOK

(* acquire's CancelledError handler keeps the invariant, both ways. *)
LEMMA ResumeCancelledStep == ASSUME IInv, NEW t \in Tests, ResumeCancelled(t) PROVE IInv'
<1>1. CASE future[t] = "done" /\ mustCancel[t] /\ ReleaseAndWake(t)
  <2>1. t \in Holders  BY <1>1 DEF ResumeCancelled, Holders, Admitted
  <2> QED BY <1>1, <2>1, ReleaseStep DEF ResumeCancelled
<1>2. CASE future[t] = "cancelled" /\ Dequeue({t}) /\ UNCHANGED <<gate, future>>
  <2> USE <1>2 DEF IInv, ResumeCancelled
  <2>1. Holders' = Holders  BY DEF Holders, Admitted, TypeOK
  <2>2. TypeOK'  BY DEF TypeOK, Dequeue
  <2>3. QueueAccurate'
    <3>1. \A u \in Tests : Live(u)' => u \in waiters'
      BY DEF QueueAccurate, Live, Dequeue
    <3>2. \A u \in waiters' : pc'[u] = "queued" /\ future'[u] \in {"pending", "cancelled"}
      BY DEF QueueAccurate, Dequeue, TypeOK
    <3>3. /\ \A u \in waiters' : ahead'[u] \subseteq waiters' \ {u}
          /\ \A u \in Tests \ waiters' : ahead'[u] = {}
          /\ \A u, v \in waiters' : u # v => (u \in ahead'[v] <=> v \notin ahead'[u])
          /\ \A u, v \in waiters' : u \in ahead'[v] => ahead'[u] \subseteq ahead'[v]
      BY DEF QueueAccurate, Dequeue, TypeOK
    <3> QED BY <3>1, <3>2, <3>3 DEF QueueAccurate
  <2> QED BY <2>1, <2>2, <2>3, QuietStep DEF Live, TypeOK
<1> QED BY <1>1, <1>2 DEF ResumeCancelled

(* Every step of the gate keeps the invariant. *)
LEMMA Inductive == ASSUME IInv, [Next]_vars PROVE IInv'
<1>1. CASE Next
  <2>1. PICK t \in Tests :
          Acquire(t) \/ Cancel(t) \/ Resume(t) \/ ResumeCancelled(t) \/ Release(t)
    BY <1>1 DEF Next
  <2>2. CASE Acquire(t)  BY <2>2, AcquireStep
  <2>3. CASE Cancel(t)  BY <2>3, CancelStep
  <2>4. CASE Resume(t)  BY <2>4, ResumeStep
  <2>5. CASE ResumeCancelled(t)  BY <2>5, ResumeCancelledStep
  <2>6. CASE Release(t)
    <3>1. t \in Holders  BY <2>6 DEF Release, Holders
    <3> QED BY <2>6, <3>1, ReleaseStep DEF Release
  <2> QED BY <2>1, <2>2, <2>3, <2>4, <2>5, <2>6
<1>2. CASE UNCHANGED vars
  <2>1. Holders' = Holders  BY <1>2 DEF vars, Holders, Admitted
  <2>2. TypeOK'  BY <1>2 DEF vars, IInv, TypeOK
  <2>3. QueueAccurate'  BY <1>2 DEF vars, IInv, QueueAccurate, Live
  <2> QED BY <1>2, <2>1, <2>2, <2>3, QuietStep DEF vars, Live
<1> QED BY <1>1, <1>2

(* The new gate satisfies the invariant. *)
LEMMA InitIInv == Init => IInv
<1> SUFFICES ASSUME Init PROVE IInv  OBVIOUS
<1> USE DEF Init
<1>1. Holders = {}  BY DEF Holders, Admitted
<1>2. Cardinality(Holders) = 0  BY <1>1, FS_EmptySet
<1>3. TypeOK  BY GateAssumption DEF TypeOK
<1>4. Exclusion  BY <1>1, <1>2, GateAssumption DEF Exclusion
<1>5. Bookkeeping  BY <1>1, <1>2 DEF Bookkeeping
<1>6. NoLostWakeup  BY DEF NoLostWakeup
<1>7. QueueAccurate  BY DEF QueueAccurate, Live
<1> QED BY <1>3, <1>4, <1>5, <1>6, <1>7 DEF IInv

(* The inductive invariant holds throughout: the four safety invariants    *)
(* and the type invariant, each of which the others need.                  *)
THEOREM Invariance == Spec => []IInv
<1>1. IInv /\ [Next]_vars => IInv'  BY Inductive
<1> QED BY <1>1, InitIInv, PTL DEF Spec

(* The gate's state stays well typed, its counter within 0..Concurrency:   *)
(* no cancellation path releases what was never booked.                    *)
THEOREM TypeCorrect == Spec => []TypeOK
<1>1. IInv => TypeOK  BY DEF IInv
<1> QED BY <1>1, Invariance, PTL

(* At most `concurrency` tests hold a place, solo tests alone, and never   *)
(* two with a common token, for every suite and concurrency.               *)
THEOREM MutualExclusion == Spec => []Exclusion
<1>1. IInv => Exclusion  BY DEF IInv
<1> QED BY <1>1, Invariance, PTL

(* The counter, tokens and solo flag are exactly the holders': no slot is  *)
(* leaked and none freed twice.                                            *)
THEOREM ExactBookkeeping == Spec => []Bookkeeping
<1>1. IInv => Bookkeeping  BY DEF IInv
<1> QED BY <1>1, Invariance, PTL

(* No pending waiter fits the gate as it stands: the early return and the  *)
(* skips of _wake's scan never leave a place idle.                         *)
THEOREM EveryPlaceHandedOut == Spec => []NoLostWakeup
<1>1. IInv => NoLostWakeup  BY DEF IInv
<1> QED BY <1>1, Invariance, PTL

-----------------------------------------------------------------------------
(* The gate implements the promise of `Admission`. *)

Asking == {t \in Tests : pc[t] = "queued" /\ Live(t)}
Gone   == {t \in Tests : pc[t] = "finished" \/ (pc[t] = "queued" /\ future[t] = "cancelled")}

(* Under the invariant, the gate has room exactly when the holders leave it. *)
LEMMA FitsIsAdmits ==
    ASSUME IInv, NEW t \in Tests
    PROVE  Abs!Fits(Holders, t) <=> Admits(gate, t)
<1>1. IsFiniteSet(Holders) /\ Accounts(gate, Holders) /\ \A u \in Holders : u \in Tests
  BY HoldersFinite, Restated DEF IInv
<1> QED BY <1>1, AdmitsMeaning DEF Abs!Fits, Abs!Cardinality, Cardinality

(* A task that gives its place back does Admission's Leave: whom the scan  *)
(* admits is who enters, and nobody who fits is left asking.               *)
LEMMA ReleaseIsLeave ==
    ASSUME IInv, IInv', NEW t \in Holders, ReleaseAndWake(t),
           pc' = [pc EXCEPT ![t] = "finished"], UNCHANGED mustCancel
    PROVE  Abs!Leave(t)
<1> USE DEF IInv
<1>1. PICK A \in SUBSET waiters :
        /\ Greedy(GivenBack(gate, t), A)
        /\ future' = [u \in Tests |-> IF u \in A THEN "done" ELSE future[u]]
  BY DEF ReleaseAndWake, Wake
<1>2. t \in Tests /\ waiters \subseteq Tests /\ A \subseteq Tests /\ Holders \subseteq Tests
      /\ t \notin waiters
  BY HoldersFinite, NoHolderWaits DEF TypeOK
<1>3. \A u \in A : pc[u] = "queued" /\ Live(u) /\ u # t
  BY <1>1, <1>2 DEF QueueAccurate, Greedy
<1>4. pc \in [Tests -> {"idle", "queued", "holding", "finished"}]
  BY DEF TypeOK
<1>5. ~Live(t)  BY <1>2 DEF QueueAccurate
<1>6. Holders' = (Holders \ {t}) \cup A
  <2>1. \A u \in Tests : u \in Holders' <=> u \in (Holders \ {t}) \cup A
    BY <1>1, <1>3, <1>4 DEF Holders, Admitted
  <2>2. Holders' \subseteq Tests  BY DEF Holders, Admitted
  <2> QED BY <1>2, <2>1, <2>2
<1>7. Asking' = Asking \ A /\ A \subseteq Asking
  BY <1>1, <1>2, <1>3, <1>4, <1>5 DEF Asking, Live
<1>8. Gone' = Gone \cup {t}
  <2>1. \A u \in Tests : u \in Gone' <=> u \in Gone \/ u = t
    BY <1>1, <1>3, <1>4 DEF Gone, Live
  <2> QED BY <1>2, <2>1 DEF Gone
<1>9. Abs!Compatible(Holders')
  BY DEF Abs!Compatible, Exclusion, Abs!Cardinality, Cardinality
<1>10. \A u \in Asking' : ~Abs!Fits(Holders', u)
  <2> SUFFICES ASSUME NEW u \in Asking' PROVE ~Abs!Fits(Holders', u)  OBVIOUS
  <2>1. u \in Tests /\ ~Admits(gate', u)
    BY DEF NoLostWakeup, Asking, Admits
  <2>2. (IsFiniteSet(Holders) /\ Holders \subseteq Tests)'
    BY <1>2, <1>6, FS_Subset, GateAssumption
  <2>3. Accounts(gate', Holders')
    BY DEF Bookkeeping, Accounts
  <2>4. \A v \in Holders' : v \in Tests  BY <2>2
  <2> QED BY <2>1, <2>2, <2>3, <2>4, AdmitsMeaning DEF Abs!Fits, Abs!Cardinality, Cardinality
<1> QED BY <1>6, <1>7, <1>8, <1>9, <1>10 DEF Abs!Leave, Asking, Gone

(* Every step of the gate is a step of Admission, or a stutter. *)
LEMMA StepSimulation ==
    ASSUME IInv, IInv', [Next]_vars
    PROVE  [Abs!Next]_(Abs!vars)
<1> USE DEF IInv
<1>1. ASSUME UNCHANGED <<Asking, Holders, Gone>>
      PROVE  UNCHANGED Abs!vars
  BY <1>1 DEF Abs!vars, Asking, Gone
<1>2. ASSUME NEW t \in Tests, Acquire(t)
      PROVE  Abs!Next
  <2>1. pc[t] = "idle" /\ t \notin Asking \cup Holders \cup Gone
    BY <1>2 DEF Acquire, Asking, Holders, Admitted, Gone
  <2>2. Abs!Newcomer(t)
    BY <2>1 DEF Abs!Newcomer, Asking, Gone
  <2>3. CASE Admits(gate, t)
    <3>1. pc' = [pc EXCEPT ![t] = "holding"] /\ future' = future
      BY <1>2, <2>3 DEF Acquire
    <3>2. Holders' = Holders \cup {t} /\ Asking' = Asking /\ Gone' = Gone
      BY <2>1, <3>1 DEF Holders, Admitted, Asking, Gone, Live, TypeOK
    <3>3. Abs!Enter(t)
      BY <2>2, <2>3, <3>2, FitsIsAdmits DEF Abs!Enter, Asking, Gone
    <3> QED BY <3>3 DEF Abs!Next
  <2>4. CASE ~Admits(gate, t)
    <3>1. pc' = [pc EXCEPT ![t] = "queued"] /\ future' = [future EXCEPT ![t] = "pending"]
      BY <1>2, <2>4 DEF Acquire
    <3>2. Holders' = Holders /\ Asking' = Asking \cup {t} /\ Gone' = Gone
      BY <2>1, <3>1 DEF Holders, Admitted, Asking, Gone, Live, TypeOK
    <3>3. Abs!Ask(t)
      BY <2>2, <2>4, <3>2, FitsIsAdmits DEF Abs!Ask, Asking, Gone
    <3> QED BY <3>3 DEF Abs!Next
  <2> QED BY <2>3, <2>4
<1>3. ASSUME NEW t \in Tests, Cancel(t)
      PROVE  [Abs!Next]_(Abs!vars)
  <2>1. CASE pc[t] = "idle" /\ pc' = [pc EXCEPT ![t] = "finished"] /\ UNCHANGED future
    <3>1. /\ Holders' = Holders /\ Asking' = Asking \ {t} /\ Gone' = Gone \cup {t}
          /\ t \notin Holders \cup Gone
      BY <2>1 DEF Holders, Admitted, Asking, Gone, Live, TypeOK
    <3>2. Abs!Withdraw(t)
      BY <3>1 DEF Abs!Withdraw, Asking, Gone
    <3> QED BY <3>2 DEF Abs!Next
  <2>2. CASE /\ pc[t] = "queued" /\ future[t] = "pending"
             /\ future' = [future EXCEPT ![t] = "cancelled"] /\ UNCHANGED pc
    <3>1. /\ Holders' = Holders /\ Asking' = Asking \ {t} /\ Gone' = Gone \cup {t}
          /\ t \notin Holders \cup Gone
      BY <2>2 DEF Holders, Admitted, Asking, Gone, Live, TypeOK
    <3>2. Abs!Withdraw(t)
      BY <3>1 DEF Abs!Withdraw, Asking, Gone
    <3> QED BY <3>2 DEF Abs!Next
  <2>3. CASE UNCHANGED <<pc, future>>
    BY <2>3, <1>1 DEF Asking, Holders, Admitted, Gone, Live
  <2> QED BY <1>3, <2>1, <2>2, <2>3 DEF Cancel
<1>4. ASSUME NEW t \in Tests, Resume(t)
      PROVE  UNCHANGED Abs!vars
  <2>1. UNCHANGED <<Asking, Holders, Gone>>
    BY <1>4 DEF Resume, Asking, Holders, Admitted, Gone, Live, TypeOK
  <2> QED BY <2>1, <1>1
<1>5. ASSUME NEW t \in Tests, ResumeCancelled(t)
      PROVE  [Abs!Next]_(Abs!vars)
  <2>1. CASE future[t] = "done" /\ mustCancel[t] /\ ReleaseAndWake(t)
    <3>1. t \in Holders  BY <1>5, <2>1 DEF ResumeCancelled, Holders, Admitted
    <3>2. Abs!Leave(t)  BY <1>5, <2>1, <3>1, ReleaseIsLeave DEF ResumeCancelled
    <3> QED BY <3>2 DEF Abs!Next
  <2>2. CASE future[t] = "cancelled" /\ UNCHANGED <<gate, future>>
    <3>1. UNCHANGED <<Asking, Holders, Gone>>
      BY <1>5, <2>2 DEF ResumeCancelled, Asking, Holders, Admitted, Gone, Live, TypeOK
    <3> QED BY <3>1, <1>1
  <2> QED BY <1>5, <2>1, <2>2 DEF ResumeCancelled
<1>6. ASSUME NEW t \in Tests, Release(t)
      PROVE  Abs!Next
  <2>1. t \in Holders  BY <1>6 DEF Release, Holders
  <2>2. Abs!Leave(t)  BY <1>6, <2>1, ReleaseIsLeave DEF Release
  <2> QED BY <2>2 DEF Abs!Next
<1>7. CASE UNCHANGED vars
  <2>1. UNCHANGED <<Asking, Holders, Gone>>
    BY <1>7 DEF vars, Asking, Holders, Admitted, Gone, Live
  <2> QED BY <2>1, <1>1
<1> QED BY <1>2, <1>3, <1>4, <1>5, <1>6, <1>7 DEF Next

(* For every suite, the counters, the deque and its early-returning scan,  *)
(* with cancellations landing anywhere, do what `Admission` promises: a    *)
(* place is given whenever there is one, and only to tests that fit.       *)
THEOREM Refinement == Spec => ImplementsAdmission
<1>1. Init => Abs!Init
  BY DEF Init, Abs!Init, Holders, Admitted
<1>2. IInv /\ IInv' /\ [Next]_vars => [Abs!Next]_(Abs!vars)
  BY StepSimulation
<1> QED BY <1>1, <1>2, Invariance, PTL DEF Spec, Abs!Spec, ImplementsAdmission
=============================================================================
