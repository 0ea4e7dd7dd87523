--------------------------- MODULE SessionProofs ---------------------------
(***************************************************************************)
(* What holds of a run for every suite, every concurrency and --maxfail,   *)
(* and every choice of timeouts, xfail marks and isolated tests.           *)
(***************************************************************************)
EXTENDS Session, FiniteSetTheorems, SequenceTheorems, TLAPS

Facts == [setup : SetupEnds_, call : CallEnds_, teardown : TeardownEnds_,
          expired : BOOLEAN, cancelled : BOOLEAN, shipped : Outcome \cup {"none"}]

Occupied == {t \in Tests : InRunOne(t)}
Booked   == {t \in held : pc[t] = "queued"}
Failing  == {t \in Tests : result[t] \in FAILING_OUTCOMES}
Reported == {t \in Tests : pc[t] \in {"settled", "raised"}}

(* What _run_one may know of t, and what speaks for t in it.               *)
Credible(t, f) ==
    /\ f.cancelled => Stopping /\ f.call = "none"
    /\ t \notin Timed => ~f.expired
    /\ f.shipped # "cancelled"

Concluded(f) == f.expired \/ f.cancelled \/ f.setup \in {"failed", "skipped"} \/ f.call # "none"

Innocent(t, f) ==
    /\ f.setup # "failed" /\ f.call # "failed" /\ f.teardown # "failed"
    /\ f.shipped \notin FAILING_OUTCOMES
    /\ ~(f.call = "passed" /\ Xfail[t] = "strict")

(* Who is in an envelope holds a place, and places are few.                *)
Placed ==
    /\ Cardinality(held) <= Concurrency
    /\ \A t \in Tests : pc[t] \in Envelope => t \in held

(* The free slots and the ones in use are the slots, each once.            *)
Slots ==
    /\ \A i, j \in 1..Len(free) : free[i] = free[j] => i = j
    /\ \A t \in Occupied : /\ t \notin Isolated
                           /\ worker[t] \in 0..(Concurrency - 1)
                           /\ \A i \in 1..Len(free) : free[i] # worker[t]
    /\ \A t \in Tests : pc[t] = "subprocess" => t \in Isolated
    /\ \A t, u \in Tests : InRunOne(t) /\ InRunOne(u) /\ t # u => worker[t] # worker[u]
    /\ Cardinality(Occupied) + Len(free) = Concurrency

(* The count of failures, and the stop it brings.                          *)
Counting ==
    /\ MaxFail = 0 => failures = 0
    /\ MaxFail > 0 => Cardinality(Failing) <= failures
    /\ ~Stopping /\ MaxFail > 0 => failures < MaxFail
    /\ failures <= Cardinality(Reported)
    /\ reason = "maxfail" /\ group = "up" => Failing # {}
    /\ \A t \in Tests : result[t] # "none" => pc[t] = "settled"

(* What is known of a test that has come so far; only its own code, or the *)
(* group's fall, can speak against it.                                     *)
Known(t) ==
    /\ Credible(t, facts[t])
    /\ pc[t] \in {"new", "queued"} => facts[t] = NoFacts
    /\ pc[t] \in {"setup", "call", "subprocess"} => facts[t].call = "none" /\ ~facts[t].cancelled
    /\ pc[t] \in {"teardown", "flush"} /\ t \notin Isolated => Concluded(facts[t])
    /\ t \in fault \/ group = "down" \/ Innocent(t, facts[t])

(* A cancellation that has not landed yet is the stop's, which claim()     *)
(* knows of, the deadline's, or of a group that went down.                 *)
Accounted(t) ==
    due[t] # {} /\ t \notin chased /\ group # "down" =>
        pc[t] = "flush" \/ (pc[t] \in {"setup", "call"} /\ facts[t].expired)

Knowing == \A t \in Tests : Known(t)
Chasing == (chased # {} => Stopping) /\ \A t \in Tests : Accounted(t)

IInv == TypeOK /\ Placed /\ Slots /\ Counting /\ Knowing /\ Chasing

(* What t may be told to have come to.                                     *)
Warranted(t, o) ==
    /\ o = "cancelled" => Stopping /\ facts[t].call = "none"
    /\ o \in {"failed", "error"} => group = "down" \/ t \in fault'
    /\ o \in Outcome \ {"timeout"} => ~facts[t].expired

(* What a step may never do: the bodies of the run's action properties.    *)
Permitted ==
    \A t \in Tests :
        /\ t \notin InFlight /\ pc'[t] \in Envelope =>
             ~Stopping /\ (MaxFail = 0 \/ Cardinality(Failing) < MaxFail)
        /\ result'[t] # result[t] => Warranted(t, result'[t])

-----------------------------------------------------------------------------
(* The parts of the invariant, one by one.                                 *)

(* Only these tests can be in an envelope, in `results` or known of.       *)
LEMMA Typed ==
    ASSUME TypeOK
    PROVE  /\ facts \in [Tests -> Facts]
           /\ IsFiniteSet(held) /\ IsFiniteSet(Occupied) /\ IsFiniteSet(Failing) /\ IsFiniteSet(Reported)
           /\ IsFiniteSet(Booked) /\ Cardinality(Booked) \in Nat
           /\ Cardinality(held) \in Nat /\ Cardinality(Occupied) \in Nat
           /\ Cardinality(Failing) \in Nat /\ Cardinality(Reported) \in Nat
           /\ Cardinality(Reported) <= Cardinality(Tests) /\ Cardinality(Tests) \in Nat
           /\ Len(free) \in Nat /\ \A i \in 1..Len(free) : free[i] \in 0..(Concurrency - 1)
<1>1. facts \in [Tests -> Facts]  BY DEF TypeOK, Facts
<1>2. held \subseteq Tests /\ Occupied \subseteq Tests /\ Failing \subseteq Tests /\ Reported \subseteq Tests
      /\ Booked \subseteq Tests
  BY DEF TypeOK, Occupied, Failing, Reported, Booked
<1>3. IsFiniteSet(Tests)  BY SessionAssumption
<1>4. IsFiniteSet(held) /\ IsFiniteSet(Occupied) /\ IsFiniteSet(Failing) /\ IsFiniteSet(Reported)
      /\ IsFiniteSet(Booked)
  BY <1>2, <1>3, FS_Subset
<1>5. Cardinality(Reported) <= Cardinality(Tests)  BY <1>2, <1>3, FS_Subset
<1>6. Len(free) \in Nat /\ \A i \in 1..Len(free) : free[i] \in 0..(Concurrency - 1)
  <2>1. free \in Seq(0..(Concurrency - 1))  BY DEF TypeOK
  <2> QED BY <2>1, LenProperties
<1> QED BY <1>1, <1>3, <1>4, <1>5, <1>6, FS_CardinalityType

(* A test that leaves the gate, or does not, leaves the others' places.    *)
LEMMA PlacesLeft ==
    ASSUME TypeOK, Placed, NEW t \in Tests, Gate!Leave(t) \/ Gate!Withdraw(t) \/ UNCHANGED gate
    PROVE  /\ asking' \subseteq Tests /\ held' \subseteq Tests /\ gone' \subseteq Tests
           /\ Cardinality(held') <= Concurrency /\ held \ {t} \subseteq held'
BY DEF TypeOK, Placed, Gate!Leave, Gate!Withdraw, Gate!Compatible, gate, Gate!Cardinality, Cardinality

(* A test that enters the gate finds a place there.                        *)
LEMMA PlaceTaken ==
    ASSUME TypeOK, Placed, NEW t \in Tests, Gate!Enter(t)
    PROVE  /\ asking' \subseteq Tests /\ held' \subseteq Tests /\ gone' \subseteq Tests
           /\ Cardinality(held') <= Concurrency /\ held' = held \cup {t}
<1>1. Cardinality(held \cup {t}) <= Concurrency
  <2>1. t \notin held  BY DEF Gate!Enter, Gate!Newcomer
  <2>2. Cardinality(held \cup {t}) = Cardinality(held) + 1  BY <2>1, Typed, FS_AddElement
  <2>3. CASE held = {}
    BY <2>2, <2>3, FS_EmptySet, SessionAssumption
  <2>4. CASE held # {}
    <3>1. Cardinality(held) < Concurrency  BY <2>4 DEF Gate!Enter, Gate!Fits, Gate!Cardinality, Cardinality
    <3> QED BY <2>2, <3>1, Typed, SessionAssumption
  <2> QED BY <2>3, <2>4
<1> QED BY <1>1 DEF Gate!Enter, TypeOK

(* A step in which nobody enters or leaves _run_one keeps the slots.       *)
LEMMA SlotsKept ==
    ASSUME TypeOK, Slots, UNCHANGED slots,
           \A u \in Tests : /\ InRunOne(u)' <=> InRunOne(u)
                            /\ pc'[u] = "subprocess" => u \in Isolated
    PROVE  Slots'
<1>1. Occupied' = Occupied  BY DEF Occupied
<1> QED BY <1>1 DEF Slots, slots

(* A stack without its top. *)
LEMMA SlotPopped ==
    ASSUME NEW S, NEW s \in Seq(S), s # <<>>
    PROVE  /\ Len(s) # 0 /\ SubSeq(s, 1, Len(s) - 1) \in Seq(S)
           /\ Len(SubSeq(s, 1, Len(s) - 1)) = Len(s) - 1
           /\ \A i \in 1..(Len(s) - 1) : SubSeq(s, 1, Len(s) - 1)[i] = s[i]
<1>1. Len(s) \in Nat /\ Len(s) # 0 /\ \A i \in 1..Len(s) : s[i] \in S
  BY LenProperties, EmptySeq
<1>2. Len(s) - 1 \in Int /\ 1 \in Int /\ \A i \in 1..(Len(s) - 1) : s[i] \in S
  BY <1>1
<1>3. PICK n \in Int : n = Len(s) - 1  BY <1>2
<1>4. /\ SubSeq(s, 1, n) \in Seq(S)
      /\ Len(SubSeq(s, 1, n)) = IF 1 <= n THEN n - 1 + 1 ELSE 0
      /\ \A i \in 1..(n - 1 + 1) : SubSeq(s, 1, n)[i] = s[1 + i - 1]
  BY <1>2, <1>3, SubSeqProperties
<1>5. Len(SubSeq(s, 1, n)) = n  BY <1>1, <1>3, <1>4
<1>6. \A i \in 1..n : SubSeq(s, 1, n)[i] = s[i]
  <2> SUFFICES ASSUME NEW i \in 1..n PROVE SubSeq(s, 1, n)[i] = s[i]  OBVIOUS
  <2>1. i \in 1..(n - 1 + 1) /\ 1 + i - 1 = i  OBVIOUS
  <2> QED BY <1>4, <2>1
<1> QED BY <1>1, <1>3, <1>4, <1>5, <1>6

(* A test that enters _run_one pops a slot that nobody is in.              *)
LEMMA SlotTaken ==
    ASSUME TypeOK, Slots, NEW t \in Tests \ Isolated, TakeSlot(t),
           ~InRunOne(t), InRunOne(t)', \A u \in Tests \ {t} : pc'[u] = pc[u]
    PROVE  /\ free' \in Seq(0..(Concurrency - 1)) /\ worker' \in [Tests -> -1..(Concurrency - 1)]
           /\ Slots'
<1> DEFINE n == Len(free)
<1>1. n \in Nat /\ n # 0 /\ \A i \in 1..n : free[i] \in 0..(Concurrency - 1)
  BY Typed DEF TakeSlot, TypeOK
<1>2. /\ free' = SubSeq(free, 1, n - 1) /\ worker' = [worker EXCEPT ![t] = free[n]]
  BY DEF TakeSlot
<1>3. Len(free') = n - 1 /\ (\A i \in 1..(n - 1) : free'[i] = free[i]) /\ free' \in Seq(0..(Concurrency - 1))
  <2>1. free \in Seq(0..(Concurrency - 1)) /\ free # <<>>  BY DEF TypeOK, TakeSlot
  <2>2. /\ SubSeq(free, 1, n - 1) \in Seq(0..(Concurrency - 1))
        /\ Len(SubSeq(free, 1, n - 1)) = n - 1
        /\ \A i \in 1..(n - 1) : SubSeq(free, 1, n - 1)[i] = free[i]
    BY <2>1, SlotPopped
  <2> QED BY <1>2, <2>2
<1>5. worker' \in [Tests -> -1..(Concurrency - 1)]
  BY <1>1, <1>2, SessionAssumption DEF TypeOK
<1>6. worker'[t] = free[n] /\ \A u \in Tests \ {t} : worker'[u] = worker[u]
  BY <1>2 DEF TypeOK
<1> HIDE DEF n
<1>7. Occupied' = Occupied \cup {t} /\ t \notin Occupied
  BY DEF Occupied, InRunOne
<1>8. Cardinality(Occupied') = Cardinality(Occupied) + 1
  BY <1>7, Typed, FS_AddElement
<1>9. Cardinality(Occupied') + Len(free') = Concurrency
  BY <1>1, <1>3, <1>8, Typed DEF Slots, n
<1>10. \A i, j \in 1..Len(free') : free'[i] = free'[j] => i = j
  BY <1>1, <1>3 DEF Slots, n
<1>11. \A u \in Occupied : worker[u] # free[n]
  BY <1>1 DEF Slots, n
<1>12. \A u \in Occupied' : /\ u \notin Isolated
                            /\ worker'[u] \in 0..(Concurrency - 1)
                            /\ \A i \in 1..Len(free') : free'[i] # worker'[u]
  <2>1. \A u \in Occupied : u # t /\ u \in Tests  BY <1>7 DEF Occupied
  <2>2. \A i \in 1..(n - 1) : free[i] # free[n]  BY <1>1 DEF Slots, n
  <2> QED BY <1>1, <1>3, <1>6, <1>7, <2>1, <2>2 DEF Slots, n
<1>13. \A u, v \in Tests : InRunOne(u)' /\ InRunOne(v)' /\ u # v => worker'[u] # worker'[v]
  BY <1>6, <1>7, <1>11 DEF Slots, Occupied, InRunOne
<1>14. \A u \in Tests : pc'[u] = "subprocess" => u \in Isolated
  BY DEF Slots, InRunOne
<1> QED BY <1>3, <1>5, <1>9, <1>10, <1>12, <1>13, <1>14 DEF Slots

(* A test that leaves _run_one pushes its slot back.                       *)
LEMMA SlotFreed ==
    ASSUME TypeOK, Slots, NEW t \in Tests, FreeSlot(t),
           InRunOne(t), ~InRunOne(t)', pc'[t] # "subprocess", \A u \in Tests \ {t} : pc'[u] = pc[u]
    PROVE  /\ free' \in Seq(0..(Concurrency - 1)) /\ worker' \in [Tests -> -1..(Concurrency - 1)]
           /\ Slots'
<1> DEFINE n == Len(free)
<1>1. n \in Nat /\ \A i \in 1..n : free[i] \in 0..(Concurrency - 1)
  BY Typed
<1>2. free' = Append(free, worker[t]) /\ worker' = [worker EXCEPT ![t] = -1]
  BY DEF FreeSlot
<1>3. t \in Occupied /\ worker[t] \in 0..(Concurrency - 1) /\ \A i \in 1..n : free[i] # worker[t]
  BY DEF Slots, Occupied
<1>4. Len(free') = n + 1 /\ free'[n + 1] = worker[t] /\ \A i \in 1..n : free'[i] = free[i]
  BY <1>1, <1>2, <1>3 DEF TypeOK
<1>5. free' \in Seq(0..(Concurrency - 1)) /\ worker' \in [Tests -> -1..(Concurrency - 1)]
  BY <1>2, <1>3, SessionAssumption DEF TypeOK
<1>6. \A u \in Tests \ {t} : worker'[u] = worker[u]
  BY <1>2 DEF TypeOK
<1> HIDE DEF n
<1>7. Occupied' = Occupied \ {t}
  BY DEF Occupied, InRunOne
<1>8. Cardinality(Occupied') = Cardinality(Occupied) - 1
  BY <1>3, <1>7, Typed, FS_RemoveElement
<1>9. Cardinality(Occupied') + Len(free') = Concurrency
  BY <1>1, <1>4, <1>8, Typed DEF Slots, n
<1>10. \A i, j \in 1..Len(free') : free'[i] = free'[j] => i = j
  <2>1. \A i, j \in 1..n : free[i] = free[j] => i = j  BY DEF Slots, n
  <2>2. 1..(n + 1) = (1..n) \cup {n + 1}  BY <1>1
  <2> QED BY <1>3, <1>4, <2>1, <2>2
<1>11. \A u \in Occupied' : /\ u \notin Isolated
                            /\ worker'[u] \in 0..(Concurrency - 1)
                            /\ \A i \in 1..Len(free') : free'[i] # worker'[u]
  <2> SUFFICES ASSUME NEW u \in Occupied'
               PROVE  u \notin Isolated /\ worker'[u] \in 0..(Concurrency - 1)
                      /\ \A i \in 1..Len(free') : free'[i] # worker'[u]
    OBVIOUS
  <2>1. u \in Occupied /\ u # t /\ u \in Tests  BY <1>7 DEF Occupied
  <2>2. worker[u] # worker[t] /\ worker'[u] = worker[u]  BY <1>3, <1>6, <2>1 DEF Slots, Occupied
  <2>3. 1..(n + 1) = (1..n) \cup {n + 1}  BY <1>1
  <2>4. u \notin Isolated /\ worker[u] \in 0..(Concurrency - 1) /\ \A i \in 1..n : free[i] # worker[u]
    BY <2>1 DEF Slots, n
  <2> QED BY <1>4, <2>2, <2>3, <2>4
<1>12. \A u, v \in Tests : InRunOne(u)' /\ InRunOne(v)' /\ u # v => worker'[u] # worker'[v]
  BY <1>6 DEF Slots, InRunOne
<1>13. \A u \in Tests : pc'[u] = "subprocess" => u \in Isolated
  BY DEF Slots, InRunOne
<1> QED BY <1>5, <1>9, <1>10, <1>11, <1>12, <1>13 DEF Slots

-----------------------------------------------------------------------------
(* What a test's outcome says of it.                                       *)

(* A verdict on facts that speak for the test is no failure, is a cancelled *)
(* test's only when a stop cut it, and a timed out test's whenever its     *)
(* deadline passed.                                                        *)
LEMMA Verdicts ==
    ASSUME NEW t \in Tests, NEW f \in Facts, Credible(t, f), t \in Isolated \/ Concluded(f)
    PROVE  /\ Verdict(t, f) \in Outcome \cup {"none"}
           /\ Verdict(t, f) = "cancelled" => f.cancelled
           /\ Verdict(t, f) \in {"failed", "error"} => ~Innocent(t, f)
           /\ Verdict(t, f) \in Outcome \ {"timeout"} => ~f.expired
<1>1. f = [setup |-> f.setup, call |-> f.call, teardown |-> f.teardown, expired |-> f.expired,
           cancelled |-> f.cancelled, shipped |-> f.shipped]
      /\ f.setup \in SetupEnds_ /\ f.call \in CallEnds_ /\ f.teardown \in TeardownEnds_
      /\ f.expired \in BOOLEAN /\ f.cancelled \in BOOLEAN /\ f.shipped \in Outcome \cup {"none"}
  BY DEF Facts
<1>2. CASE t \in Isolated
  <2>1. Verdict(t, f) = f.shipped /\ t \notin Timed
    BY <1>2, SessionAssumption DEF Verdict
  <2> QED BY <1>1, <2>1 DEF Credible, Innocent, FAILING_OUTCOMES
<1>3. CASE t \notin Isolated
  <2>1. Verdict(t, f) = ResolveOutcome(f, Xfail[t]) /\ Concluded(f)
    BY <1>3 DEF Verdict
  <2>2. Xfail[t] \in {"none", "lenient", "strict"}
    BY SessionAssumption
  <2>3. CASE f.expired
    <3>1. Verdict(t, f) = "timeout"  BY <2>1, <2>3 DEF ResolveOutcome
    <3> QED BY <3>1 DEF Outcome
  <2>4. CASE ~f.expired /\ f.cancelled
    <3>1. Verdict(t, f) = "cancelled"  BY <2>1, <2>4 DEF ResolveOutcome
    <3> QED BY <2>4, <3>1 DEF Outcome
  <2>5. CASE ~f.expired /\ ~f.cancelled /\ "failed" \in {f.setup, f.teardown}
    <3>1. Verdict(t, f) = "error"  BY <2>1, <2>5 DEF ResolveOutcome
    <3> QED BY <2>5, <3>1 DEF Outcome, Innocent
  <2>6. CASE ~f.expired /\ ~f.cancelled /\ f.setup # "failed" /\ f.teardown # "failed"
             /\ "skipped" \in {f.setup, f.call}
    <3>1. Verdict(t, f) = "skipped"  BY <2>1, <2>6 DEF ResolveOutcome
    <3> QED BY <2>6, <3>1 DEF Outcome
  <2>7. CASE ~f.expired /\ ~f.cancelled /\ f.setup # "failed" /\ f.teardown # "failed"
             /\ "skipped" \notin {f.setup, f.call}
    <3>1. Verdict(t, f) = ResolveCallOutcome(f.call, Xfail[t])
      BY <2>1, <2>7 DEF ResolveOutcome
    <3>2. f.call # "none"  BY <2>1, <2>7 DEF Concluded
    <3>3. f.call \in {"passed", "expected", "failed"}  BY <1>1, <2>7, <3>2 DEF CallEnds_
    <3>4. Verdict(t, f) \in {"failed", "xfailed", "passed", "xpassed"}
          /\ (Verdict(t, f) = "failed" => f.call = "failed" \/ (f.call = "passed" /\ Xfail[t] = "strict"))
      BY <2>2, <3>1, <3>3 DEF ResolveCallOutcome
    <3> QED BY <2>7, <3>4 DEF Outcome, Innocent
  <2> QED BY <1>1, <2>3, <2>4, <2>5, <2>6, <2>7
<1> QED BY <1>2, <1>3

-----------------------------------------------------------------------------
(* What a step of one test leaves of what is known of the others.          *)

(* A step of one test does not change what is known of another.            *)
LEMMA KnowingStep ==
    ASSUME Knowing, NEW t \in Tests, Known(t)', Stopping => Stopping', fault \subseteq fault',
           group = "down" => group' = "down",
           \A u \in Tests \ {t} : pc'[u] = pc[u] /\ facts'[u] = facts[u]
    PROVE  Knowing'
<1> SUFFICES ASSUME NEW u \in Tests PROVE Known(u)'  BY DEF Knowing
<1>1. CASE u = t  BY <1>1
<1>2. CASE u # t
  <2>1. Known(u) /\ pc'[u] = pc[u] /\ facts'[u] = facts[u]  BY <1>2 DEF Knowing
  <2> QED BY <2>1 DEF Known, Credible, Concluded, Innocent
<1> QED BY <1>1, <1>2

(* A step of one test leaves the others' cancellations accounted for.      *)
LEMMA ChasingStep ==
    ASSUME Chasing, NEW t \in Tests, Accounted(t)', chased' # {} => Stopping',
           group = "down" => group' = "down",
           \A u \in Tests \ {t} : /\ pc'[u] = pc[u] /\ facts'[u] = facts[u]
                                  /\ u \in chased' \/ (due'[u] = due[u] /\ u \notin chased)
    PROVE  Chasing'
<1> SUFFICES ASSUME NEW u \in Tests PROVE Accounted(u)'  BY DEF Chasing
<1>1. CASE u = t  BY <1>1
<1>2. CASE u # t
  <2>1. Accounted(u) /\ pc'[u] = pc[u] /\ facts'[u] = facts[u]  BY <1>2 DEF Chasing
  <2> QED BY <1>2, <2>1 DEF Accounted
<1> QED BY <1>1, <1>2

(* A test that is in an envelope has reported nothing. *)
LEMMA CountingKept ==
    ASSUME Counting, UNCHANGED <<result, failures>>, reason' # "none" => reason' = reason \/ reason' = "interrupt",
           Stopping => Stopping', group' = "up" => group = "up",
           TypeOK, TypeOK',
           \A u \in Tests : pc[u] \in {"settled", "raised"} => pc'[u] = pc[u]
    PROVE  Counting'
<1>1. Failing' = Failing /\ Reported \subseteq Reported'
  BY DEF Failing, Reported
<1>2. IsFiniteSet(Reported') /\ Cardinality(Reported') \in Nat /\ Cardinality(Reported) \in Nat
  <2>1. Reported' \subseteq Tests  BY DEF Reported
  <2> QED BY <2>1, Typed, SessionAssumption, FS_Subset, FS_CardinalityType
<1>3. Cardinality(Reported) <= Cardinality(Reported')
  BY <1>1, <1>2, FS_Subset
<1>4. failures \in Nat /\ Cardinality(Reported) \in Nat  BY Typed DEF TypeOK
<1>5. \A u \in Tests : result'[u] # "none" => pc'[u] = "settled"
  BY DEF Counting
<1>6. reason' = "maxfail" => reason = "maxfail"  OBVIOUS
<1> QED BY <1>1, <1>2, <1>3, <1>4, <1>5, <1>6 DEF Counting, Stopping

-----------------------------------------------------------------------------
(* A test's way out of its envelope.                                       *)

(* Settling changes only what is the test's own, and the count.            *)
LEMMA SettleIsOwn ==
    ASSUME TypeOK, NEW t \in Tests, NEW o, Settle(t, o), pc[t] \in Envelope
    PROVE  /\ pc' \in [Tests -> {"new", "queued"} \cup Envelope \cup Ended]
           /\ pc'[t] \in {"settled", "raised"} /\ \A u \in Tests \ {t} : pc'[u] = pc[u]
           /\ facts' \in [Tests -> Facts] /\ facts'[t] = NoFacts
           /\ \A u \in Tests \ {t} : facts'[u] = facts[u] /\ result'[u] = result[u]
           /\ \/ result'[t] = o /\ pc'[t] = "settled" /\ group' = group
              \/ result'[t] = result[t] /\ group = "up" /\ group' = "failed"
           /\ o \in Outcome \cup {"none"} => result' \in [Tests -> Outcome \cup {"none"}]
<1> USE DEF TypeOK, Settle
<1>1. NoFacts \in Facts
  BY DEF NoFacts, Facts, SetupEnds_, CallEnds_, TeardownEnds_
<1>2. facts \in [Tests -> Facts]  BY Typed
<1>3. facts' \in [Tests -> Facts] /\ facts'[t] = NoFacts /\ \A u \in Tests \ {t} : facts'[u] = facts[u]
  BY <1>1, <1>2
<1>4. CASE pc' = [pc EXCEPT ![t] = "settled"] /\ result' = [result EXCEPT ![t] = o] /\ UNCHANGED group
  BY <1>3, <1>4 DEF Ended
<1>5. CASE group = "up" /\ group' = "failed" /\ pc' = [pc EXCEPT ![t] = "raised"] /\ UNCHANGED result
  BY <1>3, <1>5 DEF Ended
<1> QED BY <1>4, <1>5

(* What settling does to the cancellations.                                *)
LEMMA SettleCancels ==
    ASSUME TypeOK, Chasing, NEW t \in Tests, NEW o, Settle(t, o), pc[t] \in Envelope
    PROVE  /\ due' \in [Tests -> SUBSET {"deadline", "stop", "collateral"}]
           /\ due'[t] = {} /\ chased' \subseteq InFlight \ {t}
           /\ \A u \in Tests \ {t} : u \in chased' \/ (due'[u] = due[u] /\ u \notin chased)
           /\ reason' \in {"none", "maxfail", "interrupt"}
           /\ Stopping => reason' = reason
           /\ chased' # {} => Stopping'
           /\ reason' = reason \/ (reason' = "maxfail" /\ Counts(o))
           /\ Counts(o) /\ failures' >= MaxFail => Stopping'
<1>1. CASE Counts(o) /\ failures' >= MaxFail /\ ~Stopping
  <2> DEFINE others == InFlight \ {t}
  <2>1. /\ reason' = "maxfail" /\ chased' = others
        /\ due' = [u \in Tests |-> IF u \in others THEN due[u] \cup {"stop"}
                                   ELSE IF u = t THEN {} ELSE due[u]]
    BY <1>1 DEF Settle, Request
  <2>2. chased \subseteq InFlight /\ InFlight \subseteq Tests  BY DEF TypeOK, InFlight
  <2>3. \A u \in Tests \ {t} : u \notin others => u \notin chased  BY <2>2
  <2>4. due' \in [Tests -> SUBSET {"deadline", "stop", "collateral"}]
    BY <2>1 DEF TypeOK
  <2>5. due'[t] = {} /\ \A u \in Tests \ {t} : u \notin others => due'[u] = due[u]
    BY <2>1
  <2> QED BY <1>1, <2>1, <2>3, <2>4, <2>5 DEF Stopping
<1>2. CASE ~(Counts(o) /\ failures' >= MaxFail /\ ~Stopping)
  <2>1. chased' = Unregistered(t) /\ due' = [due EXCEPT ![t] = {}] /\ reason' = reason
    BY <1>2 DEF Settle, Request
  <2>2. chased \subseteq InFlight  BY DEF TypeOK
  <2> QED BY <1>2, <2>1, <2>2 DEF TypeOK, Unregistered, Stopping, Chasing
<1> QED BY <1>1, <1>2

(* A test's place may or may not be given back: those who stay keep theirs. *)
LEMMA PlacesHeld ==
    ASSUME TypeOK, Placed, NEW t \in Tests, Gate!Leave(t) \/ Gate!Withdraw(t) \/ UNCHANGED gate,
           \A u \in Tests : pc'[u] \in Envelope => u # t /\ pc[u] \in Envelope
    PROVE  Placed' /\ asking' \subseteq Tests /\ held' \subseteq Tests /\ gone' \subseteq Tests
BY PlacesLeft DEF Placed, Envelope

(* The count is of the failures reported, and the stop comes in time.      *)
LEMMA SettleCounts ==
    ASSUME TypeOK, Counting, Chasing, NEW t \in Tests, NEW o \in Outcome \cup {"none"}, Settle(t, o),
           pc[t] \in Envelope
    PROVE  Counting' /\ failures' \in 0..Cardinality(Tests)
<1>1. /\ pc'[t] \in {"settled", "raised"} /\ \A u \in Tests \ {t} : pc'[u] = pc[u]
      /\ \A u \in Tests \ {t} : result'[u] = result[u]
      /\ \/ result'[t] = o /\ pc'[t] = "settled" /\ group' = group
         \/ result'[t] = result[t] /\ group = "up" /\ group' = "failed"
  BY SettleIsOwn
<1>2. /\ Stopping => reason' = reason
      /\ reason' = reason \/ (reason' = "maxfail" /\ Counts(o))
      /\ Counts(o) /\ failures' >= MaxFail => Stopping'
  BY SettleCancels
<1>3. failures' = IF Counts(o) THEN failures + 1 ELSE failures
  BY DEF Settle
<1>4. result[t] = "none"
  BY DEF Counting, Envelope, TypeOK
<1>5. \A u \in Tests : result'[u] # "none" => pc'[u] = "settled"
  BY <1>1, <1>4 DEF Counting
<1>6. Failing' \subseteq Failing \cup {t} /\ (o \notin FAILING_OUTCOMES => Failing' \subseteq Failing)
  BY <1>1, <1>4 DEF Failing, FAILING_OUTCOMES
<1>7. Failing \subseteq Failing' /\ (o \in FAILING_OUTCOMES /\ group' = group => t \in Failing')
  BY <1>1, <1>4 DEF Failing, FAILING_OUTCOMES
<1>8. Reported' = Reported \cup {t} /\ t \notin Reported /\ Reported' \subseteq Tests
  BY <1>1 DEF Reported, Envelope
<1>9. Cardinality(Reported') = Cardinality(Reported) + 1 /\ Cardinality(Reported) \in Nat
      /\ Cardinality(Reported') <= Cardinality(Tests) /\ Cardinality(Tests) \in Nat
  BY <1>8, Typed, SessionAssumption, FS_AddElement, FS_Subset
<1>10. failures \in Nat /\ failures <= Cardinality(Reported) /\ MaxFail \in Nat
  BY SessionAssumption, Typed DEF Counting, TypeOK
<1>11. /\ Cardinality(Failing \cup {t}) <= Cardinality(Failing) + 1
       /\ IsFiniteSet(Failing \cup {t}) /\ Cardinality(Failing \cup {t}) \in Nat
       /\ IsFiniteSet(Failing) /\ Cardinality(Failing) \in Nat
  <2>1. IsFiniteSet(Failing) /\ Cardinality(Failing) \in Nat  BY Typed
  <2>2. CASE t \in Failing
    <3>1. Failing \cup {t} = Failing  BY <2>2
    <3>2. Cardinality(Failing \cup {t}) = Cardinality(Failing) /\ IsFiniteSet(Failing \cup {t})
      BY <2>1, <3>1, Zenon
    <3> QED BY <2>1, <3>2
  <2>3. CASE t \notin Failing  BY <2>1, <2>3, FS_AddElement
  <2> QED BY <2>1, <2>2, <2>3
<1>12. MaxFail > 0 => Cardinality(Failing') <= failures'
  <2>1. MaxFail > 0 => Cardinality(Failing) <= failures  BY DEF Counting
  <2>2. Cardinality(Failing') \in Nat /\ Cardinality(Failing') <= Cardinality(Failing \cup {t})
    BY <1>6, <1>11, FS_Subset, FS_CardinalityType
  <2>3. o \notin FAILING_OUTCOMES => Cardinality(Failing') <= Cardinality(Failing)
    BY <1>6, <1>11, FS_Subset
  <2> QED BY <1>3, <1>10, <1>11, <2>1, <2>2, <2>3 DEF Counts
<1>13. MaxFail = 0 => failures' = 0
  BY <1>3, <1>10 DEF Counting, Counts
<1>14. ~Stopping' /\ MaxFail > 0 => failures' < MaxFail
  BY <1>2, <1>3, <1>10 DEF Counting, Stopping
<1>15. failures' <= Cardinality(Reported') /\ failures' \in 0..Cardinality(Tests)
  BY <1>3, <1>9, <1>10
<1>16. reason' = "maxfail" /\ group' = "up" => Failing' # {}
  <2>1. CASE group' = group  BY <1>2, <1>7, <2>1 DEF Counting, Counts
  <2>2. CASE group' = "failed"  BY <2>2
  <2> QED BY <1>1, <2>1, <2>2
<1> QED BY <1>5, <1>12, <1>13, <1>14, <1>15, <1>16 DEF Counting

(* One test's report is all a step adds to `results`.                      *)
LEMMA OneReports ==
    ASSUME NEW t \in Tests, NEW o, Warranted(t, o),
           \A u \in Tests : pc'[u] \in Envelope => pc[u] \in Envelope,
           \A u \in Tests \ {t} : result'[u] = result[u],
           result'[t] = result[t] \/ result'[t] = o
    PROVE  Permitted
BY DEF Permitted, InFlight

(* The slot is free again, unless the test never had one.                  *)
LEMMA SlotReturned ==
    ASSUME TypeOK, Slots, NEW t \in Tests,
           IF InRunOne(t) THEN FreeSlot(t) ELSE UNCHANGED slots,
           ~InRunOne(t)', pc'[t] # "subprocess", \A u \in Tests \ {t} : pc'[u] = pc[u]
    PROVE  /\ free' \in Seq(0..(Concurrency - 1)) /\ worker' \in [Tests -> -1..(Concurrency - 1)]
           /\ Slots'
<1>1. CASE InRunOne(t)  BY <1>1, SlotFreed
<1>2. CASE ~InRunOne(t)
  <2>1. UNCHANGED slots  BY <1>2
  <2>2. \A u \in Tests : (InRunOne(u)' <=> InRunOne(u)) /\ (pc'[u] = "subprocess" => u \in Isolated)
    BY <1>2 DEF InRunOne, Slots
  <2> QED BY <2>1, <2>2, SlotsKept DEF slots, TypeOK
<1> QED BY <1>1, <1>2

-----------------------------------------------------------------------------
(* The steps an envelope is made of.                                       *)

(* A test settles, with a verdict its facts warrant.                       *)
LEMMA SettleStep ==
    ASSUME IInv, NEW t \in Tests, NEW o \in Outcome \cup {"none"}, Settle(t, o), pc[t] \in Envelope,
           IF InRunOne(t) THEN FreeSlot(t) ELSE UNCHANGED slots,
           UNCHANGED <<presses, told, aborting, stage>>,
           fault \subseteq fault', fault' \subseteq Tests, Warranted(t, o)
    PROVE  IInv' /\ Permitted
<1>1. TypeOK /\ Placed /\ Slots /\ Counting /\ Knowing /\ Chasing  BY DEF IInv
<1>2. /\ pc' \in [Tests -> {"new", "queued"} \cup Envelope \cup Ended]
      /\ pc'[t] \in {"settled", "raised"} /\ \A u \in Tests \ {t} : pc'[u] = pc[u]
      /\ facts' \in [Tests -> Facts] /\ facts'[t] = NoFacts
      /\ \A u \in Tests \ {t} : facts'[u] = facts[u] /\ result'[u] = result[u]
      /\ \/ result'[t] = o /\ pc'[t] = "settled" /\ group' = group
         \/ result'[t] = result[t] /\ group = "up" /\ group' = "failed"
      /\ result' \in [Tests -> Outcome \cup {"none"}]
  BY <1>1, SettleIsOwn
<1>3. /\ due' \in [Tests -> SUBSET {"deadline", "stop", "collateral"}]
      /\ due'[t] = {} /\ chased' \subseteq InFlight \ {t}
      /\ \A u \in Tests \ {t} : u \in chased' \/ (due'[u] = due[u] /\ u \notin chased)
      /\ reason' \in {"none", "maxfail", "interrupt"}
      /\ Stopping => reason' = reason
      /\ chased' # {} => Stopping'
  BY <1>1, SettleCancels
<1>4. Counting' /\ failures' \in 0..Cardinality(Tests)
  BY <1>1, SettleCounts
<1>5. \A u \in Tests : pc'[u] \in Envelope => u # t /\ pc[u] \in Envelope
  BY <1>2 DEF Envelope
<1>6. Placed' /\ asking' \subseteq Tests /\ held' \subseteq Tests /\ gone' \subseteq Tests
  <2>1. Gate!Leave(t) \/ Gate!Withdraw(t) \/ UNCHANGED gate  BY DEF Settle, Release
  <2> QED BY <1>1, <1>5, <2>1, PlacesHeld
<1>7. free' \in Seq(0..(Concurrency - 1)) /\ worker' \in [Tests -> -1..(Concurrency - 1)] /\ Slots'
  <2>1. ~InRunOne(t)' /\ pc'[t] # "subprocess"  BY <1>2 DEF InRunOne
  <2> QED BY <1>1, <1>2, <2>1, SlotReturned
<1>8. chased' \subseteq InFlight'
  BY <1>2, <1>3 DEF InFlight
<1>9. group' \in {"up", "failed", "down"}  BY <1>1, <1>2 DEF TypeOK
<1>10. TypeOK'
  BY <1>1, <1>2, <1>3, <1>4, <1>6, <1>7, <1>8, <1>9 DEF TypeOK, Facts
<1>11. Knowing'
  <2>1. Known(t)'
    BY <1>2 DEF Known, Credible, Innocent, NoFacts, FAILING_OUTCOMES, Outcome
  <2>2. Stopping => Stopping'  BY <1>3 DEF Stopping
  <2>3. group = "down" => group' = "down"  BY <1>2
  <2> QED BY <1>1, <1>2, <2>1, <2>2, <2>3, KnowingStep
<1>12. Chasing'
  <2>1. Accounted(t)'  BY <1>3 DEF Accounted
  <2>2. group = "down" => group' = "down"  BY <1>2
  <2> QED BY <1>1, <1>2, <1>3, <2>1, <2>2, ChasingStep
<1>13. Permitted
  BY <1>2, <1>5, OneReports
<1> QED BY <1>4, <1>6, <1>7, <1>10, <1>11, <1>12, <1>13 DEF IInv

(* A test goes on to its next phase, or to the flush of its module.        *)
LEMMA PhaseStep ==
    ASSUME IInv, NEW t \in Tests, NEW f \in Facts, NEW p \in {"call", "teardown", "flush"},
           facts' = [facts EXCEPT ![t] = f], pc' = [pc EXCEPT ![t] = p], pc[t] \in Envelope,
           p # "flush" => InRunOne(t),
           IF p = "flush" /\ InRunOne(t) THEN FreeSlot(t) ELSE UNCHANGED slots,
           \/ UNCHANGED <<due, chased>> /\ (p = "flush" \/ due[t] = {})
           \/ due' = [due EXCEPT ![t] = {}] /\ chased' = Unregistered(t),
           UNCHANGED <<gate, result, failures, stop, group, stage>>,
           fault \subseteq fault', fault' \subseteq Tests,
           Credible(t, f), p = "call" => f.call = "none" /\ ~f.cancelled,
           p \in {"teardown", "flush"} /\ t \notin Isolated => Concluded(f),
           t \in fault' \/ group = "down" \/ Innocent(t, f)
    PROVE  IInv' /\ Permitted
<1>1. TypeOK /\ Placed /\ Slots /\ Counting /\ Knowing /\ Chasing  BY DEF IInv
<1>2. /\ pc' \in [Tests -> {"new", "queued"} \cup Envelope \cup Ended]
      /\ pc'[t] = p /\ \A u \in Tests \ {t} : pc'[u] = pc[u]
      /\ facts' \in [Tests -> Facts] /\ facts'[t] = f /\ \A u \in Tests \ {t} : facts'[u] = facts[u]
  <2>1. facts \in [Tests -> Facts]  BY <1>1, Typed
  <2> QED BY <1>1, <2>1 DEF TypeOK, Envelope
<1>3. /\ UNCHANGED <<asking, held, gone, reason, presses, told, aborting>>
  BY DEF gate, stop
<1>4. Placed'
  BY <1>1, <1>2, <1>3 DEF Placed
<1>5. free' \in Seq(0..(Concurrency - 1)) /\ worker' \in [Tests -> -1..(Concurrency - 1)] /\ Slots'
  <2>1. CASE p = "flush"
    <3>1. ~InRunOne(t)' /\ pc'[t] # "subprocess"  BY <1>2, <2>1 DEF InRunOne
    <3> QED BY <1>1, <1>2, <2>1, <3>1, SlotReturned
  <2>2. CASE p \in {"call", "teardown"}
    <3>1. UNCHANGED slots  BY <2>2
    <3>2. \A u \in Tests : (InRunOne(u)' <=> InRunOne(u)) /\ (pc'[u] = "subprocess" => u \in Isolated)
      BY <1>1, <1>2, <2>2 DEF InRunOne, Slots
    <3> QED BY <1>1, <3>1, <3>2, SlotsKept DEF slots, TypeOK
  <2> QED BY <2>1, <2>2
<1>6. /\ due' \in [Tests -> SUBSET {"deadline", "stop", "collateral"}] /\ chased' \subseteq chased
      /\ \A u \in Tests \ {t} : due'[u] = due[u] /\ (u \in chased' <=> u \in chased)
      /\ p = "flush" \/ due'[t] = {}
  BY <1>1 DEF TypeOK, Unregistered
<1>7. chased' \subseteq InFlight'
  BY <1>1, <1>2, <1>6 DEF TypeOK, InFlight, Envelope
<1>8. TypeOK'
  BY <1>1, <1>2, <1>3, <1>5, <1>6, <1>7 DEF TypeOK, Facts
<1>9. Counting'
  <2>1. \A u \in Tests : pc[u] \in {"settled", "raised"} => pc'[u] = pc[u]
    BY <1>2 DEF Envelope
  <2> QED BY <1>1, <1>3, <1>8, <2>1, CountingKept DEF Stopping
<1>10. Knowing'
  <2>1. Known(t)'
    BY <1>2, <1>3 DEF Known, Credible, Innocent, Concluded, Stopping
  <2> QED BY <1>1, <1>2, <1>3, <2>1, KnowingStep DEF Stopping
<1>11. Chasing'
  <2>1. Accounted(t)'  BY <1>2, <1>6 DEF Accounted
  <2>2. chased' # {} => Stopping'  BY <1>1, <1>3, <1>6 DEF Chasing, Stopping
  <2>3. \A u \in Tests \ {t} : u \in chased' \/ (due'[u] = due[u] /\ u \notin chased)
    BY <1>6
  <2> QED BY <1>1, <1>2, <2>1, <2>2, <2>3, ChasingStep
<1>12. Permitted
  <2>1. \A u \in Tests : pc'[u] \in Envelope => pc[u] \in Envelope  BY <1>2
  <2> QED BY <2>1 DEF Permitted, InFlight
<1> QED BY <1>4, <1>5, <1>8, <1>9, <1>10, <1>11, <1>12 DEF IInv

(* A test leaves _run_one, or its subprocess, with facts f.                *)
LEMMA LeavesStep ==
    ASSUME IInv, NEW t \in Tests, NEW f \in Facts, Leaves(t, f),
           pc[t] \in {"setup", "call", "teardown", "subprocess"},
           pc[t] = "subprocess" \/ t \notin Isolated,
           fault \subseteq fault', fault' \subseteq Tests,
           Credible(t, f), t \notin Isolated => Concluded(f),
           t \in fault' \/ group = "down" \/ Innocent(t, f),
           facts[t].call = "none" \/ ~f.cancelled, facts[t].expired = f.expired
    PROVE  IInv' /\ Permitted
<1>1. TypeOK /\ Placed /\ Slots /\ Counting /\ Knowing /\ Chasing  BY DEF IInv
<1>2. t \in Isolated <=> ~InRunOne(t)
  BY <1>1 DEF Slots, InRunOne
<1>3. IF InRunOne(t) THEN FreeSlot(t) ELSE UNCHANGED slots
  BY <1>2 DEF Leaves
<1>4. UNCHANGED <<presses, told, aborting, stage>>  BY DEF Leaves
<1>5. pc[t] \in Envelope  BY DEF Envelope
<1>6. CASE Settle(t, Verdict(t, f))
  <2>1. /\ Verdict(t, f) \in Outcome \cup {"none"}
        /\ Verdict(t, f) = "cancelled" => f.cancelled
        /\ Verdict(t, f) \in {"failed", "error"} => ~Innocent(t, f)
        /\ Verdict(t, f) \in Outcome \ {"timeout"} => ~f.expired
    BY Verdicts
  <2>2. Warranted(t, Verdict(t, f))
    BY <2>1 DEF Warranted, Credible
  <2> QED BY <1>3, <1>4, <1>5, <1>6, <2>1, <2>2, SettleStep
<1>7. CASE /\ pc' = [pc EXCEPT ![t] = "flush"]
           /\ facts' = [facts EXCEPT ![t] = f]
           /\ UNCHANGED <<gate, due, chased, result, failures, reason, group>>
  <2>1. UNCHANGED stop /\ UNCHANGED stage  BY <1>4, <1>7 DEF stop
  <2> QED BY <1>3, <1>5, <1>7, <2>1, PhaseStep
<1> QED BY <1>6, <1>7 DEF Leaves

(* A bounded change to what is known of one test.                          *)
LEMMA FactsKept ==
    ASSUME TypeOK, NEW t \in Tests
    PROVE  /\ facts[t] \in Facts
           /\ \A r \in SetupEnds_ : [facts[t] EXCEPT !.setup = r] \in Facts
           /\ \A r \in CallEnds_ : [facts[t] EXCEPT !.call = r] \in Facts
           /\ \A r \in TeardownEnds_ : [facts[t] EXCEPT !.teardown = r] \in Facts
           /\ \A o \in Outcome : [facts[t] EXCEPT !.shipped = o] \in Facts
           /\ [facts[t] EXCEPT !.cancelled = TRUE] \in Facts
           /\ [facts[t] EXCEPT !.expired = TRUE] \in Facts
<1>1. facts[t] \in Facts  BY Typed
<1> QED BY <1>1 DEF Facts

(* SetupEnds keeps the invariant, and is permitted.                        *)
LEMMA SetupEndsStep == ASSUME IInv, NEW t \in Tests, SetupEnds(t) PROVE IInv' /\ Permitted
<1>1. TypeOK /\ Slots /\ Known(t)  BY DEF IInv, Knowing
<1>2. pc[t] = "setup" /\ due[t] = {} /\ t \notin Isolated /\ facts[t] \in Facts
  BY <1>1, FactsKept DEF SetupEnds, Slots, Occupied, InRunOne
<1>3. /\ Credible(t, facts[t]) /\ facts[t].call = "none" /\ ~facts[t].cancelled
      /\ t \in fault \/ group = "down" \/ Innocent(t, facts[t])
  BY <1>1, <1>2 DEF Known
<1>4. CASE /\ GoesTo(t, "call", [facts[t] EXCEPT !.setup = "ok"])
           /\ UNCHANGED <<due, chased, fault>>
  <2> DEFINE f == [facts[t] EXCEPT !.setup = "ok"]
  <2>1. f \in Facts  BY <1>1, FactsKept DEF SetupEnds_
  <2>2. /\ f.setup = "ok" /\ f.call = facts[t].call /\ f.teardown = facts[t].teardown
        /\ f.expired = facts[t].expired /\ f.cancelled = facts[t].cancelled
        /\ f.shipped = facts[t].shipped
    BY <1>2 DEF Facts
  <2>3. Credible(t, f) /\ f.call = "none" /\ ~f.cancelled
        /\ (t \in fault' \/ group = "down" \/ Innocent(t, f))
    BY <1>3, <1>4, <2>2 DEF Credible, Innocent
  <2>4. GoesTo(t, "call", f) /\ UNCHANGED <<due, chased, fault>>  BY <1>4
  <2> HIDE DEF f
  <2> QED BY <1>1, <1>2, <2>1, <2>3, <2>4, PhaseStep DEF GoesTo, InRunOne, Envelope, TypeOK
<1>5. CASE \E r \in {"failed", "skipped"} :
             /\ Leaves(t, [facts[t] EXCEPT !.setup = r])
             /\ fault' = IF r = "failed" THEN fault \cup {t} ELSE fault
  <2>1. PICK r \in {"failed", "skipped"} :
             /\ Leaves(t, [facts[t] EXCEPT !.setup = r])
             /\ fault' = IF r = "failed" THEN fault \cup {t} ELSE fault
    BY <1>5
  <2> DEFINE f == [facts[t] EXCEPT !.setup = r]
  <2>2. f \in Facts  BY <1>1, FactsKept DEF SetupEnds_
  <2>3. /\ f.setup = r /\ f.call = facts[t].call /\ f.teardown = facts[t].teardown
        /\ f.expired = facts[t].expired /\ f.cancelled = facts[t].cancelled
        /\ f.shipped = facts[t].shipped
    BY <1>2 DEF Facts
  <2>4. Leaves(t, f)  BY <2>1
  <2> HIDE DEF f
  <2>5. Credible(t, f) /\ Concluded(f) /\ (t \in fault' \/ group = "down" \/ Innocent(t, f))
    BY <1>3, <2>1, <2>3 DEF Credible, Innocent, Concluded
  <2>6. fault \subseteq fault' /\ fault' \subseteq Tests  BY <1>1, <2>1 DEF TypeOK
  <2> QED BY <1>2, <1>3, <2>2, <2>3, <2>4, <2>5, <2>6, LeavesStep
<1> QED BY <1>4, <1>5 DEF SetupEnds

(* CallEnds keeps the invariant, and is permitted.                         *)
LEMMA CallEndsStep == ASSUME IInv, NEW t \in Tests, CallEnds(t) PROVE IInv' /\ Permitted
<1>1. TypeOK /\ Slots /\ Known(t)  BY DEF IInv, Knowing
<1>2. pc[t] = "call" /\ due[t] = {} /\ facts[t] \in Facts
  BY <1>1, FactsKept DEF CallEnds
<1>3. /\ Credible(t, facts[t]) /\ ~facts[t].cancelled
      /\ t \in fault \/ group = "down" \/ Innocent(t, facts[t])
  BY <1>1, <1>2 DEF Known
<1>4. PICK r \in CallEnds_ \ {"none"} :
         /\ GoesTo(t, "teardown", [facts[t] EXCEPT !.call = r])
         /\ fault' = IF r = "failed" \/ (r = "passed" /\ Xfail[t] = "strict")
                     THEN fault \cup {t} ELSE fault
  BY DEF CallEnds
<1> DEFINE f == [facts[t] EXCEPT !.call = r]
<1>5. f \in Facts  BY <1>1, FactsKept
<1>6. /\ f.call = r /\ f.setup = facts[t].setup /\ f.teardown = facts[t].teardown
      /\ f.expired = facts[t].expired /\ f.cancelled = facts[t].cancelled
      /\ f.shipped = facts[t].shipped
  BY <1>2 DEF Facts
<1>7. GoesTo(t, "teardown", f) /\ UNCHANGED <<due, chased>>  BY <1>4 DEF CallEnds
<1> HIDE DEF f
<1>8. Credible(t, f) /\ Concluded(f) /\ (t \in fault' \/ group = "down" \/ Innocent(t, f))
  BY <1>3, <1>4, <1>6 DEF Credible, Innocent, Concluded
<1>9. fault \subseteq fault' /\ fault' \subseteq Tests  BY <1>1, <1>4 DEF TypeOK
<1> QED BY <1>2, <1>5, <1>7, <1>8, <1>9, PhaseStep DEF GoesTo, InRunOne, Envelope

(* TeardownEnds keeps the invariant, and is permitted.                     *)
LEMMA TeardownEndsStep == ASSUME IInv, NEW t \in Tests, TeardownEnds(t) PROVE IInv' /\ Permitted
<1>1. TypeOK /\ Slots /\ Known(t)  BY DEF IInv, Knowing
<1>2. pc[t] = "teardown" /\ due[t] = {} /\ t \notin Isolated /\ facts[t] \in Facts
  BY <1>1, FactsKept DEF TeardownEnds, Slots, Occupied, InRunOne
<1>3. /\ Credible(t, facts[t]) /\ Concluded(facts[t])
      /\ t \in fault \/ group = "down" \/ Innocent(t, facts[t])
  BY <1>1, <1>2 DEF Known
<1>4. PICK r \in TeardownEnds_ :
         /\ Leaves(t, [facts[t] EXCEPT !.teardown = r])
         /\ fault' = IF r = "failed" THEN fault \cup {t} ELSE fault
  BY DEF TeardownEnds
<1> DEFINE f == [facts[t] EXCEPT !.teardown = r]
<1>5. f \in Facts  BY <1>1, FactsKept
<1>6. /\ f.teardown = r /\ f.setup = facts[t].setup /\ f.call = facts[t].call
      /\ f.expired = facts[t].expired /\ f.cancelled = facts[t].cancelled
      /\ f.shipped = facts[t].shipped
  BY <1>2 DEF Facts
<1>7. Leaves(t, f)  BY <1>4
<1> HIDE DEF f
<1>8. Credible(t, f) /\ Concluded(f) /\ (t \in fault' \/ group = "down" \/ Innocent(t, f))
  BY <1>3, <1>4, <1>6 DEF Credible, Innocent, Concluded
<1>9. fault \subseteq fault' /\ fault' \subseteq Tests  BY <1>1, <1>4 DEF TypeOK
<1>10. facts[t].call = "none" \/ ~f.cancelled
  BY <1>3, <1>6 DEF Credible
<1> QED BY <1>2, <1>5, <1>6, <1>7, <1>8, <1>9, <1>10, LeavesStep

(* FlushEnds keeps the invariant, and is permitted.                        *)
LEMMA FlushEndsStep == ASSUME IInv, NEW t \in Tests, FlushEnds(t) PROVE IInv' /\ Permitted
<1>1. TypeOK /\ Known(t)  BY DEF IInv, Knowing
<1> DEFINE f == facts[t]
<1>2. pc[t] = "flush" /\ f \in Facts  BY <1>1, FactsKept DEF FlushEnds
<1>3. Credible(t, f) /\ (t \in Isolated \/ Concluded(f))
      /\ (t \in fault \/ group = "down" \/ Innocent(t, f))
  BY <1>1, <1>2 DEF Known
<1>4. Settle(t, Verdict(t, f)) /\ UNCHANGED <<slots, presses, told, aborting, stage, fault>>
  BY DEF FlushEnds
<1>5. /\ Verdict(t, f) \in Outcome \cup {"none"}
      /\ Verdict(t, f) = "cancelled" => f.cancelled
      /\ Verdict(t, f) \in {"failed", "error"} => ~Innocent(t, f)
      /\ Verdict(t, f) \in Outcome \ {"timeout"} => ~f.expired
  BY <1>2, <1>3, Verdicts
<1>6. Warranted(t, Verdict(t, f))
  BY <1>3, <1>4, <1>5 DEF Warranted, Credible
<1>7. ~InRunOne(t) /\ pc[t] \in Envelope  BY <1>2 DEF InRunOne, Envelope
<1>8. fault \subseteq fault' /\ fault' \subseteq Tests  BY <1>1, <1>4 DEF TypeOK
<1> HIDE DEF f
<1> QED BY <1>4, <1>5, <1>6, <1>7, <1>8, SettleStep

(* SubprocessEnds keeps the invariant, and is permitted.                   *)
LEMMA SubprocessEndsStep == ASSUME IInv, NEW t \in Tests, SubprocessEnds(t) PROVE IInv' /\ Permitted
<1>1. TypeOK /\ Slots /\ Known(t)  BY DEF IInv, Knowing
<1>2. pc[t] = "subprocess" /\ t \in Isolated /\ facts[t] \in Facts
  BY <1>1, FactsKept DEF SubprocessEnds, Slots
<1>3. /\ Credible(t, facts[t]) /\ facts[t].call = "none"
      /\ t \in fault \/ group = "down" \/ Innocent(t, facts[t])
  BY <1>1, <1>2 DEF Known
<1>4. PICK o \in Outcome \ {"cancelled"} :
         /\ Leaves(t, [facts[t] EXCEPT !.shipped = o])
         /\ fault' = IF o \in FAILING_OUTCOMES THEN fault \cup {t} ELSE fault
  BY DEF SubprocessEnds
<1> DEFINE f == [facts[t] EXCEPT !.shipped = o]
<1>5. f \in Facts  BY <1>1, FactsKept
<1>6. /\ f.shipped = o /\ f.setup = facts[t].setup /\ f.call = facts[t].call
      /\ f.teardown = facts[t].teardown
      /\ f.expired = facts[t].expired /\ f.cancelled = facts[t].cancelled
  BY <1>2 DEF Facts
<1>7. Leaves(t, f)  BY <1>4
<1> HIDE DEF f
<1>8. Credible(t, f) /\ (t \in fault' \/ group = "down" \/ Innocent(t, f))
  BY <1>3, <1>4, <1>6 DEF Credible, Innocent
<1>9. fault \subseteq fault' /\ fault' \subseteq Tests  BY <1>1, <1>4 DEF TypeOK
<1> QED BY <1>2, <1>3, <1>5, <1>6, <1>7, <1>8, <1>9, LeavesStep

-----------------------------------------------------------------------------
(* Where a cancellation lands.                                             *)

(* Cut: without a claim it is the deadline's, or the group's doing.        *)
LEMMA CutStep == ASSUME IInv, NEW t \in Tests, Cut(t) PROVE IInv' /\ Permitted
<1>1. TypeOK /\ Slots /\ Known(t) /\ Accounted(t) /\ (chased # {} => Stopping)
  BY DEF IInv, Knowing, Chasing
<1>2. pc[t] \in {"setup", "call"} /\ due[t] # {} /\ t \notin Isolated /\ facts[t] \in Facts
      /\ UNCHANGED fault
  BY <1>1, FactsKept DEF Cut, Slots, Occupied, InRunOne
<1>3. /\ Credible(t, facts[t]) /\ facts[t].call = "none" /\ ~facts[t].cancelled
      /\ t \in fault \/ group = "down" \/ Innocent(t, facts[t])
  BY <1>1, <1>2 DEF Known
<1>4. PICK f \in IF t \in chased THEN {[facts[t] EXCEPT !.cancelled = TRUE]} ELSE Collateral(t) :
         \/ pc[t] = "setup" /\ Leaves(t, f)
         \/ /\ pc[t] = "call" /\ GoesTo(t, "teardown", f)
            /\ due' = [due EXCEPT ![t] = {}] /\ chased' = Unregistered(t)
  BY DEF Cut
<1>5. /\ f \in Facts /\ Credible(t, f) /\ Concluded(f) /\ f.expired = facts[t].expired
      /\ t \in fault \/ group = "down" \/ Innocent(t, f)
  <2>1. CASE t \in chased
    <3>1. f = [facts[t] EXCEPT !.cancelled = TRUE] /\ f \in Facts  BY <1>1, <1>4, <2>1, FactsKept
    <3>2. /\ f.cancelled = TRUE /\ f.call = facts[t].call /\ f.setup = facts[t].setup
          /\ f.teardown = facts[t].teardown /\ f.expired = facts[t].expired
          /\ f.shipped = facts[t].shipped
      BY <1>2, <3>1 DEF Facts
    <3>3. Stopping  BY <1>1, <2>1
    <3> QED BY <1>3, <3>1, <3>2, <3>3 DEF Credible, Concluded, Innocent
  <2>2. CASE t \notin chased /\ facts[t].expired
    <3>1. f = facts[t]  BY <1>4, <2>2 DEF Collateral
    <3> QED BY <1>2, <1>3, <2>2, <3>1 DEF Concluded
  <2>3. CASE t \notin chased /\ ~facts[t].expired
    <3>1. group = "down"  BY <1>1, <1>2, <2>3 DEF Accounted
    <3>2. PICK r \in {"failed", "expected"} : f = [facts[t] EXCEPT ![pc[t]] = r] /\ (pc[t] = "setup" => r = "failed")
      BY <1>2, <1>4, <2>3 DEF Collateral
    <3>3. CASE pc[t] = "setup"
      <4>1. f = [facts[t] EXCEPT !.setup = "failed"]  BY <3>2, <3>3
      <4>2. f \in Facts  BY <1>1, <4>1, FactsKept DEF SetupEnds_
      <4>3. /\ f.setup = "failed" /\ f.call = facts[t].call /\ f.expired = facts[t].expired
            /\ f.cancelled = facts[t].cancelled /\ f.shipped = facts[t].shipped
        BY <1>2, <4>1 DEF Facts
      <4> QED BY <1>3, <3>1, <4>2, <4>3 DEF Credible, Concluded
    <3>4. CASE pc[t] = "call"
      <4>1. f = [facts[t] EXCEPT !.call = r]  BY <3>2, <3>4
      <4>2. f \in Facts  BY <1>1, <4>1, FactsKept DEF CallEnds_
      <4>3. /\ f.call = r /\ f.expired = facts[t].expired
            /\ f.cancelled = facts[t].cancelled /\ f.shipped = facts[t].shipped
        BY <1>2, <4>1 DEF Facts
      <4> QED BY <1>3, <3>1, <4>2, <4>3 DEF Credible, Concluded
    <3> QED BY <1>2, <3>3, <3>4
  <2> QED BY <2>1, <2>2, <2>3
<1>6. fault \subseteq fault' /\ fault' \subseteq Tests  BY <1>1, <1>2 DEF TypeOK
<1>7. CASE Leaves(t, f)
  BY <1>2, <1>3, <1>5, <1>6, <1>7, LeavesStep
<1>8. CASE /\ pc[t] = "call" /\ GoesTo(t, "teardown", f)
           /\ due' = [due EXCEPT ![t] = {}] /\ chased' = Unregistered(t)
  <2>1. /\ facts' = [facts EXCEPT ![t] = f] /\ pc' = [pc EXCEPT ![t] = "teardown"]
        /\ UNCHANGED <<gate, slots, result, failures, stop, group, stage>>
    BY <1>8 DEF GoesTo
  <2>2. InRunOne(t) /\ pc[t] \in Envelope  BY <1>8 DEF InRunOne, Envelope
  <2>3. t \in fault' \/ group = "down" \/ Innocent(t, f)  BY <1>2, <1>5
  <2> QED BY <1>2, <1>5, <1>6, <1>8, <2>1, <2>2, <2>3, PhaseStep
<1> QED BY <1>4, <1>7, <1>8

(* CutTeardown: only the group's fall makes a failure of it.               *)
LEMMA CutTeardownStep == ASSUME IInv, NEW t \in Tests, CutTeardown(t) PROVE IInv' /\ Permitted
<1>1. TypeOK /\ Slots /\ Known(t) /\ Accounted(t)  BY DEF IInv, Knowing, Chasing
<1>2. pc[t] = "teardown" /\ due[t] # {} /\ t \notin Isolated /\ facts[t] \in Facts /\ UNCHANGED fault
  BY <1>1, FactsKept DEF CutTeardown, Slots, Occupied, InRunOne
<1>3. /\ Credible(t, facts[t]) /\ Concluded(facts[t])
      /\ t \in fault \/ group = "down" \/ Innocent(t, facts[t])
  BY <1>1, <1>2 DEF Known
<1>4. PICK r \in TeardownEnds_ : /\ r = IF t \in chased THEN facts[t].teardown ELSE "failed"
                                 /\ Leaves(t, [facts[t] EXCEPT !.teardown = r])
  BY <1>2 DEF CutTeardown, Facts, TeardownEnds_
<1> DEFINE f == [facts[t] EXCEPT !.teardown = r]
<1>5. f \in Facts  BY <1>1, FactsKept
<1>6. /\ f.teardown = r /\ f.setup = facts[t].setup /\ f.call = facts[t].call
      /\ f.expired = facts[t].expired /\ f.cancelled = facts[t].cancelled
      /\ f.shipped = facts[t].shipped
  BY <1>2 DEF Facts
<1>7. Leaves(t, f)  BY <1>4
<1> HIDE DEF f
<1>8. t \in chased \/ group = "down"  BY <1>1, <1>2 DEF Accounted
<1>9. Credible(t, f) /\ Concluded(f) /\ (t \in fault' \/ group = "down" \/ Innocent(t, f))
  BY <1>2, <1>3, <1>4, <1>6, <1>8 DEF Credible, Innocent, Concluded
<1>10. fault \subseteq fault' /\ fault' \subseteq Tests  BY <1>1, <1>2 DEF TypeOK
<1>11. facts[t].call = "none" \/ ~f.cancelled
  BY <1>3, <1>6 DEF Credible
<1> QED BY <1>2, <1>5, <1>6, <1>7, <1>9, <1>10, <1>11, LeavesStep

-----------------------------------------------------------------------------
(* The steps that conclude nothing.                                        *)

(* A test moves no further than out of the run, and nothing is learnt.     *)
LEMMA QuietStep ==
    ASSUME IInv, TypeOK', Placed', Slots', UNCHANGED <<facts, result, failures, fault>>,
           reason' = reason \/ (reason = "none" /\ reason' = "interrupt"),
           group' = group \/ group' = "down" \/ (group = "up" /\ group' = "failed"),
           group = "down" => group' = "down",
           \A u \in Tests : \/ pc'[u] = pc[u]
                            \/ pc[u] \notin {"settled", "raised"} /\ pc'[u] \in Ended
                            \/ pc[u] = "new" /\ pc'[u] = "queued",
           chased' # {} => Stopping',
           \A u \in Tests : Accounted(u)'
    PROVE  IInv' /\ Permitted
<1>1. TypeOK /\ Counting /\ Knowing  BY DEF IInv
<1>2. Counting'
  <2>1. /\ reason' # "none" => reason' = reason \/ reason' = "interrupt"
        /\ Stopping => Stopping' /\ (group' = "up" => group = "up")
    BY DEF Stopping
  <2>2. \A u \in Tests : pc[u] \in {"settled", "raised"} => pc'[u] = pc[u]
    BY DEF Ended
  <2> QED BY <1>1, <2>1, <2>2, CountingKept
<1>3. Knowing'
  <2> SUFFICES ASSUME NEW u \in Tests PROVE Known(u)'  BY DEF Knowing
  <2>1. Known(u) /\ facts'[u] = facts[u] /\ (Stopping => Stopping')  BY <1>1 DEF Knowing, Stopping
  <2>2. CASE pc'[u] = pc[u]
    BY <2>1, <2>2 DEF Known, Credible, Concluded, Innocent
  <2>3. CASE pc'[u] \in Ended
    BY <2>1, <2>3 DEF Known, Credible, Concluded, Innocent, Ended
  <2>4. CASE pc[u] = "new" /\ pc'[u] = "queued"
    BY <2>1, <2>4 DEF Known, Credible, Concluded, Innocent, NoFacts
  <2> QED BY <2>2, <2>3, <2>4
<1>4. Chasing'  BY DEF Chasing
<1>5. Permitted
  BY DEF Permitted, InFlight, Envelope, Ended
<1> QED BY <1>2, <1>3, <1>4, <1>5 DEF IInv

(* One more, or one fewer, of the others in the gate, and t out of the run. *)
LEMMA DropStep ==
    ASSUME IInv, NEW t \in Tests, pc[t] \in {"new", "queued", "subprocess"},
           NEW p \in {"dropped", "raised"}, pc' = [pc EXCEPT ![t] = p],
           Gate!Leave(t) \/ Gate!Withdraw(t) \/ UNCHANGED gate,
           (t \notin chased /\ due' = due) \/ due' = [due EXCEPT ![t] = {}],
           chased' = chased \ {t},
           group' = group \/ (group = "up" /\ group' = "failed"),
           UNCHANGED <<facts, slots, result, failures, stop, stage, fault>>
    PROVE  IInv' /\ Permitted
<1>1. TypeOK /\ Placed /\ Slots /\ Chasing  BY DEF IInv
<1>2. pc' \in [Tests -> {"new", "queued"} \cup Envelope \cup Ended]
      /\ pc'[t] = p /\ \A u \in Tests \ {t} : pc'[u] = pc[u]
  BY <1>1 DEF TypeOK, Ended
<1>3. Placed' /\ asking' \subseteq Tests /\ held' \subseteq Tests /\ gone' \subseteq Tests
  <2>1. \A u \in Tests : pc'[u] \in Envelope => u # t /\ pc[u] \in Envelope
    BY <1>2 DEF Envelope
  <2> QED BY <1>1, <2>1, PlacesHeld
<1>4. Slots'
  <2>1. \A u \in Tests : (InRunOne(u)' <=> InRunOne(u)) /\ (pc'[u] = "subprocess" => u \in Isolated)
    BY <1>1, <1>2 DEF InRunOne, Slots
  <2> QED BY <1>1, <2>1, SlotsKept
<1>5. /\ due' \in [Tests -> SUBSET {"deadline", "stop", "collateral"}]
      /\ due'[t] \in {{}, due[t]} /\ \A u \in Tests \ {t} : due'[u] = due[u]
  BY <1>1 DEF TypeOK
<1>6. chased' \subseteq InFlight'
  BY <1>1, <1>2 DEF TypeOK, InFlight
<1>7. TypeOK'
  BY <1>1, <1>2, <1>3, <1>5, <1>6 DEF TypeOK, slots, stop
<1>8. \A u \in Tests : Accounted(u)'
  <2> SUFFICES ASSUME NEW u \in Tests PROVE Accounted(u)'  OBVIOUS
  <2>1. Accounted(u)  BY <1>1 DEF Chasing
  <2>2. CASE u = t
    <3>1. due'[t] = {} \/ (t \notin chased /\ due'[t] = due[t])  BY <1>1 DEF TypeOK
    <3>2. pc[t] # "flush" /\ pc[t] \notin {"setup", "call"}  OBVIOUS
    <3>3. t \notin chased /\ due[t] # {} => group = "down"  BY <2>1, <2>2, <3>2 DEF Accounted
    <3>4. due'[t] = {} \/ group' = "down"  BY <3>1, <3>3
    <3> QED BY <2>2, <3>4 DEF Accounted
  <2>3. CASE u # t  BY <1>2, <1>5, <2>1, <2>3 DEF Accounted
  <2> QED BY <2>2, <2>3
<1>9. \A u \in Tests : pc'[u] = pc[u] \/ (pc[u] \notin {"settled", "raised"} /\ pc'[u] \in Ended)
  BY <1>2 DEF Ended
<1>10. chased' # {} => Stopping'  BY <1>1 DEF Chasing, Stopping, stop
<1>11. /\ reason' = reason
       /\ group' = group \/ (group = "up" /\ group' = "failed")
       /\ group = "down" => group' = "down"
  BY DEF stop
<1> QED BY <1>3, <1>4, <1>7, <1>8, <1>9, <1>10, <1>11, QuietStep

(* CutSubprocess: settled, left with an error, or escaped.                 *)
LEMMA CutSubprocessStep == ASSUME IInv, NEW t \in Tests, CutSubprocess(t) PROVE IInv' /\ Permitted
<1>1. TypeOK /\ Slots /\ Known(t) /\ Accounted(t) /\ (chased # {} => Stopping)
  BY DEF IInv, Knowing, Chasing
<1>2. pc[t] = "subprocess" /\ due[t] # {} /\ t \in Isolated /\ facts[t] \in Facts /\ UNCHANGED fault
  BY <1>1, FactsKept DEF CutSubprocess, Slots
<1>3. /\ Credible(t, facts[t]) /\ facts[t].call = "none" /\ ~facts[t].cancelled /\ ~facts[t].expired
      /\ t \in fault \/ group = "down" \/ Innocent(t, facts[t])
  BY <1>1, <1>2, SessionAssumption DEF Known, Credible
<1>4. fault \subseteq fault' /\ fault' \subseteq Tests  BY <1>1, <1>2 DEF TypeOK
<1>5. CASE t \in chased /\ Settle(t, "cancelled") /\ UNCHANGED <<slots, presses, told, aborting, stage>>
  <2>1. ~InRunOne(t) /\ pc[t] \in Envelope /\ "cancelled" \in Outcome \cup {"none"}
    BY <1>2 DEF InRunOne, Envelope, Outcome
  <2>2. Warranted(t, "cancelled")
    BY <1>1, <1>3, <1>5 DEF Warranted
  <2> QED BY <1>4, <1>5, <2>1, <2>2, SettleStep
<1>6. CASE t \notin chased /\ Leaves(t, [facts[t] EXCEPT !.shipped = "error"])
  <2> DEFINE f == [facts[t] EXCEPT !.shipped = "error"]
  <2>1. f \in Facts  BY <1>1, FactsKept DEF Outcome
  <2>2. /\ f.shipped = "error" /\ f.setup = facts[t].setup /\ f.call = facts[t].call
        /\ f.teardown = facts[t].teardown
        /\ f.expired = facts[t].expired /\ f.cancelled = facts[t].cancelled
    BY <1>2 DEF Facts
  <2>3. Leaves(t, f)  BY <1>6
  <2> HIDE DEF f
  <2>4. group = "down"  BY <1>1, <1>2, <1>6 DEF Accounted
  <2>5. Credible(t, f)  BY <1>3, <2>2 DEF Credible
  <2> QED BY <1>2, <1>3, <1>4, <2>1, <2>2, <2>3, <2>4, <2>5, LeavesStep
<1>7. CASE /\ Release(t)
           /\ pc' = [pc EXCEPT ![t] = "raised"]
           /\ due' = [due EXCEPT ![t] = {}] /\ chased' = Unregistered(t)
           /\ group' = IF group = "up" THEN "failed" ELSE group
           /\ UNCHANGED <<facts, slots, result, failures, stop, stage>>
  <2>1. Gate!Leave(t) \/ Gate!Withdraw(t) \/ UNCHANGED gate  BY <1>7 DEF Release
  <2>2. chased' = chased \ {t}  BY <1>7 DEF Unregistered
  <2> QED BY <1>2, <1>7, <2>1, <2>2, DropStep
<1> QED BY <1>5, <1>6, <1>7 DEF CutSubprocess

-----------------------------------------------------------------------------
(* A test begins.                                                          *)

(* A test that begins with its place in the gate finds a worker slot.      *)
LEMMA BeginStep ==
    ASSUME IInv, NEW t \in Tests, pc[t] \in {"new", "queued"}, ~Stopping, Begin(t),
           held \subseteq held', t \in held', Cardinality(held') <= Concurrency,
           asking' \subseteq Tests, held' \subseteq Tests, gone' \subseteq Tests,
           UNCHANGED <<due, chased, facts, result, failures, stop, group, stage, fault>>
    PROVE  IInv' /\ Permitted
<1>1. TypeOK /\ Placed /\ Slots /\ Counting /\ Knowing /\ Chasing  BY DEF IInv
<1>2. PICK p \in {"setup", "subprocess"} :
         pc' = [pc EXCEPT ![t] = p] /\ p = IF t \in Isolated THEN "subprocess" ELSE "setup"
  BY DEF Begin
<1>3. /\ pc' \in [Tests -> {"new", "queued"} \cup Envelope \cup Ended]
      /\ pc'[t] = p /\ \A u \in Tests \ {t} : pc'[u] = pc[u]
  BY <1>1, <1>2 DEF TypeOK, Envelope
<1>4. UNCHANGED <<reason, presses, told, aborting>>  BY DEF stop
<1>5. free' \in Seq(0..(Concurrency - 1)) /\ worker' \in [Tests -> -1..(Concurrency - 1)] /\ Slots'
  <2>1. ~InRunOne(t)  BY DEF InRunOne
  <2>2. CASE t \in Isolated
    <3>1. UNCHANGED slots  BY <2>2 DEF Begin
    <3>2. \A u \in Tests : (InRunOne(u)' <=> InRunOne(u)) /\ (pc'[u] = "subprocess" => u \in Isolated)
      BY <1>1, <1>2, <1>3, <2>1, <2>2 DEF InRunOne, Slots
    <3> QED BY <1>1, <3>1, <3>2, SlotsKept DEF slots, TypeOK
  <2>3. CASE t \notin Isolated
    <3>1. TakeSlot(t)  BY <2>3 DEF Begin
    <3>2. InRunOne(t)'  BY <1>2, <1>3, <2>3 DEF InRunOne
    <3> QED BY <1>1, <1>3, <2>1, <2>3, <3>1, <3>2, SlotTaken
  <2> QED BY <2>2, <2>3
<1>6. chased' \subseteq InFlight'
  BY <1>1, <1>3 DEF TypeOK, InFlight, Envelope
<1>7. TypeOK'
  BY <1>1, <1>3, <1>4, <1>5, <1>6 DEF TypeOK
<1>8. Placed'
  BY <1>1, <1>3 DEF Placed
<1>9. Counting'
  <2>1. \A u \in Tests : pc[u] \in {"settled", "raised"} => pc'[u] = pc[u]
    BY <1>3
  <2> QED BY <1>1, <1>4, <1>7, <2>1, CountingKept DEF Stopping
<1>10. Knowing'
  <2>1. Known(t)'
    <3>1. Known(t) /\ facts'[t] = facts[t]  BY <1>1 DEF Knowing
    <3> QED BY <1>3, <1>4, <3>1 DEF Known, Credible, Innocent, Concluded, Stopping, NoFacts
  <2>2. Stopping => Stopping'  BY <1>4 DEF Stopping
  <2> QED BY <1>1, <1>3, <2>1, <2>2, KnowingStep
<1>11. Chasing'
  <2>1. t \notin chased  BY <1>1 DEF TypeOK, InFlight, Envelope
  <2>2. Accounted(t)'
    <3>1. Accounted(t)  BY <1>1 DEF Chasing
    <3> QED BY <2>1, <3>1 DEF Accounted
  <2>3. chased' # {} => Stopping'  BY <1>1, <1>4 DEF Chasing, Stopping
  <2>4. chased = {}  BY <1>1 DEF Chasing
  <2> QED BY <1>1, <1>3, <2>2, <2>3, <2>4, ChasingStep
<1>12. Permitted
  <2>1. MaxFail = 0 \/ Cardinality(Failing) < MaxFail
    BY <1>1, Typed, SessionAssumption DEF Counting, TypeOK
  <2>2. \A u \in Tests : u \notin InFlight /\ pc'[u] \in Envelope => u = t
    BY <1>3 DEF InFlight
  <2> QED BY <2>1, <2>2 DEF Permitted
<1> QED BY <1>5, <1>7, <1>8, <1>9, <1>10, <1>11, <1>12 DEF IInv

(* Dispatch: dropped, begun, or queued.                                    *)
LEMMA DispatchStep == ASSUME IInv, NEW t \in Tests, Dispatch(t) PROVE IInv' /\ Permitted
<1>1. TypeOK /\ Placed /\ Slots /\ Chasing  BY DEF IInv
<1>2. pc[t] = "new" /\ t \notin chased
      /\ UNCHANGED <<due, chased, facts, result, failures, stop, group, stage, fault>>
  BY <1>1 DEF Dispatch, TypeOK, InFlight, Envelope
<1>3. CASE pc' = [pc EXCEPT ![t] = "dropped"] /\ UNCHANGED <<gate, slots>>
  BY <1>2, <1>3, DropStep
<1>4. CASE ~Stopping /\ Gate!Enter(t) /\ Begin(t)
  <2>1. /\ asking' \subseteq Tests /\ held' \subseteq Tests /\ gone' \subseteq Tests
        /\ Cardinality(held') <= Concurrency /\ held' = held \cup {t}
    BY <1>1, <1>4, PlaceTaken
  <2> QED BY <1>2, <1>4, <2>1, BeginStep
<1>5. CASE Gate!Ask(t) /\ pc' = [pc EXCEPT ![t] = "queued"] /\ UNCHANGED slots
  <2>1. asking' \subseteq Tests /\ UNCHANGED <<held, gone>>
    BY <1>1, <1>5 DEF TypeOK, Gate!Ask
  <2>2. /\ pc' \in [Tests -> {"new", "queued"} \cup Envelope \cup Ended]
        /\ pc'[t] = "queued" /\ \A u \in Tests \ {t} : pc'[u] = pc[u]
    BY <1>1, <1>5 DEF TypeOK
  <2>3. chased' \subseteq InFlight'
    BY <1>1, <1>2, <2>2 DEF TypeOK, InFlight
  <2>4. TypeOK'
    BY <1>1, <1>2, <1>5, <2>1, <2>2, <2>3 DEF TypeOK, slots, stop
  <2>5. Placed'
    BY <1>1, <2>1, <2>2 DEF Placed, Envelope
  <2>6. Slots'
    <3>1. \A u \in Tests : (InRunOne(u)' <=> InRunOne(u)) /\ (pc'[u] = "subprocess" => u \in Isolated)
      BY <1>1, <1>2, <2>2 DEF InRunOne, Slots
    <3> QED BY <1>1, <1>5, <3>1, SlotsKept
  <2>7. \A u \in Tests : Accounted(u)'
    <3> SUFFICES ASSUME NEW u \in Tests PROVE Accounted(u)'  OBVIOUS
    <3>1. Accounted(u)  BY <1>1 DEF Chasing
    <3> QED BY <1>2, <2>2, <3>1 DEF Accounted
  <2>8. \A u \in Tests : pc'[u] = pc[u] \/ (pc[u] = "new" /\ pc'[u] = "queued")
    BY <1>2, <2>2
  <2>9. chased' # {} => Stopping'  BY <1>1, <1>2 DEF Chasing, Stopping, stop
  <2> QED BY <1>2, <2>4, <2>5, <2>6, <2>7, <2>8, <2>9, QuietStep DEF stop
<1> QED BY <1>3, <1>4, <1>5 DEF Dispatch

(* Resume: dropped, or begun in the place that was booked.                 *)
LEMMA ResumeStep == ASSUME IInv, NEW t \in Tests, Resume(t) PROVE IInv' /\ Permitted
<1>1. TypeOK /\ Placed  BY DEF IInv
<1>2. /\ pc[t] = "queued" /\ t \in held /\ t \notin chased
      /\ UNCHANGED <<due, chased, facts, result, failures, stop, group, stage, fault>>
  BY <1>1 DEF Resume, TypeOK, InFlight, Envelope
<1>3. CASE Release(t) /\ pc' = [pc EXCEPT ![t] = "dropped"] /\ UNCHANGED slots
  <2>1. Gate!Leave(t) \/ Gate!Withdraw(t) \/ UNCHANGED gate  BY <1>3 DEF Release
  <2> QED BY <1>2, <1>3, <2>1, DropStep
<1>4. CASE ~Stopping /\ Begin(t) /\ UNCHANGED gate
  <2>1. UNCHANGED <<asking, held, gone>>  BY <1>4 DEF gate
  <2>2. /\ asking' \subseteq Tests /\ held' \subseteq Tests /\ gone' \subseteq Tests
        /\ Cardinality(held') <= Concurrency /\ held \subseteq held' /\ t \in held'
    BY <1>1, <1>2, <2>1 DEF TypeOK, Placed
  <2> QED BY <1>2, <1>4, <2>2, BeginStep
<1> QED BY <1>3, <1>4 DEF Resume

(* Abandon gives up its turn.                                              *)
LEMMA AbandonStep == ASSUME IInv, NEW t \in Tests, Abandon(t) PROVE IInv' /\ Permitted
<1>1. TypeOK  BY DEF IInv
<1>2. pc[t] = "queued" /\ t \notin chased  BY <1>1 DEF Abandon, TypeOK, InFlight, Envelope
<1>3. Gate!Leave(t) \/ Gate!Withdraw(t) \/ UNCHANGED gate  BY DEF Abandon
<1>4. /\ pc' = [pc EXCEPT ![t] = "dropped"] /\ due' = [due EXCEPT ![t] = {}]
      /\ UNCHANGED <<chased, facts, slots, result, failures, stop, group, stage, fault>>
  BY DEF Abandon
<1> QED BY <1>2, <1>3, <1>4, DropStep

-----------------------------------------------------------------------------
(* A deadline, a swallowed cancellation, and what befalls the run.         *)

(* Nobody moves.                                                           *)
LEMMA StillStep ==
    ASSUME IInv, UNCHANGED <<gate, pc, facts, slots, result, failures, fault>>,
           due' \in [Tests -> SUBSET {"deadline", "stop", "collateral"}], chased' \subseteq InFlight,
           reason' = reason \/ (reason = "none" /\ reason' = "interrupt"),
           presses' \in 0..2, told' \in BOOLEAN, aborting' \in BOOLEAN, UNCHANGED group,
           stage' \in {"running", "closing", "over"},
           chased' # {} => Stopping', \A u \in Tests : Accounted(u)'
    PROVE  IInv' /\ Permitted
<1>1. TypeOK /\ Placed /\ Slots  BY DEF IInv
<1>2. UNCHANGED <<asking, held, gone, free, worker>>  BY DEF gate, slots
<1>3. InFlight' = InFlight  BY DEF InFlight
<1>4. TypeOK'  BY <1>1, <1>2, <1>3 DEF TypeOK
<1>5. Placed'  BY <1>1, <1>2 DEF Placed
<1>6. Slots'
  <2>1. \A u \in Tests : (InRunOne(u)' <=> InRunOne(u)) /\ (pc'[u] = "subprocess" => u \in Isolated)
    BY <1>1 DEF InRunOne, Slots
  <2> QED BY <1>1, <2>1, SlotsKept
<1> QED BY <1>4, <1>5, <1>6, QuietStep

(* DeadlineFires makes the cancellation the test's own.                    *)
LEMMA DeadlineFiresStep == ASSUME IInv, NEW t \in Tests, DeadlineFires(t) PROVE IInv' /\ Permitted
<1>1. TypeOK /\ Placed /\ Slots /\ Counting /\ Knowing /\ Chasing  BY DEF IInv
<1>2. /\ t \in Timed /\ pc[t] \in {"setup", "call"}
      /\ facts' = [facts EXCEPT ![t].expired = TRUE]
      /\ due' = [due EXCEPT ![t] = @ \cup {"deadline"}]
      /\ UNCHANGED <<gate, pc, chased, slots, result, failures, stop, group, stage, fault>>
  BY DEF DeadlineFires
<1>3. facts \in [Tests -> Facts] /\ facts[t] \in Facts /\ [facts[t] EXCEPT !.expired = TRUE] \in Facts
  BY <1>1, Typed, FactsKept
<1>4. /\ facts' \in [Tests -> Facts] /\ facts'[t] = [facts[t] EXCEPT !.expired = TRUE]
      /\ \A u \in Tests \ {t} : facts'[u] = facts[u]
  BY <1>2, <1>3
<1>5. /\ facts'[t].setup = facts[t].setup /\ facts'[t].call = facts[t].call
      /\ facts'[t].teardown = facts[t].teardown /\ facts'[t].expired
      /\ facts'[t].cancelled = facts[t].cancelled /\ facts'[t].shipped = facts[t].shipped
  BY <1>3, <1>4 DEF Facts
<1>6. /\ due' \in [Tests -> SUBSET {"deadline", "stop", "collateral"}]
      /\ \A u \in Tests \ {t} : due'[u] = due[u]
  BY <1>1, <1>2 DEF TypeOK
<1>7. InFlight' = InFlight /\ UNCHANGED <<asking, held, gone, free, worker, reason, presses, told, aborting>>
  BY <1>2 DEF InFlight, gate, slots, stop
<1>8. TypeOK'  BY <1>1, <1>2, <1>4, <1>6, <1>7 DEF TypeOK, Facts
<1>9. Placed'  BY <1>1, <1>2, <1>7 DEF Placed
<1>10. Slots'
  <2>1. \A u \in Tests : (InRunOne(u)' <=> InRunOne(u)) /\ (pc'[u] = "subprocess" => u \in Isolated)
    BY <1>1, <1>2 DEF InRunOne, Slots
  <2> QED BY <1>1, <1>2, <2>1, SlotsKept
<1>11. Counting'
  BY <1>1, <1>2, <1>7, <1>8, CountingKept DEF Stopping
<1>12. Knowing'
  <2>1. Known(t)'
    <3>1. Known(t)  BY <1>1 DEF Knowing
    <3> QED BY <1>2, <1>5, <1>7, <3>1 DEF Known, Credible, Concluded, Innocent, Stopping
  <2> QED BY <1>1, <1>2, <1>4, <1>7, <2>1, KnowingStep DEF Stopping
<1>13. Chasing'
  <2>1. Accounted(t)'  BY <1>2, <1>5 DEF Accounted
  <2>2. \A u \in Tests \ {t} : u \in chased' \/ (due'[u] = due[u] /\ u \notin chased)
    BY <1>2, <1>6
  <2>3. chased' # {} => Stopping'  BY <1>1, <1>2, <1>7 DEF Chasing, Stopping
  <2> QED BY <1>1, <1>2, <1>4, <2>1, <2>2, <2>3, ChasingStep
<1>14. Permitted  BY <1>2, <1>7 DEF Permitted, InFlight
<1> QED BY <1>8, <1>9, <1>10, <1>11, <1>12, <1>13, <1>14 DEF IInv

(* Swallow only drops what was due.                                        *)
LEMMA SwallowStep == ASSUME IInv, NEW t \in Tests, Swallow(t) PROVE IInv' /\ Permitted
<1>1. TypeOK /\ Chasing  BY DEF IInv
<1>2. /\ due' = [due EXCEPT ![t] = {}]
      /\ UNCHANGED <<gate, pc, chased, facts, slots, result, failures, stop, group, stage, fault>>
  BY DEF Swallow
<1>3. /\ due' \in [Tests -> SUBSET {"deadline", "stop", "collateral"}]
      /\ due'[t] = {} /\ \A u \in Tests \ {t} : due'[u] = due[u]
  BY <1>1, <1>2 DEF TypeOK
<1>4. \A u \in Tests : Accounted(u)'
  <2> SUFFICES ASSUME NEW u \in Tests PROVE Accounted(u)'  OBVIOUS
  <2>1. Accounted(u)  BY <1>1 DEF Chasing
  <2>2. CASE u = t  BY <1>3, <2>2 DEF Accounted
  <2>3. CASE u # t  BY <1>2, <1>3, <2>1, <2>3 DEF Accounted
  <2> QED BY <2>2, <2>3
<1>5. chased' # {} => Stopping'  BY <1>1, <1>2 DEF Chasing, Stopping, stop
<1> QED BY <1>1, <1>2, <1>3, <1>4, <1>5, StillStep DEF TypeOK, stop

(* Interrupt claims every cancellation it delivers.                        *)
LEMMA InterruptStep == ASSUME IInv, Interrupt PROVE IInv' /\ Permitted
<1>1. TypeOK /\ Chasing  BY DEF IInv
<1>2. /\ told' = TRUE
      /\ UNCHANGED <<gate, pc, facts, slots, result, failures, presses, aborting, group, stage, fault>>
  BY DEF Interrupt
<1>3. CASE Stopping /\ UNCHANGED <<reason, chased, due>>
  <2>1. \A u \in Tests : Accounted(u)'
    BY <1>1, <1>2, <1>3 DEF Chasing, Accounted
  <2>2. chased' # {} => Stopping'  BY <1>3 DEF Stopping
  <2> QED BY <1>1, <1>2, <1>3, <2>1, <2>2, StillStep DEF TypeOK
<1>4. CASE /\ ~Stopping /\ reason' = "interrupt" /\ chased' = InFlight
           /\ due' = [u \in Tests |-> IF u \in InFlight THEN due[u] \cup {"stop"} ELSE due[u]]
  <2>1. due' \in [Tests -> SUBSET {"deadline", "stop", "collateral"}]
    BY <1>1, <1>4 DEF TypeOK
  <2>2. \A u \in Tests : u \in chased' \/ (due'[u] = due[u] /\ u \notin chased)
    BY <1>1, <1>4 DEF TypeOK
  <2>3. \A u \in Tests : Accounted(u)'
    <3> SUFFICES ASSUME NEW u \in Tests PROVE Accounted(u)'  OBVIOUS
    <3>1. Accounted(u)  BY <1>1 DEF Chasing
    <3> QED BY <1>2, <2>2, <3>1 DEF Accounted
  <2> QED BY <1>1, <1>2, <1>4, <2>1, <2>3, StillStep DEF TypeOK, Stopping
<1> QED BY <1>3, <1>4 DEF Interrupt

(* A press, or the end of a stage, touches nobody.                         *)
LEMMA StageStep ==
    ASSUME IInv, UNCHANGED <<gate, pc, due, chased, facts, slots, result, failures, reason, told,
                             group, fault>>,
           presses' \in 0..2, aborting' \in BOOLEAN, stage' \in {"running", "closing", "over"}
    PROVE  IInv' /\ Permitted
<1>1. TypeOK /\ Chasing  BY DEF IInv
<1>2. \A u \in Tests : Accounted(u)'  BY <1>1 DEF Chasing, Accounted
<1>3. chased' # {} => Stopping'  BY <1>1 DEF Chasing, Stopping
<1> QED BY <1>1, <1>2, <1>3, StillStep DEF TypeOK

(* GroupFails: from here on a cancellation may be anybody's.               *)
LEMMA GroupFailsStep == ASSUME IInv, GroupFails PROVE IInv' /\ Permitted
<1>1. TypeOK /\ Placed /\ Slots /\ Chasing  BY DEF IInv
<1>2. /\ group = "failed" /\ group' = "down"
      /\ pc' = [u \in Tests |-> IF pc[u] = "new" THEN "dropped" ELSE pc[u]]
      /\ due' = [u \in Tests |-> IF pc[u] \in Envelope \cup {"queued"}
                                 THEN due[u] \cup {"collateral"} ELSE due[u]]
      /\ UNCHANGED <<gate, chased, facts, slots, result, failures, stop, stage, fault>>
  BY DEF GroupFails
<1>3. pc' \in [Tests -> {"new", "queued"} \cup Envelope \cup Ended]
  BY <1>1, <1>2 DEF TypeOK, Ended
<1>4. due' \in [Tests -> SUBSET {"deadline", "stop", "collateral"}]
  BY <1>1, <1>2 DEF TypeOK
<1>5. \A u \in Tests : pc'[u] = pc[u] \/ (pc[u] = "new" /\ pc'[u] = "dropped")
  BY <1>2
<1>6. InFlight' = InFlight
  BY <1>5 DEF InFlight, Envelope
<1>7. UNCHANGED <<asking, held, gone, free, worker, reason, presses, told, aborting>>
  BY <1>2 DEF gate, slots, stop
<1>8. TypeOK'  BY <1>1, <1>2, <1>3, <1>4, <1>6, <1>7 DEF TypeOK
<1>9. Placed'  BY <1>1, <1>5, <1>7 DEF Placed, Envelope
<1>10. Slots'
  <2>1. \A u \in Tests : (InRunOne(u)' <=> InRunOne(u)) /\ (pc'[u] = "subprocess" => u \in Isolated)
    BY <1>1, <1>5 DEF InRunOne, Slots
  <2> QED BY <1>1, <1>2, <2>1, SlotsKept
<1>11. \A u \in Tests : Accounted(u)'  BY <1>2 DEF Accounted
<1>12. \A u \in Tests : pc'[u] = pc[u] \/ (pc[u] \notin {"settled", "raised"} /\ pc'[u] \in Ended)
  BY <1>5 DEF Ended
<1>13. chased' # {} => Stopping'  BY <1>1, <1>2, <1>7 DEF Chasing, Stopping
<1> QED BY <1>2, <1>7, <1>8, <1>9, <1>10, <1>11, <1>12, <1>13, QuietStep

(* SecondPress takes at most one test with it, slot and all.               *)
LEMMA SecondPressStep == ASSUME IInv, SecondPress PROVE IInv' /\ Permitted
<1>1. TypeOK /\ Placed /\ Slots /\ Chasing  BY DEF IInv
<1>2. /\ presses' = 2 /\ aborting' = TRUE /\ stage' = "closing"
      /\ UNCHANGED <<gate, facts, result, failures, reason, told, fault>>
  BY DEF SecondPress
<1>3. CASE UNCHANGED <<pc, due, chased, slots, group>>
  BY <1>2, <1>3, StageStep
<1>4. ASSUME NEW t \in InFlight, pc' = [pc EXCEPT ![t] = "raised"], due' = [due EXCEPT ![t] = {}],
             chased' = Unregistered(t), group' = IF group = "up" THEN "failed" ELSE group,
             IF InRunOne(t) THEN FreeSlot(t) ELSE UNCHANGED slots
      PROVE  IInv' /\ Permitted
  <2>1. t \in Tests /\ pc[t] \in Envelope  BY DEF InFlight
  <2>2. /\ pc' \in [Tests -> {"new", "queued"} \cup Envelope \cup Ended]
        /\ pc'[t] = "raised" /\ \A u \in Tests \ {t} : pc'[u] = pc[u]
    BY <1>1, <1>4, <2>1 DEF TypeOK, Ended
  <2>3. /\ due' \in [Tests -> SUBSET {"deadline", "stop", "collateral"}]
        /\ due'[t] = {} /\ \A u \in Tests \ {t} : due'[u] = due[u]
    BY <1>1, <1>4, <2>1 DEF TypeOK
  <2>4. free' \in Seq(0..(Concurrency - 1)) /\ worker' \in [Tests -> -1..(Concurrency - 1)] /\ Slots'
    <3>1. ~InRunOne(t)' /\ pc'[t] # "subprocess"  BY <2>2 DEF InRunOne
    <3> QED BY <1>1, <1>4, <2>1, <2>2, <3>1, SlotReturned
  <2>5. chased' = chased \ {t} /\ chased' \subseteq InFlight'
    BY <1>1, <1>4, <2>2 DEF TypeOK, Unregistered, InFlight
  <2>6. UNCHANGED <<asking, held, gone>> /\ group' \in {"up", "failed", "down"}
    BY <1>1, <1>2, <1>4 DEF gate, TypeOK
  <2>7. TypeOK'  BY <1>1, <1>2, <2>2, <2>3, <2>4, <2>5, <2>6 DEF TypeOK
  <2>8. Placed'  BY <1>1, <2>2, <2>6 DEF Placed, Envelope
  <2>9. \A u \in Tests : Accounted(u)'
    <3> SUFFICES ASSUME NEW u \in Tests PROVE Accounted(u)'  OBVIOUS
    <3>1. Accounted(u)  BY <1>1 DEF Chasing
    <3>2. CASE u = t  BY <2>3, <3>2 DEF Accounted
    <3>3. CASE u # t  BY <1>2, <1>4, <2>2, <2>3, <2>5, <3>1, <3>3 DEF Accounted
    <3> QED BY <3>2, <3>3
  <2>10. \A u \in Tests : pc'[u] = pc[u] \/ (pc[u] \notin {"settled", "raised"} /\ pc'[u] \in Ended)
    BY <2>1, <2>2 DEF Envelope, Ended
  <2>11. chased' # {} => Stopping'  BY <1>1, <1>2, <2>5 DEF Chasing, Stopping
  <2> QED BY <1>2, <1>4, <2>4, <2>7, <2>8, <2>9, <2>10, <2>11, QuietStep
<1> QED BY <1>3, <1>4 DEF SecondPress

-----------------------------------------------------------------------------
(* The invariant, from the first state on and at every step.               *)

(* The invariant holds at first.                                           *)
LEMMA InitIInv == Init => IInv
<1> SUFFICES ASSUME Init PROVE IInv  OBVIOUS
<1>1. /\ asking = {} /\ held = {} /\ gone = {}
      /\ pc = [t \in Tests |-> "new"] /\ due = [t \in Tests |-> {}] /\ chased = {}
      /\ facts = [t \in Tests |-> NoFacts]
      /\ free = [i \in 1..Concurrency |-> i - 1] /\ worker = [t \in Tests |-> -1]
      /\ result = [t \in Tests |-> "none"] /\ failures = 0
      /\ reason = "none" /\ presses = 0 /\ told = FALSE /\ aborting = FALSE
      /\ group = "up" /\ stage = "running" /\ fault = {}
  BY DEF Init, Gate!Init
<1>2. Concurrency \in Nat \ {0} /\ MaxFail \in Nat /\ IsFiniteSet(Tests)  BY SessionAssumption
<1>3. /\ free \in Seq(0..(Concurrency - 1)) /\ Len(free) = Concurrency
      /\ \A i \in 1..Concurrency : free[i] = i - 1
  <2>1. \A i \in 1..Concurrency : i - 1 \in 0..(Concurrency - 1)  BY <1>2
  <2> QED BY <1>1, <1>2, <2>1
<1>4. Cardinality({}) = 0 /\ IsFiniteSet({})  BY FS_EmptySet
<1>5. TypeOK
  <2>1. NoFacts \in Facts  BY DEF NoFacts, Facts, SetupEnds_, CallEnds_, TeardownEnds_
  <2>2. facts \in [Tests -> Facts]  BY <1>1, <2>1
  <2>3. Cardinality(Tests) \in Nat  BY <1>2, FS_CardinalityType
  <2>4. worker \in [Tests -> -1..(Concurrency - 1)]  BY <1>1, <1>2
  <2>5. /\ pc \in [Tests -> {"new", "queued"} \cup Envelope \cup Ended]
        /\ due \in [Tests -> SUBSET {"deadline", "stop", "collateral"}]
        /\ result \in [Tests -> Outcome \cup {"none"}] /\ failures \in 0..Cardinality(Tests)
    BY <1>1, <2>3
  <2>6. /\ asking \subseteq Tests /\ held \subseteq Tests /\ gone \subseteq Tests
        /\ chased \subseteq InFlight /\ fault \subseteq Tests
    BY <1>1
  <2>7. /\ reason \in {"none", "maxfail", "interrupt"} /\ presses \in 0..2
        /\ told \in BOOLEAN /\ aborting \in BOOLEAN
        /\ group \in {"up", "failed", "down"} /\ stage \in {"running", "closing", "over"}
    <3>1. told = FALSE /\ aborting = FALSE  BY <1>1
    <3>2. told \in BOOLEAN /\ aborting \in BOOLEAN  BY <3>1, Zenon
    <3>3. reason = "none" /\ presses = 0 /\ group = "up" /\ stage = "running"  BY <1>1
    <3> QED BY <3>2, <3>3
  <2> QED BY <1>3, <2>2, <2>4, <2>5, <2>6, <2>7 DEF TypeOK, Facts
<1>6. Placed  BY <1>1, <1>2, <1>4 DEF Placed, Envelope
<1>7. Occupied = {} /\ Reported = {} /\ Failing = {}
  BY <1>1 DEF Occupied, InRunOne, Reported, Failing, FAILING_OUTCOMES
<1>8. Slots  BY <1>1, <1>2, <1>3, <1>4, <1>7 DEF Slots, InRunOne
<1>9. Counting  BY <1>1, <1>2, <1>4, <1>7 DEF Counting, Stopping
<1>10. Knowing
  BY <1>1 DEF Knowing, Known, Credible, Innocent, NoFacts, FAILING_OUTCOMES
<1>11. Chasing  BY <1>1 DEF Chasing, Accounted
<1> QED BY <1>5, <1>6, <1>8, <1>9, <1>10, <1>11 DEF IInv

(* Every step keeps the invariant, and is permitted.                       *)
LEMMA NextStep == IInv /\ Next => IInv' /\ Permitted
<1> SUFFICES ASSUME IInv, Next PROVE IInv' /\ Permitted  OBVIOUS
<1>1. ASSUME NEW t \in Tests, Proceed(t) PROVE IInv' /\ Permitted
  BY <1>1, DispatchStep, ResumeStep, AbandonStep, SetupEndsStep, CallEndsStep, TeardownEndsStep,
     FlushEndsStep, SubprocessEndsStep, CutStep, CutTeardownStep, CutSubprocessStep DEF Proceed
<1>2. ASSUME NEW t \in Tests, DeadlineFires(t) \/ Swallow(t) PROVE IInv' /\ Permitted
  BY <1>2, DeadlineFiresStep, SwallowStep
<1>3. CASE GroupFails  BY <1>3, GroupFailsStep
<1>4. CASE Interrupt  BY <1>4, InterruptStep
<1>5. CASE FirstPress \/ RunAllEnds \/ AcloseEnds
  <2>1. TypeOK  BY DEF IInv
  <2>2. /\ UNCHANGED <<gate, pc, due, chased, facts, slots, result, failures, reason, told, group, fault>>
        /\ presses' \in 0..2 /\ aborting' \in BOOLEAN /\ stage' \in {"running", "closing", "over"}
    BY <1>5, <2>1 DEF FirstPress, RunAllEnds, AcloseEnds, stop, TypeOK
  <2> QED BY <2>2, StageStep
<1>6. CASE SecondPress  BY <1>6, SecondPressStep
<1> QED BY <1>1, <1>2, <1>3, <1>4, <1>5, <1>6 DEF Next, Loop

(* A step that changes nothing does, too.                                  *)
LEMMA StutterStep == IInv /\ UNCHANGED vars => IInv' /\ Permitted
<1> SUFFICES ASSUME IInv, UNCHANGED vars PROVE IInv' /\ Permitted  OBVIOUS
<1>1. TypeOK  BY DEF IInv
<1>2. /\ UNCHANGED <<gate, pc, due, chased, facts, slots, result, failures, reason, told, group, fault>>
      /\ UNCHANGED <<presses, aborting, stage>>
  BY DEF vars, stop
<1> QED BY <1>1, <1>2, StageStep DEF TypeOK

(* The inductive invariant.                                                *)
THEOREM Invariance == Spec => []IInv
<1>1. IInv /\ [Next]_vars => IInv'  BY NextStep, StutterStep
<1> QED BY InitIInv, <1>1, PTL DEF Spec

(* Every variable stays in its type, the failures no more than the tests.  *)
THEOREM TypeCorrect == Spec => []TypeOK
BY Invariance, PTL DEF IInv

(* No two tests inside _run_one ever share a worker slot, and `_free.pop()`*)
(* finds a slot for every test that the gate has let in, however the group *)
(* falls or the run is aborted.                                            *)
THEOREM SlotsSuffice == Spec => []WorkersDistinct
<1>1. IInv => WorkersDistinct
  <2> SUFFICES ASSUME IInv PROVE WorkersDistinct  OBVIOUS
  <2>1. TypeOK /\ Placed /\ Slots  BY DEF IInv
  <2>2. Occupied \cap Booked = {} /\ Occupied \cup Booked \subseteq held
    BY <2>1 DEF Occupied, Booked, InRunOne, Placed, Envelope
  <2>3. Cardinality(Occupied \cup Booked) = Cardinality(Occupied) + Cardinality(Booked)
    <3>1. IsFiniteSet(Occupied) /\ IsFiniteSet(Booked)  BY <2>1, Typed
    <3>2. Cardinality(Occupied \cap Booked) = 0  BY <2>2, FS_EmptySet
    <3>3. Cardinality(Occupied \cup Booked) =
            Cardinality(Occupied) + Cardinality(Booked) - Cardinality(Occupied \cap Booked)
      BY <3>1, FS_Union
    <3>4. Cardinality(Occupied) \in Nat /\ Cardinality(Booked) \in Nat  BY <2>1, Typed
    <3> QED BY <3>2, <3>3, <3>4
  <2>4. Cardinality(Occupied \cup Booked) <= Cardinality(held)
    BY <2>1, <2>2, Typed, FS_Subset
  <2>5. Cardinality(Booked) <= Len(free)
    BY <2>1, <2>3, <2>4, Typed, SessionAssumption DEF Placed, Slots
  <2> QED BY <2>1, <2>5 DEF WorkersDistinct, Slots, Occupied, Booked
<1> QED BY <1>1, Invariance, PTL

(* A run that was stopped early never exits as a success, whatever stopped *)
(* it, and whatever its tests reported before or after.                    *)
THEOREM StopNeverGreen == Spec => []StoppedRunNeverGreen
<1>1. IInv => StoppedRunNeverGreen
  <2> SUFFICES ASSUME IInv, Stopping
               PROVE  ExitStatus = IF reason = "maxfail" /\ ~aborting THEN 1 ELSE
                                   IF group = "up" \/ aborting THEN 2 ELSE 1
    BY DEF StoppedRunNeverGreen
  <2>1. TypeOK /\ Counting  BY DEF IInv
  <2>2. aborting \in BOOLEAN /\ reason \in {"maxfail", "interrupt"}  BY <2>1 DEF TypeOK, Stopping
  <2>3. CASE ~aborting /\ group = "up" /\ reason = "maxfail"
    <3> DEFINE R == {result[t] : t \in Tests} \ {"none"}
    <3>1. PICK t \in Tests : result[t] \in FAILING_OUTCOMES  BY <2>1, <2>3 DEF Counting, Failing
    <3>2. result[t] \in R /\ R # {} /\ R \cap FAILING_OUTCOMES # {}
      BY <3>1 DEF FAILING_OUTCOMES
    <3>3. ExitStatus = ExitCodeFor(R)  BY <2>3 DEF ExitStatus
    <3> HIDE DEF R
    <3>4. ExitCodeFor(R) = 1  BY <3>2 DEF ExitCodeFor
    <3> QED BY <2>3, <3>3, <3>4
  <2>4. CASE ~aborting /\ group = "up" /\ reason = "interrupt"  BY <2>4 DEF ExitStatus
  <2>5. CASE ~aborting /\ group # "up"  BY <2>5 DEF ExitStatus
  <2>6. CASE aborting  BY <2>6 DEF ExitStatus
  <2> QED BY <2>2, <2>3, <2>4, <2>5, <2>6
<1> QED BY <1>1, Invariance, PTL

-----------------------------------------------------------------------------
(* The gate of a run.                                                      *)

(* What a test does to the gate is one of the things that may be done.     *)
LEMMA GateStep ==
    ASSUME NEW t \in Tests, Proceed(t)
    PROVE  Gate!Enter(t) \/ Gate!Ask(t) \/ Gate!Withdraw(t) \/ Gate!Leave(t) \/ UNCHANGED gate
<1> DEFINE Moves == \/ Gate!Enter(t) \/ Gate!Ask(t) \/ Gate!Withdraw(t) \/ Gate!Leave(t)
                    \/ UNCHANGED gate
<1>1. Release(t) => Moves  BY DEF Release
<1>2. ASSUME NEW o, Settle(t, o) PROVE Moves  BY <1>1, <1>2 DEF Settle
<1>3. ASSUME NEW f, Leaves(t, f) PROVE Moves
  <2>1. CASE Settle(t, Verdict(t, f))  BY <1>2, <2>1
  <2>2. CASE UNCHANGED gate  BY <2>2
  <2> QED BY <1>3, <2>1, <2>2 DEF Leaves
<1>4. ASSUME NEW phase, NEW f, GoesTo(t, phase, f) PROVE Moves  BY <1>4 DEF GoesTo
<1>5. Dispatch(t) => Moves  BY DEF Dispatch
<1>6. Resume(t) => Moves  BY <1>1 DEF Resume
<1>7. Abandon(t) => Moves  BY DEF Abandon
<1> HIDE DEF Moves
<1>8. SetupEnds(t) => Moves  BY <1>3, <1>4 DEF SetupEnds
<1>9. CallEnds(t) => Moves  BY <1>4 DEF CallEnds
<1>10. TeardownEnds(t) => Moves  BY <1>3 DEF TeardownEnds
<1>11. FlushEnds(t) => Moves  BY <1>2 DEF FlushEnds
<1>12. SubprocessEnds(t) => Moves  BY <1>3 DEF SubprocessEnds
<1>13. Cut(t) => Moves  BY <1>3, <1>4 DEF Cut
<1>14. CutTeardown(t) => Moves  BY <1>3 DEF CutTeardown
<1>15. CutSubprocess(t) => Moves  BY <1>1, <1>2, <1>3 DEF CutSubprocess
<1>16. Moves
  BY <1>5, <1>6, <1>7, <1>8, <1>9, <1>10, <1>11, <1>12, <1>13, <1>14, <1>15 DEF Proceed
<1> QED BY <1>16 DEF Moves

(* So is what any step does to it. *)
LEMMA Moved == [Next]_vars => Gate!Next \/ UNCHANGED gate
<1> SUFFICES ASSUME [Next]_vars PROVE Gate!Next \/ UNCHANGED gate  OBVIOUS
<1>1. ASSUME NEW t \in Tests, Proceed(t) PROVE Gate!Next \/ UNCHANGED gate
  BY <1>1, GateStep DEF Gate!Next
<1>2. ASSUME NEW t \in Tests, DeadlineFires(t) \/ Swallow(t) PROVE UNCHANGED gate
  BY <1>2 DEF DeadlineFires, Swallow
<1>3. Loop \/ FirstPress \/ SecondPress => UNCHANGED gate
  BY DEF Loop, GroupFails, Interrupt, RunAllEnds, AcloseEnds, FirstPress, SecondPress
<1>4. UNCHANGED vars => UNCHANGED gate  BY DEF vars
<1> QED BY <1>1, <1>2, <1>3, <1>4 DEF Next

(* Whatever happens in a run, its gate does only what a gate may do: what  *)
(* AdmissionGate is proved to keep is all that a run makes use of.         *)
THEOREM GateIsAdmission == Spec => Gate!Spec
<1>1. Init => Gate!Init  BY DEF Init
<1>2. [Next]_vars => [Gate!Next]_(Gate!vars)  BY Moved DEF gate, Gate!vars
<1> QED BY <1>1, <1>2, PTL DEF Spec, Gate!Spec

(* A set that may run side by side stays one when a test that fits joins.  *)
LEMMA JoinedBy ==
    ASSUME TypeOK, Placed, Gate!Compatible(held), NEW t \in Tests, Gate!Enter(t)
    PROVE  Gate!Compatible(held')
<1>1. held' = held \cup {t} /\ Cardinality(held') <= Concurrency  BY PlaceTaken
<1>2. Gate!Cardinality(held') <= Concurrency  BY <1>1 DEF Cardinality, Gate!Cardinality
<1>3. CASE t \in SoloTests
  <2>1. held' = {t}  BY <1>1, <1>3 DEF Gate!Enter, Gate!Fits
  <2> QED BY <1>2, <2>1 DEF Gate!Compatible
<1>4. CASE t \notin SoloTests
  <2>1. held \cap SoloTests = {} /\ \A u \in held : TokensOf[u] \cap TokensOf[t] = {}
    BY <1>4 DEF Gate!Enter, Gate!Fits
  <2>2. \A u, v \in held : u # v => TokensOf[u] \cap TokensOf[v] = {}
    BY DEF Gate!Compatible
  <2>3. \A u \in held' : u \notin SoloTests  BY <1>1, <1>4, <2>1
  <2>4. \A u, v \in held' : u # v => TokensOf[u] \cap TokensOf[v] = {}
    BY <1>1, <2>1, <2>2
  <2> QED BY <1>2, <2>3, <2>4 DEF Gate!Compatible
<1> QED BY <1>3, <1>4

(* The tests in flight may run side by side: no more than the concurrency, *)
(* no two with an exclusive token in common, a solo test by itself, also   *)
(* while a stop, a failing group or an abort takes the run down.           *)
THEOREM SideBySide == Spec => []Gate!Compatible(InFlight)
<1> DEFINE Room == Gate!Compatible(held)
<1>1. Init => Room
  <2>1. Cardinality({}) <= Concurrency  BY FS_EmptySet, SessionAssumption
  <2>2. Gate!Cardinality({}) <= Concurrency  BY <2>1 DEF Cardinality, Gate!Cardinality
  <2> QED BY <2>2 DEF Init, Gate!Init, Gate!Compatible
<1>2. IInv /\ Room /\ [Next]_vars => Room'
  <2> SUFFICES ASSUME IInv, Gate!Compatible(held), [Next]_vars PROVE Gate!Compatible(held')
    OBVIOUS
  <2>1. UNCHANGED held => Gate!Compatible(held')  OBVIOUS
  <2>2. ASSUME NEW t \in Tests, Gate!Enter(t) PROVE Gate!Compatible(held')
    BY <2>2, JoinedBy DEF IInv
  <2>3. ASSUME NEW t \in Tests, Gate!Leave(t) PROVE Gate!Compatible(held')
    BY <2>3 DEF Gate!Leave
  <2>4. ASSUME NEW t \in Tests, Gate!Ask(t) \/ Gate!Withdraw(t) PROVE UNCHANGED held
    BY <2>4 DEF Gate!Ask, Gate!Withdraw
  <2>5. Gate!Next \/ UNCHANGED gate  BY Moved
  <2> QED BY <2>1, <2>2, <2>3, <2>4, <2>5 DEF Gate!Next, gate
<1>3. IInv /\ Room => Gate!Compatible(InFlight)
  <2> SUFFICES ASSUME IInv, Gate!Compatible(held) PROVE Gate!Compatible(InFlight)
    OBVIOUS
  <2>1. TypeOK /\ InFlight \subseteq held  BY DEF IInv, Placed, InFlight
  <2>2. Cardinality(InFlight) <= Cardinality(held)  BY <2>1, Typed, FS_Subset
  <2>3. IsFiniteSet(InFlight)  BY <2>1, Typed, FS_Subset
  <2>4. Cardinality(InFlight) \in Nat /\ Cardinality(held) \in Nat
    BY <2>1, <2>3, Typed, FS_CardinalityType
  <2>5. Cardinality(held) <= Concurrency  BY DEF IInv, Placed
  <2>6. Cardinality(InFlight) <= Concurrency  BY <2>2, <2>4, <2>5, SessionAssumption
  <2>7. Gate!Cardinality(InFlight) <= Concurrency  BY <2>6 DEF Cardinality, Gate!Cardinality
  <2>8. \A t \in InFlight : t \in SoloTests => InFlight = {t}  BY <2>1 DEF Gate!Compatible
  <2>9. \A t, u \in InFlight : t # u => TokensOf[t] \cap TokensOf[u] = {}
    BY <2>1 DEF Gate!Compatible
  <2> QED BY <2>7, <2>8, <2>9 DEF Gate!Compatible
<1> QED BY <1>1, <1>2, <1>3, Invariance, PTL DEF Spec

-----------------------------------------------------------------------------
(* What no step of any run ever does.                                      *)

(* Once the run is stopping, or as many tests as --maxfail allows have     *)
(* reported a failure, no test begins, booked though its place may be.     *)
THEOREM StopIsFinal == Spec => NothingStartsOnceStopping
<1> DEFINE Held == \A t \in Tests : t \notin InFlight /\ pc'[t] \in Envelope =>
                     /\ ~Stopping
                     /\ MaxFail = 0
                        \/ Cardinality({u \in Tests : result[u] \in FAILING_OUTCOMES}) < MaxFail
<1>1. Permitted => Held  BY DEF Permitted, Failing
<1>2. IInv /\ [Next]_vars => [Held]_vars  BY <1>1, NextStep
<1> QED BY <1>2, Invariance, PTL DEF Spec, NothingStartsOnceStopping

(* A test is reported cancelled only when a stop ended its setup or call.  *)
THEOREM CancelledWasCut == Spec => CancelledMeansCut
<1> DEFINE Held == \A t \in Tests : Reports(t, {"cancelled"}) => Stopping /\ facts[t].call = "none"
<1>1. Permitted => Held  BY DEF Permitted, Warranted, Reports
<1>2. IInv /\ [Next]_vars => [Held]_vars  BY <1>1, NextStep
<1> QED BY <1>2, Invariance, PTL DEF Spec, CancelledMeansCut

(* Unless the group went down, a test that failed or broke did so itself,  *)
(* wherever in its envelope a stop may have landed.                        *)
THEOREM StopNeverBlamed == Spec => StopIsNoFailure
<1> DEFINE Held == \A t \in Tests : Reports(t, {"failed", "error"}) => group = "down" \/ t \in fault'
<1>1. Permitted => Held  BY DEF Permitted, Warranted, Reports
<1>2. IInv /\ [Next]_vars => [Held]_vars  BY <1>1, NextStep
<1> QED BY <1>2, Invariance, PTL DEF Spec, StopIsNoFailure

(* A test whose deadline fired reports nothing but a timeout.              *)
THEOREM TimeoutsReported == Spec => DeadlineDecides
<1> DEFINE Held == \A t \in Tests : Reports(t, Outcome \ {"timeout"}) => ~facts[t].expired
<1>1. Permitted => Held  BY DEF Permitted, Warranted, Reports
<1>2. IInv /\ [Next]_vars => [Held]_vars  BY <1>1, NextStep
<1> QED BY <1>2, Invariance, PTL DEF Spec, DeadlineDecides
=============================================================================
