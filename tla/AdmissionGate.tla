--------------------------- MODULE AdmissionGate ---------------------------
(***************************************************************************)
(* `AdmissionGate` (voci/_run/run.py): the one point every test is         *)
(* admitted through.  `run_suite` creates a task per test up front; each   *)
(* calls acquire(), runs, and calls release() in a `finally`.              *)
(*                                                                         *)
(* Everything between two awaits is one step of the event loop, so         *)
(* acquire's fast path, and release with the whole of its _wake scan, are  *)
(* one action each.  The only await is on the waiter's future, and that is *)
(* where a cancellation can land: Task.cancel() cancels a pending future   *)
(* in place, but leaves one that release() already completed alone and     *)
(* throws when the task resumes.                                           *)
(***************************************************************************)
EXTENDS Integers, FiniteSets

CONSTANTS Tests,        \* the tests dispatched through the gate
          TokensOf,     \* TokensOf[t]: the exclusive tokens of t's fixtures
          SoloTests,    \* the tests marked `solo`
          Concurrency   \* how many tests may run at once

ASSUME GateAssumption ==
    /\ IsFiniteSet(Tests)
    /\ SoloTests \subseteq Tests
    /\ DOMAIN TokensOf = Tests
    /\ Concurrency \in Nat \ {0}

VARIABLES
    gate,        \* _running, _running_tokens and _solo_active
    waiters,     \* the tests in the deque _waiters
    ahead,       \* ahead[t]: the waiters in front of t in the deque
    pc,          \* pc[t]: where t's task is
    future,      \* future[t]: the state of _Waiter.future, once t queued
    mustCancel   \* mustCancel[t]: a cancellation to throw when t resumes

vars == <<gate, waiters, ahead, pc, future, mustCancel>>

Tokens == UNION {TokensOf[t] : t \in Tests}

TypeOK ==
    /\ gate \in [running : 0..Concurrency, tokens : SUBSET Tokens, solo : BOOLEAN]
    /\ waiters \subseteq Tests
    /\ ahead \in [Tests -> SUBSET Tests]
    /\ pc \in [Tests -> {"idle", "queued", "holding", "finished"}]
    /\ future \in [Tests -> {"none", "pending", "done", "cancelled"}]
    /\ mustCancel \in [Tests -> BOOLEAN]

Init ==
    /\ gate = [running |-> 0, tokens |-> {}, solo |-> FALSE]
    /\ waiters = {}
    /\ ahead = [t \in Tests |-> {}]
    /\ pc = [t \in Tests |-> "idle"]
    /\ future = [t \in Tests |-> "none"]
    /\ mustCancel = [t \in Tests |-> FALSE]

-----------------------------------------------------------------------------
(* The gate's own operations, on its three fields. *)

(* A bug of _admits: the token sets are not compared. *)
Admits_IgnoringTokens(g, t) ==
    IF t \in SoloTests THEN g.running = 0 ELSE g.running < Concurrency /\ ~g.solo

(* _admits *)
Admits(g, t) ==
    IF t \in SoloTests
    THEN g.running = 0
    ELSE /\ g.running < Concurrency
         /\ ~g.solo
         /\ g.tokens \cap TokensOf[t] = {}

(* _take, once for every test of A: the order of the bookings is immaterial. *)
Taken(g, A) ==
    [running |-> g.running + Cardinality(A),
     tokens  |-> g.tokens \cup UNION {TokensOf[t] : t \in A \ SoloTests},
     solo    |-> g.solo \/ A \cap SoloTests # {}]

(* The first half of release: what t gives back. *)
GivenBack(g, t) ==
    [running |-> g.running - 1,
     tokens  |-> IF t \in SoloTests THEN g.tokens ELSE g.tokens \ TokensOf[t],
     solo    |-> g.solo /\ t \notin SoloTests]

-----------------------------------------------------------------------------
(* _wake, from gate state g: the scan admits exactly the set A of waiters  *)
(* such that each of A fits beside the ones of A ahead of it and no other  *)
(* pending waiter does.                                                    *)

Live(t) == future[t] = "pending"

(* The gate as the scan finds it when it reaches t. *)
AsReached(g, A, t) == Taken(g, A \cap ahead[t])

(* A bug of _wake: `return` at the first waiter that does not fit. *)
Greedy_HeadOnly(g, A) ==
    \A t \in waiters :
        t \in A <=> /\ Live(t) /\ Admits(AsReached(g, A, t), t)
                  /\ \A u \in ahead[t] : Live(u) => u \in A

Greedy(g, A) ==
    \A t \in waiters : t \in A <=> Live(t) /\ Admits(AsReached(g, A, t), t)

(* The scan returns at a live waiter that does not fit once the gate is    *)
(* full, and ends at the first waiter past a solo admission.               *)
StopsAt(g, A, t) ==
    /\ Live(t) /\ t \notin A
    /\ AsReached(g, A, t).running >= Concurrency

Scanned(g, A, t) ==
    /\ ~AsReached(g, A, t).solo
    /\ \A u \in ahead[t] : ~StopsAt(g, A, u)

(* What the scan deletes: the waiters it admits, and the cancelled ones it *)
(* comes across.                                                           *)
Dropped(g, A) == A \cup {t \in waiters : ~Live(t) /\ Scanned(g, A, t)}

Dequeue(D) ==
    /\ waiters' = waiters \ D
    /\ ahead' = [t \in Tests |-> IF t \in D THEN {} ELSE ahead[t] \ D]

Wake(g) ==
    \E A \in SUBSET waiters :
        /\ Greedy(g, A)
        /\ gate' = Taken(g, A)
        /\ Dequeue(Dropped(g, A))
        /\ future' = [t \in Tests |-> IF t \in A THEN "done" ELSE future[t]]

ReleaseAndWake(t) == Wake(GivenBack(gate, t))

-----------------------------------------------------------------------------
(* The task of one test. *)

(* A bug of acquire: nobody passes a queue. *)
Acquire_BehindTheQueue(t) ==
    /\ pc[t] = "idle"
    /\ IF waiters = {} /\ Admits(gate, t)
       THEN /\ gate' = Taken(gate, {t})
            /\ pc' = [pc EXCEPT ![t] = "holding"]
            /\ UNCHANGED <<waiters, ahead, future>>
       ELSE /\ waiters' = waiters \cup {t}
            /\ ahead' = [ahead EXCEPT ![t] = waiters]
            /\ future' = [future EXCEPT ![t] = "pending"]
            /\ pc' = [pc EXCEPT ![t] = "queued"]
            /\ UNCHANGED gate
    /\ UNCHANGED mustCancel

(* acquire, up to its await: admitted at once when there is room, whoever  *)
(* is queued; at the tail of the deque otherwise.                          *)
Acquire(t) ==
    /\ pc[t] = "idle"
    /\ IF Admits(gate, t)
       THEN /\ gate' = Taken(gate, {t})
            /\ pc' = [pc EXCEPT ![t] = "holding"]
            /\ UNCHANGED <<waiters, ahead, future>>
       ELSE /\ waiters' = waiters \cup {t}
            /\ ahead' = [ahead EXCEPT ![t] = waiters]
            /\ future' = [future EXCEPT ![t] = "pending"]
            /\ pc' = [pc EXCEPT ![t] = "queued"]
            /\ UNCHANGED gate
    /\ UNCHANGED mustCancel

(* Task.cancel() on a task that has not started, or that is suspended on   *)
(* its waiter's future.                                                    *)
Cancel(t) ==
    \/ /\ pc[t] = "idle"
       /\ pc' = [pc EXCEPT ![t] = "finished"]
       /\ UNCHANGED <<gate, waiters, ahead, future, mustCancel>>
    \/ /\ pc[t] = "queued" /\ future[t] = "pending"
       /\ future' = [future EXCEPT ![t] = "cancelled"]
       /\ UNCHANGED <<gate, waiters, ahead, pc, mustCancel>>
    \/ /\ pc[t] = "queued" /\ future[t] = "done" /\ ~mustCancel[t]
       /\ mustCancel' = [mustCancel EXCEPT ![t] = TRUE]
       /\ UNCHANGED <<gate, waiters, ahead, pc, future>>

(* The await returns: t holds what release booked for it. *)
Resume(t) ==
    /\ pc[t] = "queued" /\ future[t] = "done" /\ ~mustCancel[t]
    /\ pc' = [pc EXCEPT ![t] = "holding"]
    /\ UNCHANGED <<gate, waiters, ahead, future, mustCancel>>

(* Three bugs of acquire's handler: it takes every waiter for one that was *)
(* never admitted, or for one that was, or forgets the deque.              *)
ResumeCancelled_KeepsSlot(t) ==
    /\ pc[t] = "queued" /\ (mustCancel[t] \/ future[t] = "cancelled")
    /\ Dequeue({t})
    /\ pc' = [pc EXCEPT ![t] = "finished"]
    /\ UNCHANGED <<gate, future, mustCancel>>

ResumeCancelled_AlwaysReleases(t) ==
    /\ pc[t] = "queued" /\ (mustCancel[t] \/ future[t] = "cancelled")
    /\ ReleaseAndWake(t)
    /\ pc' = [pc EXCEPT ![t] = "finished"]
    /\ UNCHANGED mustCancel

(* The await raises CancelledError: give the booking back if release made  *)
(* one, else leave the deque, unless a scan has already dropped t.         *)
ResumeCancelled(t) ==
    /\ pc[t] = "queued"
    /\ \/ /\ future[t] = "done" /\ mustCancel[t]
          /\ ReleaseAndWake(t)
       \/ /\ future[t] = "cancelled"
          /\ Dequeue({t})
          /\ UNCHANGED <<gate, future>>
    /\ pc' = [pc EXCEPT ![t] = "finished"]
    /\ UNCHANGED mustCancel

(* The caller's `finally`, however the test ended. *)
Release(t) ==
    /\ pc[t] = "holding"
    /\ ReleaseAndWake(t)
    /\ pc' = [pc EXCEPT ![t] = "finished"]
    /\ UNCHANGED mustCancel

Next ==
    \E t \in Tests :
        \/ Acquire(t) \/ Cancel(t) \/ Resume(t) \/ ResumeCancelled(t) \/ Release(t)

Spec == Init /\ [][Next]_vars

(* The event loop runs every ready task, and every test's body ends.       *)
Fairness ==
    \A t \in Tests : WF_vars(Acquire(t) \/ Resume(t) \/ ResumeCancelled(t) \/ Release(t))

FairSpec == Spec /\ Fairness

-----------------------------------------------------------------------------
(* The tests the gate has booked: running, or admitted and yet to resume. *)
Admitted == {t \in Tests : pc[t] = "queued" /\ future[t] = "done"}
Holders  == {t \in Tests : pc[t] = "holding"} \cup Admitted

(* Never more tests than `concurrency` hold a place, a solo test holds it  *)
(* alone, and no two holders share an exclusive token -- counting a test   *)
(* from the moment release() books it, through any cancellation (the class *)
(* docstring, and "nothing can be admitted twice into the same slot").     *)
Exclusion ==
    /\ Cardinality(Holders) <= Concurrency
    /\ \A t \in Holders \cap SoloTests : Holders = {t}
    /\ \A t, u \in Holders : t # u => TokensOf[t] \cap TokensOf[u] = {}

(* The counter, the token set and the solo flag are exactly what the       *)
(* holders account for: no cancellation leaks a slot or frees one twice    *)
(* ("leaving _running/_running_tokens stuck" in release's docstring).      *)
Bookkeeping ==
    /\ gate.running = Cardinality(Holders)
    /\ gate.tokens = UNION {TokensOf[t] : t \in Holders \ SoloTests}
    /\ gate.solo <=> Holders \cap SoloTests # {}

(* No waiter is left pending while the gate has room for it: _wake may     *)
(* stop its scan early, walk past waiters and skip cancelled ones, and     *)
(* still hands out every place that can be taken.                          *)
NoLostWakeup == \A t \in Tests : pc[t] = "queued" /\ Live(t) => ~Admits(gate, t)

(* The deque holds every pending waiter, nobody admitted, and keeps a      *)
(* total order; a cancelled waiter is in it until a scan or its own        *)
(* handler takes it out, whichever is first.                               *)
QueueAccurate ==
    /\ \A t \in Tests : Live(t) => t \in waiters
    /\ \A t \in waiters : pc[t] = "queued" /\ future[t] \in {"pending", "cancelled"}
    /\ \A t \in waiters : ahead[t] \subseteq waiters \ {t}
    /\ \A t \in Tests \ waiters : ahead[t] = {}
    /\ \A t, u \in waiters : t # u => (t \in ahead[u] <=> u \notin ahead[t])
    /\ \A t, u \in waiters : t \in ahead[u] => ahead[t] \subseteq ahead[u]

(* Every test gets through the gate, solo tests and tests that need        *)
(* several tokens included: "two tests can never deadlock each holding a   *)
(* token the other needs".                                                 *)
EveryTestFinishes == \A t \in Tests : <>(pc[t] = "finished")

(* The gate implements the promise of `Admission`. *)
Abs == INSTANCE Admission WITH
         asking <- {t \in Tests : pc[t] = "queued" /\ Live(t)},
         held   <- Holders,
         gone   <- {t \in Tests : \/ pc[t] = "finished"
                                  \/ pc[t] = "queued" /\ future[t] = "cancelled"}

ImplementsAdmission == Abs!Spec
=============================================================================
