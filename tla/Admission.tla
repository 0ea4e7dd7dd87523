----------------------------- MODULE Admission -----------------------------
(***************************************************************************)
(* What the docstring of `AdmissionGate` promises, with no counter, no     *)
(* queue and no future: which tests hold a place in the run, and which ask *)
(* for one.  A place is handed out whenever, and only when, the tests that *)
(* already hold one leave room for it.                                     *)
(***************************************************************************)
EXTENDS Integers, FiniteSets

CONSTANTS Tests,        \* the tests dispatched through the gate
          TokensOf,     \* TokensOf[t]: the exclusive tokens of t's fixtures
          SoloTests,    \* the tests marked `solo`
          Concurrency   \* how many tests may run at once

VARIABLES asking,   \* tests waiting for a place
          held,     \* tests that hold one
          gone      \* tests that left, or gave up

vars == <<asking, held, gone>>

(* There is room for t beside the tests of H. *)
Fits(H, t) ==
    IF t \in SoloTests
    THEN H = {}
    ELSE /\ Cardinality(H) < Concurrency
         /\ H \cap SoloTests = {}
         /\ \A u \in H : TokensOf[u] \cap TokensOf[t] = {}

(* The tests of H may run side by side. *)
Compatible(H) ==
    /\ Cardinality(H) <= Concurrency
    /\ \A t \in H : t \in SoloTests => H = {t}
    /\ \A t, u \in H : t # u => TokensOf[t] \cap TokensOf[u] = {}

Init == asking = {} /\ held = {} /\ gone = {}

Newcomer(t) == t \in Tests \ (asking \cup held \cup gone)

(* A newcomer gets a place on the spot when there is one. *)
Enter(t) ==
    /\ Newcomer(t) /\ Fits(held, t)
    /\ held' = held \cup {t}
    /\ UNCHANGED <<asking, gone>>

Ask(t) ==
    /\ Newcomer(t) /\ ~Fits(held, t)
    /\ asking' = asking \cup {t}
    /\ UNCHANGED <<held, gone>>

(* A test that holds no place gives up. *)
Withdraw(t) ==
    /\ t \in Tests \ (held \cup gone)
    /\ asking' = asking \ {t}
    /\ gone' = gone \cup {t}
    /\ UNCHANGED held

(* A test gives its place back, and the tests of A take what that frees:   *)
(* they fit together, and no test left asking would still have fitted.     *)
Leave(t) ==
    /\ t \in held
    /\ gone' = gone \cup {t}
    /\ \E A \in SUBSET asking :
         /\ held' = (held \ {t}) \cup A
         /\ asking' = asking \ A
         /\ Compatible(held')
         /\ \A u \in asking' : ~Fits(held', u)

Next == \E t \in Tests : Enter(t) \/ Ask(t) \/ Withdraw(t) \/ Leave(t)

Spec == Init /\ [][Next]_vars
=============================================================================
