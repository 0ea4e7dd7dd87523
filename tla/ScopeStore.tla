----------------------------- MODULE ScopeStore -----------------------------
(***************************************************************************)
(* The life of the fixtures: `ScopeStore`, `setup` and `teardown` of       *)
(* voci/_di/runtime.py, driven the way voci/_run/run.py drives them.  Each *)
(* test walks its plan forward, runs, walks it back; the module's last     *)
(* test releases the module's fixtures; aclose() takes what is left.       *)
(*                                                                         *)
(* A task gives up control only where it awaits: a fixture under           *)
(* construction ("building"), one another task constructs ("parked"), the  *)
(* test's body ("calling"), the closer of a fixture (closing).  There, and *)
(* only there, its deadline or a stop of the run can throw into it.        *)
(***************************************************************************)
EXTENDS Integers, FiniteSets, SequencesExt

CONSTANTS
    Tests, Modules, Keys,
    ModuleOf,     \* ModuleOf[t]: the module that defines t
    ScopeOf,      \* ScopeOf[k]: "session", "module" or "function"
    DependsOn,    \* DependsOn[k]: the fixtures k is built from
    Plan          \* Plan[t]: the keys of t's plan, in construction order

KeysOf(t) == ToSet(Plan[t])

ASSUME PlanAssumption ==
    /\ IsFiniteSet(Tests)
    /\ ModuleOf \in [Tests -> Modules]
    /\ ScopeOf \in [Keys -> {"session", "module", "function"}]
    /\ DependsOn \in [Keys -> SUBSET Keys]
    /\ \A t \in Tests : Plan[t] \in Seq(Keys) /\ IsInjective(Plan[t])
    \* Topologically sorted, and flattened over the whole fixture graph.
    /\ \A t \in Tests : \A i \in DOMAIN Plan[t] :
         DependsOn[Plan[t][i]] \subseteq {Plan[t][j] : j \in 1..(i - 1)}
    \* Nothing depends on a narrower scope.
    /\ \A k \in Keys, d \in Keys : d \in DependsOn[k] =>
         \/ ScopeOf[d] = "session"
         \/ ScopeOf[d] = "module" /\ ScopeOf[k] # "session"
         \/ ScopeOf[d] = "function" /\ ScopeOf[k] = "function"
    \* key_for tags a key with its test, or its module.
    /\ \A t, u \in Tests : \A k \in KeysOf(t) \cap KeysOf(u) :
         /\ ScopeOf[k] = "function" => t = u
         /\ ScopeOf[k] = "module" => ModuleOf[t] = ModuleOf[u]

VARIABLES
    entry,      \* entry[k]: the store's entry, "absent" when it has none
    older,      \* older[k]: the keys whose entries were inserted before k's
    refcount,   \* refcount[k]: _Entry.refcount
    pc,         \* pc[t]: where t's task is
    phase,      \* phase[t]: what t is releasing for
    at,         \* at[t]: the step of its plan t has come to
    todo,       \* todo[t]: the references t still has to release in this phase
    closing,    \* closing[t]: the key whose closer t awaits
    timedOut,   \* timedOut[t]: t's deadline fired
    cancelDue,  \* cancelDue[t]: a stop's cancellation not yet thrown in t
    cancelled,  \* cancelled[t]: a stop's cancellation that t claimed
    stopping,   \* the run is stopping
    pending,    \* pending[m]: pending_module_keys
    earlier,    \* earlier[t]: the tests that had handed over theirs before t did
    remaining,  \* remaining[m]: remaining_by_module
    stage,      \* "suite" while tasks run, "aclose", then "over"
    sweep,      \* the entries aclose still has to visit
    inst,       \* inst[k]: the instance as the fixture's own code sees it
    blame,      \* blame[t]: why t's setup failed
    leaked      \* leaked[k]: whose references an interrupted release dropped

store == <<entry, older, refcount>>
task  == <<pc, phase, at, todo, closing>>
fate  == <<timedOut, cancelDue, cancelled, stopping>>
suite == <<pending, earlier, remaining, stage, sweep>>
ghost == <<inst, blame, leaked>>
vars  == <<store, task, fate, suite, ghost>>

Acquired(t)  == {Plan[t][i] : i \in 1..(at[t] - 1)}
Wanted(t)    == Plan[t][at[t]]
OfModule(K)  == {k \in K : ScopeOf[k] = "module"}
NotModule(K) == {k \in K : ScopeOf[k] # "module"}
Ended        == {"dropped", "finished"}
Present      == {k \in Keys : entry[k] # "absent"}

(* A reference <<t, k>>: t acquired k. *)
Refs == Tests \X Keys

TypeOK ==
    /\ entry \in [Keys -> {"absent", "building", "ready", "failed"}]
    /\ older \in [Keys -> SUBSET Keys]
    /\ refcount \in [Keys -> Nat]
    /\ pc \in [Tests -> {"new", "setup", "building", "parked", "woken", "calling",
                         "releasing"} \cup Ended]
    /\ phase \in [Tests -> {"none", "unwind", "teardown", "flush"}]
    /\ at \in [Tests -> Nat] /\ \A t \in Tests : at[t] \in 1..(Len(Plan[t]) + 1)
    /\ todo \in [Tests -> SUBSET Refs] /\ closing \in [Tests -> SUBSET Keys]
    /\ timedOut \in [Tests -> BOOLEAN] /\ cancelDue \in [Tests -> BOOLEAN]
    /\ cancelled \in [Tests -> BOOLEAN] /\ stopping \in BOOLEAN
    /\ pending \in [Modules -> SUBSET Refs] /\ earlier \in [Tests -> SUBSET Tests]
    /\ remaining \in [Modules -> Nat]
    /\ stage \in {"suite", "aclose", "over"} /\ sweep \subseteq Keys
    /\ inst \in [Keys -> {"none", "building", "up", "closing", "down", "broken"}]
    /\ blame \in [Tests -> {"none", "fixture", "interrupt"}]
    /\ leaked \in [Keys -> SUBSET Tests]

Init ==
    /\ entry = [k \in Keys |-> "absent"] /\ older = [k \in Keys |-> {}]
    /\ refcount = [k \in Keys |-> 0]
    /\ pc = [t \in Tests |-> "new"] /\ phase = [t \in Tests |-> "none"]
    /\ at = [t \in Tests |-> 1]
    /\ todo = [t \in Tests |-> {}] /\ closing = [t \in Tests |-> {}]
    /\ timedOut = [t \in Tests |-> FALSE] /\ cancelDue = [t \in Tests |-> FALSE]
    /\ cancelled = [t \in Tests |-> FALSE] /\ stopping = FALSE
    /\ pending = [m \in Modules |-> {}] /\ earlier = [t \in Tests |-> {}]
    /\ remaining = [m \in Modules |-> Cardinality({t \in Tests : ModuleOf[t] = m})]
    /\ stage = "suite" /\ sweep = {}
    /\ inst = [k \in Keys |-> "none"] /\ blame = [t \in Tests |-> "none"]
    /\ leaked = [k \in Keys |-> {}]

-----------------------------------------------------------------------------
(* Releasing: _release_all over ScopeStore.release.                        *)

BeginRelease(t, ph, refs) ==
    /\ pc' = [pc EXCEPT ![t] = "releasing"]
    /\ phase' = [phase EXCEPT ![t] = ph]
    /\ todo' = [todo EXCEPT ![t] = refs]

(* The except branch of setup(): what was acquired goes back in reverse,   *)
(* module keys aside, for the suite to release.                            *)
Unwind(t, why) ==
    /\ BeginRelease(t, "unwind", {t} \X NotModule(Acquired(t)))
    /\ blame' = [blame EXCEPT ![t] = why]
    /\ UNCHANGED <<at, closing>>

(* r is ahead of s in the list a release goes through backwards: by the    *)
(* plan of a test, and by the order in which tests handed over.            *)
Before(r, s) ==
    \/ r[1] # s[1] /\ r[1] \in earlier[s[1]]
    \/ r[1] = s[1] /\ \E j \in DOMAIN Plan[r[1]] : \E i \in 1..(j - 1) :
                        Plan[r[1]][i] = r[2] /\ Plan[r[1]][j] = s[2]

(* release(), up to its await: nothing for a key never built; else one     *)
(* reference back, and the closer when it was the last, session keys       *)
(* excepted.                                                               *)
ReleaseKey(t) ==
    /\ pc[t] = "releasing" /\ closing[t] = {}
    /\ \E r \in todo[t] :
         LET k == r[2]
             last == entry[k] = "ready" /\ refcount[k] = 1 /\ ScopeOf[k] # "session"
         IN  /\ \A s \in todo[t] \ {r} : Before(s, r)
             /\ todo' = [todo EXCEPT ![t] = @ \ {r}]
             /\ refcount' = [refcount EXCEPT ![k] = IF entry[k] = "ready" THEN @ - 1 ELSE @]
             /\ closing' = [closing EXCEPT ![t] = IF last THEN {k} ELSE {}]
             /\ inst' = [inst EXCEPT ![k] = IF last THEN "closing" ELSE @]
    /\ UNCHANGED <<entry, older, pc, phase, at, fate, suite, blame, leaked>>

Drop(k) ==
    /\ entry' = [entry EXCEPT ![k] = "absent"]
    /\ older' = [j \in Keys |-> older[j] \ {k}]

(* The closer of t is through: only now does the entry leave the store.    *)
Closed(t) ==
    /\ \E k \in closing[t] : Drop(k) /\ inst' = [inst EXCEPT ![k] = "down"]
    /\ closing' = [closing EXCEPT ![t] = {}]
    /\ UNCHANGED <<refcount, pc, phase, at, suite, blame>>

(* It returned, or raised an error _release_all collects. *)
CloseEnds(t) == Closed(t) /\ UNCHANGED <<todo, fate, leaked>>

(* An interrupt reached it: the keys after it stay un-released.            *)
CutShort(t) ==
    /\ Closed(t)
    /\ leaked' = [k \in Keys |-> leaked[k] \cup {u \in Tests : <<u, k>> \in todo[t]}]
    /\ todo' = [todo EXCEPT ![t] = {}]

-----------------------------------------------------------------------------
(* setup(): one step of the plan after the other, through acquire().       *)

(* dispatch_one, once admitted: a stopping run drops the test there, and   *)
(* its module never hears of it.                                           *)
Start(t) ==
    /\ pc[t] = "new"
    /\ pc' = [pc EXCEPT ![t] = IF stopping THEN "dropped" ELSE "setup"]
    /\ UNCHANGED <<store, phase, at, todo, closing, fate, suite, ghost>>

(* A bug of acquire: the entry is entered once it is built, so that whoever *)
(* asks meanwhile builds as well.                                          *)
Construct_Unshared(t) ==
    /\ pc[t] = "setup" /\ at[t] <= Len(Plan[t])
    /\ entry[Wanted(t)] \in {"absent", "building"}
    /\ entry' = [entry EXCEPT ![Wanted(t)] = "building"]
    /\ older' = [older EXCEPT ![Wanted(t)] = Present \ {Wanted(t)}]
    /\ inst' = [inst EXCEPT ![Wanted(t)] = "building"]
    /\ pc' = [pc EXCEPT ![t] = "building"]
    /\ UNCHANGED <<refcount, phase, at, todo, closing, fate, suite, blame, leaked>>

(* acquire() of a key the store has no entry for: this task constructs it. *)
Construct(t) ==
    /\ pc[t] = "setup" /\ at[t] <= Len(Plan[t])
    /\ entry[Wanted(t)] = "absent"
    /\ entry' = [entry EXCEPT ![Wanted(t)] = "building"]
    /\ older' = [older EXCEPT ![Wanted(t)] = Present]
    /\ refcount' = [refcount EXCEPT ![Wanted(t)] = 0]
    /\ inst' = [inst EXCEPT ![Wanted(t)] = "building"]
    /\ pc' = [pc EXCEPT ![t] = "building"]
    /\ UNCHANGED <<phase, at, todo, closing, fate, suite, blame, leaked>>

(* A bug of acquire: the reference is not reserved before the wait. *)
Park_Unreserved(t) ==
    /\ pc[t] = "setup" /\ at[t] <= Len(Plan[t])
    /\ entry[Wanted(t)] = "building"
    /\ pc' = [pc EXCEPT ![t] = "parked"]
    /\ UNCHANGED <<store, phase, at, todo, closing, fate, suite, ghost>>

(* acquire() of a key another task constructs: the reference is reserved   *)
(* before the wait.                                                        *)
Park(t) ==
    /\ pc[t] = "setup" /\ at[t] <= Len(Plan[t])
    /\ entry[Wanted(t)] = "building"
    /\ refcount' = [refcount EXCEPT ![Wanted(t)] = @ + 1]
    /\ pc' = [pc EXCEPT ![t] = "parked"]
    /\ UNCHANGED <<entry, older, phase, at, todo, closing, fate, suite, ghost>>

(* acquire() of a key that is built, or that failed to build: its future   *)
(* is done, and answers without a pause.                                   *)
Reuse(t) ==
    /\ pc[t] = "setup" /\ at[t] <= Len(Plan[t])
    /\ \/ /\ entry[Wanted(t)] = "ready"
          /\ refcount' = [refcount EXCEPT ![Wanted(t)] = @ + 1]
          /\ at' = [at EXCEPT ![t] = @ + 1]
          /\ UNCHANGED <<pc, phase, todo, closing, blame>>
       \/ /\ entry[Wanted(t)] = "failed"
          /\ Unwind(t, "fixture")
          /\ UNCHANGED refcount
    /\ UNCHANGED <<entry, older, fate, suite, inst, leaked>>

(* build() returned. *)
BuildEnds(t) ==
    /\ pc[t] = "building"
    /\ entry' = [entry EXCEPT ![Wanted(t)] = "ready"]
    /\ inst' = [inst EXCEPT ![Wanted(t)] = "up"]
    /\ refcount' = [refcount EXCEPT ![Wanted(t)] = @ + 1]
    /\ at' = [at EXCEPT ![t] = @ + 1]
    /\ pc' = [pc EXCEPT ![t] = "setup"]
    /\ UNCHANGED <<older, phase, todo, closing, fate, suite, blame, leaked>>

(* A bug of acquire: a failed entry is dropped. *)
BuildFails_Forgets(t) ==
    /\ pc[t] = "building"
    /\ Drop(Wanted(t))
    /\ inst' = [inst EXCEPT ![Wanted(t)] = "broken"]
    /\ Unwind(t, "fixture")
    /\ UNCHANGED <<refcount, fate, suite, leaked>>

(* build() raised: the exception stays on the entry for good. *)
BuildFails(t) ==
    /\ pc[t] = "building"
    /\ entry' = [entry EXCEPT ![Wanted(t)] = "failed"]
    /\ inst' = [inst EXCEPT ![Wanted(t)] = "broken"]
    /\ Unwind(t, "fixture")
    /\ UNCHANGED <<older, refcount, fate, suite, leaked>>

(* The wait of a parked task is over: the fixture is there, or it failed.  *)
Unpark(t) ==
    /\ pc[t] = "parked"
    /\ \/ /\ entry[Wanted(t)] = "ready"
          /\ at' = [at EXCEPT ![t] = @ + 1]
          /\ pc' = [pc EXCEPT ![t] = "setup"]
          /\ UNCHANGED <<refcount, phase, todo, closing, blame>>
       \/ /\ entry[Wanted(t)] = "failed"
          /\ refcount' = [refcount EXCEPT ![Wanted(t)] = @ - 1]
          /\ Unwind(t, "fixture")
    /\ UNCHANGED <<entry, older, fate, suite, inst, leaked>>

(* Its constructor was interrupted: go round acquire's loop once more. *)
Retry(t) ==
    /\ pc[t] = "woken"
    /\ pc' = [pc EXCEPT ![t] = "setup"]
    /\ UNCHANGED <<store, phase, at, todo, closing, fate, suite, ghost>>

(* The plan is walked: the test's body starts. *)
Call(t) ==
    /\ pc[t] = "setup" /\ at[t] > Len(Plan[t])
    /\ pc' = [pc EXCEPT ![t] = "calling"]
    /\ UNCHANGED <<store, phase, at, todo, closing, fate, suite, ghost>>

(* _run_teardown: all that is not the module's. *)
CallEnds(t) ==
    /\ pc[t] = "calling"
    /\ BeginRelease(t, "teardown", {t} \X NotModule(KeysOf(t)))
    /\ UNCHANGED <<store, at, closing, fate, suite, ghost>>

(* Two bugs of the suite: each test releases its module keys itself; the   *)
(* keys of a setup that failed half-way are lost.                          *)
PhaseEnds_ReleasesAtOnce(t) ==
    LET kept == {t} \X OfModule(Acquired(t))
    IN  /\ pc[t] = "releasing" /\ closing[t] = {} /\ todo[t] = {}
        /\ IF phase[t] = "flush" \/ kept = {}
           THEN pc' = [pc EXCEPT ![t] = "finished"] /\ UNCHANGED <<phase, todo, remaining>>
           ELSE /\ BeginRelease(t, "flush", kept)
                /\ remaining' = [remaining EXCEPT ![ModuleOf[t]] = @ - 1]
        /\ UNCHANGED <<store, at, closing, fate, pending, earlier, stage, sweep, ghost>>

(* What t hands over to its module: its references on the module's keys.   *)
HandsOver_LosesPartial(t) ==
    IF phase[t] = "teardown" THEN {t} \X OfModule(Acquired(t)) ELSE {}

HandsOver(t) == {t} \X OfModule(Acquired(t))

(* The phase's list is through.  After the test's own release its module   *)
(* keys go to the module's account, and the last of the module's tests     *)
(* releases them all, in the same step up to the first closer.             *)
PhaseEnds(t) ==
    LET m == ModuleOf[t]
        kept == pending[m] \cup HandsOver(t)
        flushes == remaining[m] = 1 /\ kept # {}
    IN  /\ pc[t] = "releasing" /\ closing[t] = {} /\ todo[t] = {}
        /\ IF phase[t] = "flush"
           THEN /\ pc' = [pc EXCEPT ![t] = "finished"]
                /\ UNCHANGED <<phase, todo, pending, earlier, remaining>>
           ELSE /\ remaining' = [remaining EXCEPT ![m] = @ - 1]
                /\ pending' = [pending EXCEPT ![m] = IF flushes THEN {} ELSE kept]
                /\ earlier' = [earlier EXCEPT ![t] = {r[1] : r \in pending[m]}]
                /\ IF flushes
                   THEN BeginRelease(t, "flush", kept)
                   ELSE /\ pc' = [pc EXCEPT ![t] = "finished"]
                        /\ UNCHANGED <<phase, todo>>
        /\ UNCHANGED <<store, at, closing, fate, stage, sweep, ghost>>

-----------------------------------------------------------------------------
(* What interrupts a task: its own deadline, a stop, and the grace a       *)
(* stopped or timed-out test's release is given.                           *)

(* StopController.request: every test in flight is cancelled. *)
RequestStop ==
    /\ ~stopping /\ stage = "suite"
    /\ stopping' = TRUE
    /\ cancelDue' = [t \in Tests |-> pc[t] \notin {"new"} \cup Ended]
    /\ UNCHANGED <<store, task, timedOut, cancelled, suite, ghost>>

(* The deadline covers setup, its unwinding included, and the call. *)
DeadlineFires(t) ==
    /\ ~timedOut[t]
    /\ closing[t] = {} \/ phase[t] = "unwind"
    /\ timedOut' = [timedOut EXCEPT ![t] = TRUE]
    /\ UNCHANGED <<cancelDue, cancelled, stopping>>

StopLands(t) ==
    /\ cancelDue[t]
    /\ cancelDue' = [cancelDue EXCEPT ![t] = FALSE]
    /\ cancelled' = [cancelled EXCEPT ![t] = TRUE]
    /\ UNCHANGED <<timedOut, stopping>>

Interrupt(t) == DeadlineFires(t) \/ StopLands(t)

(* Two bugs of acquire's handler: the CancelledError is cached like any    *)
(* failure; the entry goes, but nobody tells the parked.                   *)
InterruptBuild_Cached(t) ==
    /\ pc[t] = "building" /\ Interrupt(t)
    /\ entry' = [entry EXCEPT ![Wanted(t)] = "failed"]
    /\ inst' = [inst EXCEPT ![Wanted(t)] = "none"]
    /\ Unwind(t, "interrupt")
    /\ UNCHANGED <<older, refcount, suite, leaked>>

InterruptBuild_TellsNobody(t) ==
    /\ pc[t] = "building" /\ Interrupt(t)
    /\ Drop(Wanted(t))
    /\ inst' = [inst EXCEPT ![Wanted(t)] = "none"]
    /\ Unwind(t, "interrupt")
    /\ UNCHANGED <<refcount, suite, leaked>>

(* In build(): _forget drops the entry, and whoever is parked on it will   *)
(* try again.                                                              *)
InterruptBuild(t) ==
    LET k == Wanted(t)
    IN  /\ pc[t] = "building" /\ Interrupt(t)
        /\ Drop(k)
        /\ inst' = [inst EXCEPT ![k] = "none"]
        /\ pc' = [u \in Tests |-> IF u = t THEN "releasing"
                                  ELSE IF pc[u] = "parked" /\ Wanted(u) = k THEN "woken"
                                  ELSE pc[u]]
        /\ phase' = [phase EXCEPT ![t] = "unwind"]
        /\ todo' = [todo EXCEPT ![t] = {t} \X NotModule(Acquired(t))]
        /\ blame' = [blame EXCEPT ![t] = "interrupt"]
        /\ UNCHANGED <<refcount, at, closing, suite, leaked>>

(* Parked, or about to retry: the shield keeps the interrupt from the      *)
(* constructor, and the reserved reference goes back.                      *)
InterruptWait(t) ==
    /\ pc[t] \in {"parked", "woken"} /\ Interrupt(t)
    /\ refcount' = [refcount EXCEPT ![Wanted(t)] = IF pc[t] = "parked" THEN @ - 1 ELSE @]
    /\ Unwind(t, "interrupt")
    /\ UNCHANGED <<entry, older, suite, inst, leaked>>

InterruptCall(t) ==
    /\ pc[t] = "calling" /\ Interrupt(t)
    /\ BeginRelease(t, "teardown", {t} \X NotModule(KeysOf(t)))
    /\ UNCHANGED <<store, at, closing, suite, ghost>>

InterruptClose(t) == closing[t] # {} /\ Interrupt(t) /\ CutShort(t)

(* The bug rationale/run.md:98-106 describes: no grace for a deadline. *)
GraceExpires_OnlyWhenCancelled(t) ==
    /\ \/ phase[t] = "teardown" /\ cancelled[t]
       \/ phase[t] = "flush" /\ stopping /\ ~cancelDue[t]
    /\ CutShort(t)
    /\ UNCHANGED fate

(* asyncio.timeout(grace): around the teardown of a test that timed out or *)
(* was cancelled, and around a flush the run is stopping under -- nowhere  *)
(* else.                                                                   *)
GraceExpires(t) ==
    /\ \/ phase[t] = "teardown" /\ (timedOut[t] \/ cancelled[t])
       \/ phase[t] = "flush" /\ stopping /\ ~cancelDue[t]
    /\ CutShort(t)
    /\ UNCHANGED fate

-----------------------------------------------------------------------------
(* aclose(), once every task is done: the entries left, last one first. *)

(* Two bugs: session entries alone; oldest entry first.                    *)
AcloseBegins_SessionOnly ==
    /\ stage = "suite" /\ \A t \in Tests : pc[t] \in Ended
    /\ stage' = "aclose"
    /\ sweep' = {k \in Present : ScopeOf[k] = "session"}
    /\ UNCHANGED <<store, task, fate, pending, earlier, remaining, ghost>>

Youngest_First(k) == \A j \in sweep \ {k} : k \in older[j]

AcloseBegins ==
    /\ stage = "suite" /\ \A t \in Tests : pc[t] \in Ended
    /\ stage' = "aclose"
    /\ sweep' = Present
    /\ UNCHANGED <<store, task, fate, pending, earlier, remaining, ghost>>

Youngest(k) == \A j \in sweep \ {k} : j \in older[k]

Idle == \A k \in Keys : inst[k] # "closing"

(* Pop the next entry; a failed one has no closer to run. *)
AclosePops ==
    /\ stage = "aclose" /\ Idle
    /\ \E k \in sweep :
         /\ Youngest(k)
         /\ sweep' = sweep \ {k}
         /\ Drop(k)
         /\ inst' = [inst EXCEPT ![k] = IF entry[k] = "ready" THEN "closing" ELSE @]
    /\ UNCHANGED <<refcount, task, fate, pending, earlier, remaining, stage, blame, leaked>>

(* The closer is through -- or cut short when the grace of a stopped run   *)
(* is over, and the rest is left as it is.                                 *)
AcloseCloses ==
    /\ stage = "aclose"
    /\ \E k \in Keys : inst[k] = "closing" /\ inst' = [inst EXCEPT ![k] = "down"]
    /\ \/ UNCHANGED sweep
       \/ stopping /\ sweep' = {}
    /\ UNCHANGED <<store, task, fate, pending, earlier, remaining, stage, blame, leaked>>

AcloseEnds ==
    /\ stage = "aclose" /\ sweep = {} /\ Idle
    /\ stage' = "over"
    /\ UNCHANGED <<store, task, fate, pending, earlier, remaining, sweep, ghost>>

-----------------------------------------------------------------------------
Setup(t) ==
    \/ Start(t) \/ Construct(t) \/ Park(t) \/ Reuse(t) \/ BuildEnds(t) \/ BuildFails(t)
    \/ Unpark(t) \/ Retry(t) \/ Call(t)

Leaving(t) == CallEnds(t) \/ ReleaseKey(t) \/ PhaseEnds(t)

Interrupted(t) ==
    \/ InterruptBuild(t) \/ InterruptWait(t) \/ InterruptCall(t)
    \/ InterruptClose(t) \/ GraceExpires(t)

Aclose == AcloseBegins \/ AclosePops \/ AcloseCloses \/ AcloseEnds

Next ==
    \/ \E t \in Tests : Setup(t) \/ Leaving(t) \/ CloseEnds(t) \/ Interrupted(t)
    \/ RequestStop
    \/ Aclose

Spec == Init /\ [][Next]_vars

(* The loop runs every ready task, every fixture is built or fails, every  *)
(* body ends, and a timer fires: grace bounds a release.                   *)
TaskFairness ==
    /\ \A t \in Tests : WF_vars(Setup(t) \/ Leaving(t)) /\ WF_vars(GraceExpires(t))
    /\ WF_vars(Aclose)

(* Closers may hang: nothing says that CloseEnds ever happens. *)
FairSpec == Spec /\ TaskFairness

ClosersEnd == \A t \in Tests : WF_vars(CloseEnds(t))

-----------------------------------------------------------------------------
InSetup(t) == pc[t] \in {"setup", "building", "parked", "woken"}
Uses(t, k) == (InSetup(t) \/ pc[t] = "calling") /\ k \in Acquired(t)

(* A test never holds a fixture that is closing or closed, whatever its    *)
(* siblings, their deadlines and the run's stop do meanwhile: what         *)
(* "refcount reserved before awaiting", module keys set aside for the      *)
(* module's last test, and session keys left to aclose are for.            *)
NoUseAfterClose ==
    \A t \in Tests, k \in Keys : Uses(t, k) => entry[k] = "ready" /\ inst[k] = "up"

(* A key is under construction by at most one task ("two concurrent askers *)
(* can never both decide they're the constructor").                        *)
SingleFlight ==
    \A t, u \in Tests : pc[t] = "building" /\ pc[u] = "building" /\ Wanted(t) = Wanted(u) => t = u

(* A key is built anew only if it was never built: not while an instance   *)
(* lives or closes, not after it was closed, not after its build failed;   *)
(* only an interrupted construction is done over.                          *)
NeverRebuilt ==
    [][\A k \in Keys : inst[k] # inst'[k] /\ inst'[k] = "building" => inst[k] = "none"]_vars

(* A setup that fails without being interrupted itself failed on a fixture *)
(* of its plan that really broke: nobody inherits "an interrupt that was   *)
(* never theirs".                                                          *)
NoInheritedInterrupt ==
    \A t \in Tests : blame[t] = "fixture" => \E k \in KeysOf(t) : inst[k] = "broken"

(* The tests that have a reference on k: that use it or wait for it, have  *)
(* yet to release it or to hand it to their module, or whose module or     *)
(* whose module's last test has it now -- and those an interrupted release *)
(* dropped.                                                                *)
Waits(t, k) == pc[t] = "parked" /\ k = Wanted(t)
Keeps(t, k) == pc[t] = "releasing" /\ phase[t] # "flush" /\ k \in OfModule(Acquired(t))
Owed(t, k)  == \/ \E u \in Tests : <<t, k>> \in todo[u]
               \/ \E m \in Modules : <<t, k>> \in pending[m]

References(k) ==
    {t \in Tests : Uses(t, k) \/ Waits(t, k) \/ Keeps(t, k) \/ Owed(t, k) \/ t \in leaked[k]}

(* The reference count of every entry is exactly the number of its         *)
(* references: none is lost, or given back twice, by whatever failed,      *)
(* was interrupted while it waited, or passed from a test to its module.   *)
RefcountExact ==
    \A k \in Keys : entry[k] # "absent" => refcount[k] = Cardinality(References(k))

Gone(k) == inst[k] \in {"none", "down", "broken"}

(* Once every test of a module has reported, its fixtures are closed, save *)
(* those an interrupted release dropped a reference of.                    *)
ModuleClosed ==
    \A m \in Modules : remaining[m] = 0 /\ (\A t \in Tests : ModuleOf[t] = m => pc[t] \in Ended) =>
        \A t \in Tests : ModuleOf[t] = m =>
            \A k \in KeysOf(t) : ScopeOf[k] = "module" => Gone(k) \/ leaked[k] # {}

(* A run that was not stopped leaves no instance behind. *)
NothingLeft == stage = "over" /\ ~stopping => \A k \in Keys : Gone(k) /\ entry[k] = "absent"

(* No fixture is closed under a dependent that lives, save a dependent an  *)
(* interrupted release dropped.                                            *)
DependentsFirst ==
    \A k, d \in Keys : k \in DependsOn[d] /\ inst[k] \in {"closing", "down"} =>
        Gone(d) \/ leaked[d] # {}

(* When closers end, every task does and the run is over: nobody stays     *)
(* parked on a fixture whose constructor failed or was interrupted.        *)
RunEnds == ClosersEnd => <>(stage = "over")

Released(t) == pc[t] \in Ended \/ phase[t] = "flush"

(* However its closers hang, the release of a test whose deadline fired or *)
(* that a stop cancelled in its call is bounded by the grace.              *)
CutTeardownEnds ==
    \A t \in Tests : closing[t] # {} /\ phase[t] = "teardown" /\ (timedOut[t] \/ cancelled[t])
                     ~> Released(t)

(* "One hung `finally`" of a timed-out test never "hangs the entire run"   *)
(* (rationale/run.md:98-106): whenever a deadline fired, the test is done  *)
(* with its own fixtures in the end.                                       *)
TimedOutTestReleases == \A t \in Tests : timedOut[t] ~> Released(t)
=============================================================================
