------------------------------ MODULE Session ------------------------------
(***************************************************************************)
(* One run of the suite: `_Session`, `StopController` and `_run_one` of    *)
(* voci/_run/run.py, over the gate's promise (Admission, which             *)
(* AdmissionGate is proved to keep).  A task per test asks for a place,    *)
(* goes through setup, call, teardown and the flush of its module, and     *)
(* reports; --maxfail or a Ctrl-C stops the run half-way; a second Ctrl-C  *)
(* aborts it; a callback that raises brings the task group down.           *)
(*                                                                         *)
(* A step is what a task does between two awaits.  Task.cancel() is an     *)
(* element of `due`, thrown at the await the task stands at: a task with   *)
(* something due cannot leave that await in any other way, though the      *)
(* test's own code may swallow what is thrown.                             *)
(***************************************************************************)
EXTENDS Integers, FiniteSets, Sequences, Outcomes

CONSTANTS
    Tests, TokensOf, SoloTests, Concurrency,  \* as in Admission
    Timed,       \* the tests under a timeout
    Isolated,    \* the tests marked `isolated`
    Xfail,       \* Xfail[t]: "none", "lenient" or "strict"
    MaxFail      \* --maxfail, 0 when it was not given

ASSUME SessionAssumption ==
    /\ IsFiniteSet(Tests) /\ SoloTests \subseteq Tests /\ DOMAIN TokensOf = Tests
    /\ Timed \subseteq Tests \ Isolated /\ Isolated \subseteq Tests
    /\ Xfail \in [Tests -> {"none", "lenient", "strict"}]
    /\ Concurrency \in Nat \ {0} /\ MaxFail \in Nat

VARIABLES
    asking, held, gone,  \* the gate
    pc,          \* pc[t]: where t's task is
    due,         \* due[t]: the cancellations of t's task not thrown yet
    chased,      \* StopController._cancelled
    facts,       \* facts[t]: what t's phases came to, while _run_one knows
    free,        \* WorkerSlots._free
    worker,      \* worker[t]: the slot t runs in, -1 for none
    result,      \* result[t]: t's slot of `results`, "none" when empty
    failures,    \* _Session.failures
    reason,      \* StopController._reason
    presses,     \* how often Ctrl-C was pressed
    told,        \* the loop has run the first press's callback
    aborting,    \* StopController.aborting
    group,       \* the task group: "up", "failed" (a task raised), "down"
    stage,       \* "running", "closing" (aclose), "over"
    fault        \* the tests something of their own went wrong in

gate  == <<asking, held, gone>>
stop  == <<reason, presses, told, aborting>>
slots == <<free, worker>>
vars  == <<gate, pc, due, chased, facts, slots, result, failures, stop, group, stage, fault>>

Gate == INSTANCE Admission

Stopping  == reason # "none"
Envelope  == {"setup", "call", "teardown", "flush", "subprocess"}
Ended     == {"settled", "dropped", "raised"}
InFlight  == {t \in Tests : pc[t] \in Envelope}
\* Inside _run_one: where a worker slot is held.
InRunOne(t) == pc[t] \in {"setup", "call", "teardown"}

TypeOK ==
    /\ asking \subseteq Tests /\ held \subseteq Tests /\ gone \subseteq Tests
    /\ pc \in [Tests -> {"new", "queued"} \cup Envelope \cup Ended]
    /\ due \in [Tests -> SUBSET {"deadline", "stop", "collateral"}]
    /\ chased \subseteq InFlight
    /\ facts \in [Tests -> [setup : SetupEnds_, call : CallEnds_, teardown : TeardownEnds_,
                            expired : BOOLEAN, cancelled : BOOLEAN,
                            shipped : Outcome \cup {"none"}]]
    /\ free \in Seq(0..(Concurrency - 1))
    /\ worker \in [Tests -> -1..(Concurrency - 1)]
    /\ result \in [Tests -> Outcome \cup {"none"}]
    /\ failures \in 0..Cardinality(Tests)
    /\ reason \in {"none", "maxfail", "interrupt"} /\ presses \in 0..2
    /\ told \in BOOLEAN /\ aborting \in BOOLEAN
    /\ group \in {"up", "failed", "down"} /\ stage \in {"running", "closing", "over"}
    /\ fault \subseteq Tests

NoFacts == [setup |-> "none", call |-> "none", teardown |-> "ok",
            expired |-> FALSE, cancelled |-> FALSE, shipped |-> "none"]

Init ==
    /\ Gate!Init
    /\ pc = [t \in Tests |-> "new"]
    /\ due = [t \in Tests |-> {}] /\ chased = {}
    /\ facts = [t \in Tests |-> NoFacts]
    /\ free = [i \in 1..Concurrency |-> i - 1] /\ worker = [t \in Tests |-> -1]
    /\ result = [t \in Tests |-> "none"] /\ failures = 0
    /\ reason = "none" /\ presses = 0 /\ told = FALSE /\ aborting = FALSE
    /\ group = "up" /\ stage = "running" /\ fault = {}

-----------------------------------------------------------------------------
(* _cancelled once t has been through claim() or unregister(). *)
Unregistered(t) == chased \ {t}

(* StopController.request, by the task of test t or by nobody's.           *)
Request(why, t) ==
    IF Stopping
    THEN reason' = reason /\ chased' = Unregistered(t) /\ due' = [due EXCEPT ![t] = {}]
    ELSE LET others == InFlight \ {t}
         IN  /\ reason' = why
             /\ chased' = others
             /\ due' = [u \in Tests |-> IF u \in others THEN due[u] \cup {"stop"}
                                        ELSE IF u = t THEN {} ELSE due[u]]

(* A bug of WorkerSlots.acquire: the index is read, not popped. *)
TakeSlot_Peeks(t) ==
    /\ free # <<>>
    /\ worker' = [worker EXCEPT ![t] = free[Len(free)]]
    /\ UNCHANGED free

(* WorkerSlots: a stack of free indices. *)
TakeSlot(t) ==
    /\ free # <<>>
    /\ worker' = [worker EXCEPT ![t] = free[Len(free)]]
    /\ free' = SubSeq(free, 1, Len(free) - 1)

FreeSlot(t) ==
    /\ worker' = [worker EXCEPT ![t] = -1]
    /\ free' = Append(free, worker[t])

(* dispatch_one, from the place in the gate on: nothing is awaited between *)
(* the look at `stopping` and register().                                  *)
Begin(t) ==
    /\ pc' = [pc EXCEPT ![t] = IF t \in Isolated THEN "subprocess" ELSE "setup"]
    /\ IF t \in Isolated THEN UNCHANGED slots ELSE TakeSlot(t)

(* The `finally` of dispatch_one. *)
Release(t) == IF aborting THEN UNCHANGED gate ELSE Gate!Leave(t)

Steps == stage = "running" \/ (aborting /\ stage = "closing")

Dispatch(t) ==
    /\ Steps /\ pc[t] = "new"
    /\ \/ /\ Stopping
          /\ pc' = [pc EXCEPT ![t] = "dropped"]
          /\ UNCHANGED <<gate, slots>>
       \/ ~Stopping /\ Gate!Enter(t) /\ Begin(t)
       \/ /\ ~Stopping /\ Gate!Ask(t)
          /\ pc' = [pc EXCEPT ![t] = "queued"]
          /\ UNCHANGED slots
    /\ UNCHANGED <<due, chased, facts, result, failures, stop, group, stage, fault>>

(* Two bugs of dispatch_one: `stopping` is not looked at again once the  *)
(* place is there; the dropped test keeps its place.                       *)
Resume_WithoutRecheck(t) ==
    /\ Steps /\ pc[t] = "queued" /\ t \in held /\ due[t] = {}
    /\ Begin(t) /\ UNCHANGED gate
    /\ UNCHANGED <<due, chased, facts, result, failures, stop, group, stage, fault>>

Resume_DropKeepsPlace(t) ==
    /\ Steps /\ pc[t] = "queued" /\ t \in held /\ due[t] = {}
    /\ IF Stopping THEN pc' = [pc EXCEPT ![t] = "dropped"] /\ UNCHANGED slots ELSE Begin(t)
    /\ UNCHANGED <<gate, due, chased, facts, result, failures, stop, group, stage, fault>>

(* acquire() returned: the moment that decides whether t runs. *)
Resume(t) ==
    /\ Steps /\ pc[t] = "queued" /\ t \in held /\ due[t] = {}
    /\ \/ /\ Stopping /\ Release(t)
          /\ pc' = [pc EXCEPT ![t] = "dropped"]
          /\ UNCHANGED slots
       \/ ~Stopping /\ Begin(t) /\ UNCHANGED gate
    /\ UNCHANGED <<due, chased, facts, result, failures, stop, group, stage, fault>>

(* acquire() raised: the gate has taken back what it gave. *)
Abandon(t) ==
    /\ Steps /\ pc[t] = "queued" /\ due[t] # {}
    /\ IF t \in held THEN Gate!Leave(t) ELSE Gate!Withdraw(t)
    /\ pc' = [pc EXCEPT ![t] = "dropped"]
    /\ due' = [due EXCEPT ![t] = {}]
    /\ UNCHANGED <<chased, facts, slots, result, failures, stop, group, stage, fault>>

-----------------------------------------------------------------------------
(* The end of an envelope, in one step: unregister, count the failure and  *)
(* stop the run on the last one allowed, give the place back, report.      *)

Counts_AllButPassed(o) == MaxFail > 0 /\ o # "passed"

Counts(o) == MaxFail > 0 /\ o \in FAILING_OUTCOMES

Settle(t, o) ==
    /\ failures' = IF Counts(o) THEN failures + 1 ELSE failures
    /\ IF Counts(o) /\ failures' >= MaxFail
       THEN Request("maxfail", t)
       ELSE /\ chased' = Unregistered(t) /\ due' = [due EXCEPT ![t] = {}]
            /\ UNCHANGED reason
    /\ Release(t)
    /\ facts' = [facts EXCEPT ![t] = NoFacts]
    /\ \/ /\ pc' = [pc EXCEPT ![t] = "settled"]
          /\ result' = [result EXCEPT ![t] = o]
          /\ UNCHANGED group
       \/ \* on_result raised
          /\ group = "up" /\ group' = "failed"
          /\ pc' = [pc EXCEPT ![t] = "raised"]
          /\ UNCHANGED result

(* What t reports: its phases' outcome, or the one its subprocess shipped. *)
Verdict(t, f) == IF t \in Isolated THEN f.shipped ELSE ResolveOutcome(f, Xfail[t])

(* _run_one, or run_isolated, returned, with facts f: the slot is free     *)
(* again, and the module is flushed when t was its last test.              *)
Leaves(t, f) ==
    /\ IF t \in Isolated THEN UNCHANGED slots ELSE FreeSlot(t)
    /\ \/ Settle(t, Verdict(t, f))
       \/ /\ pc' = [pc EXCEPT ![t] = "flush"]
          /\ facts' = [facts EXCEPT ![t] = f]
          /\ UNCHANGED <<gate, due, chased, result, failures, reason, group>>
    /\ UNCHANGED <<presses, told, aborting, stage>>

GoesTo(t, phase, f) ==
    /\ facts' = [facts EXCEPT ![t] = f]
    /\ pc' = [pc EXCEPT ![t] = phase]
    /\ UNCHANGED <<gate, slots, result, failures, stop, group, stage>>

(* _run_setup returns.  With no fixtures of its own left to release, a     *)
(* test whose setup failed or skipped has no teardown to await.            *)
SetupEnds(t) ==
    /\ Steps /\ pc[t] = "setup" /\ due[t] = {}
    /\ \/ /\ GoesTo(t, "call", [facts[t] EXCEPT !.setup = "ok"])
          /\ UNCHANGED <<due, chased, fault>>
       \/ \E r \in {"failed", "skipped"} :
            /\ Leaves(t, [facts[t] EXCEPT !.setup = r])
            /\ fault' = IF r = "failed" THEN fault \cup {t} ELSE fault

CallEnds(t) ==
    /\ Steps /\ pc[t] = "call" /\ due[t] = {}
    /\ \E r \in CallEnds_ \ {"none"} :
         /\ r = "expected" => Xfail[t] # "none"
         /\ GoesTo(t, "teardown", [facts[t] EXCEPT !.call = r])
         /\ fault' = IF r = "failed" \/ (r = "passed" /\ Xfail[t] = "strict")
                     THEN fault \cup {t} ELSE fault
    /\ UNCHANGED <<due, chased>>

(* A closer raised, or the grace of a cancelled or timed-out test is over, *)
(* or all went well.                                                       *)
TeardownEnds(t) ==
    /\ Steps /\ pc[t] = "teardown" /\ due[t] = {}
    /\ \E r \in TeardownEnds_ :
         /\ Leaves(t, [facts[t] EXCEPT !.teardown = r])
         /\ fault' = IF r = "failed" THEN fault \cup {t} ELSE fault

(* The flush is through, or a cancellation ended it: the result stands.    *)
FlushEnds(t) ==
    /\ Steps /\ pc[t] = "flush"
    /\ Settle(t, Verdict(t, facts[t]))
    /\ UNCHANGED <<slots, presses, told, aborting, stage, fault>>

(* The subprocess ran its test, or crashed. *)
SubprocessEnds(t) ==
    /\ Steps /\ pc[t] = "subprocess" /\ due[t] = {}
    /\ \E o \in Outcome \ {"cancelled"} :
         /\ Leaves(t, [facts[t] EXCEPT !.shipped = o])
         /\ fault' = IF o \in FAILING_OUTCOMES THEN fault \cup {t} ELSE fault

-----------------------------------------------------------------------------
(* What a cancellation does where it lands.                                *)

(* asyncio.timeout around setup and call. *)
DeadlineFires(t) ==
    /\ Steps /\ t \in Timed /\ pc[t] \in {"setup", "call"} /\ ~facts[t].expired
    /\ facts' = [facts EXCEPT ![t].expired = TRUE]
    /\ due' = [due EXCEPT ![t] = @ \cup {"deadline"}]
    /\ UNCHANGED <<gate, pc, chased, slots, result, failures, stop, group, stage, fault>>

(* The test's or a fixture's own code catches it, and goes on. *)
Swallow(t) ==
    /\ Steps /\ InRunOne(t) /\ due[t] # {}
    /\ due' = [due EXCEPT ![t] = {}]
    /\ UNCHANGED <<gate, pc, chased, facts, slots, result, failures, stop, group, stage, fault>>

(* A bug of _run_one: nothing claims what landed. *)
Cut_NotClaimed(t) ==
    LET phase == pc[t]
        f == [facts[t] EXCEPT ![phase] = IF facts[t].expired THEN @ ELSE "failed"]
    IN  /\ Steps /\ pc[t] \in {"setup", "call"} /\ due[t] # {}
        /\ \/ /\ phase = "setup" /\ Leaves(t, f)
           \/ /\ phase = "call" /\ GoesTo(t, "teardown", f)
              /\ due' = [due EXCEPT ![t] = {}] /\ UNCHANGED chased
        /\ UNCHANGED fault

(* What any other cancellation makes of the phase it ended: nothing where  *)
(* the deadline's `expired` accounts for it, else a failure, which an      *)
(* xfail mark that names no exception expects.                             *)
Collateral(t) ==
    IF facts[t].expired THEN {facts[t]}
    ELSE LET expects == pc[t] = "call" /\ Xfail[t] # "none"
             ends == {"failed"} \cup (IF expects THEN {"expected"} ELSE {})
         IN  {[facts[t] EXCEPT ![pc[t]] = r] : r \in ends}

(* It ends setup or call.  claim() knows the stop's cancellations from the *)
(* rest: t was cancelled.                                                  *)
Cut(t) ==
    /\ Steps /\ pc[t] \in {"setup", "call"} /\ due[t] # {}
    /\ \E f \in IF t \in chased THEN {[facts[t] EXCEPT !.cancelled = TRUE]} ELSE Collateral(t) :
         \/ pc[t] = "setup" /\ Leaves(t, f)
         \/ /\ pc[t] = "call" /\ GoesTo(t, "teardown", f)
            /\ due' = [due EXCEPT ![t] = {}] /\ chased' = Unregistered(t)
    /\ UNCHANGED fault

(* A bug of _run_teardown: the stop is let through to _run_one. *)
CutTeardown_Cancels(t) ==
    /\ Steps /\ pc[t] = "teardown" /\ due[t] # {}
    /\ Leaves(t, [facts[t] EXCEPT !.cancelled = t \in chased,
                                  !.teardown = IF t \in chased THEN @ ELSE "failed"])
    /\ UNCHANGED fault

(* It ends the teardown: the verdict stands when it is the stop's. *)
CutTeardown(t) ==
    /\ Steps /\ pc[t] = "teardown" /\ due[t] # {}
    /\ Leaves(t, [facts[t] EXCEPT !.teardown = IF t \in chased THEN @ ELSE "failed"])
    /\ UNCHANGED fault

(* It kills the subprocess, and the stop's makes t a cancelled test; any   *)
(* other is an error, or escapes while the subprocess is being spawned.    *)
(* Where the subprocess has just exited, kill() raises after either, and   *)
(* that takes the group down.                                              *)
CutSubprocess(t) ==
    /\ Steps /\ pc[t] = "subprocess" /\ due[t] # {}
    /\ \/ /\ t \in chased /\ Settle(t, "cancelled")
          /\ UNCHANGED <<slots, presses, told, aborting, stage>>
       \/ t \notin chased /\ Leaves(t, [facts[t] EXCEPT !.shipped = "error"])
       \/ /\ Release(t)
          /\ pc' = [pc EXCEPT ![t] = "raised"]
          /\ due' = [due EXCEPT ![t] = {}] /\ chased' = Unregistered(t)
          /\ group' = IF group = "up" THEN "failed" ELSE group
          /\ UNCHANGED <<facts, slots, result, failures, stop, stage>>
    /\ UNCHANGED fault

-----------------------------------------------------------------------------
(* What befalls the run. *)

(* The task group cancels every task once one has raised; one that has not *)
(* begun never does.                                                       *)
GroupFails ==
    /\ Steps /\ group = "failed"
    /\ group' = "down"
    /\ pc' = [t \in Tests |-> IF pc[t] = "new" THEN "dropped" ELSE pc[t]]
    /\ due' = [t \in Tests |-> IF pc[t] \in Envelope \cup {"queued"}
                               THEN due[t] \cup {"collateral"} ELSE due[t]]
    /\ UNCHANGED <<gate, chased, facts, slots, result, failures, stop, stage, fault>>

(* The first Ctrl-C only asks the loop to call interrupt(). *)
FirstPress ==
    /\ stage = "running" /\ presses = 0
    /\ presses' = 1
    /\ UNCHANGED <<gate, pc, due, chased, facts, slots, result, failures, reason, told,
                   aborting, group, stage, fault>>

Interrupt ==
    /\ stage # "over" /\ presses > 0 /\ ~told
    /\ told' = TRUE
    /\ IF Stopping THEN UNCHANGED <<reason, chased, due>>
       ELSE /\ reason' = "interrupt"
            /\ chased' = InFlight
            /\ due' = [t \in Tests |-> IF t \in InFlight THEN due[t] \cup {"stop"} ELSE due[t]]
    /\ UNCHANGED <<gate, pc, facts, slots, result, failures, presses, aborting, group, stage,
                   fault>>

(* The second raises KeyboardInterrupt where it finds the main thread: in  *)
(* a task, which it ends, so that the group will cancel the rest, or, when *)
(* no task kept the loop from the first press's callback, perhaps in the   *)
(* loop itself.  The loop leaves run_all, and runs again for aclose, tasks *)
(* and callbacks that are ready included.                                  *)
SecondPress ==
    /\ stage = "running" /\ presses = 1
    /\ presses' = 2 /\ aborting' = TRUE /\ stage' = "closing"
    /\ \/ told /\ UNCHANGED <<pc, due, chased, slots, group>>
       \/ \E t \in InFlight :
            /\ pc' = [pc EXCEPT ![t] = "raised"]
            /\ due' = [due EXCEPT ![t] = {}]
            /\ chased' = Unregistered(t)
            /\ group' = IF group = "up" THEN "failed" ELSE group
            /\ IF InRunOne(t) THEN FreeSlot(t) ELSE UNCHANGED slots
    /\ UNCHANGED <<gate, facts, result, failures, reason, told, fault>>

(* The group is through, and aclose begins. *)
RunAllEnds ==
    /\ stage = "running" /\ \A t \in Tests : pc[t] \in Ended
    /\ stage' = "closing"
    /\ UNCHANGED <<gate, pc, due, chased, facts, slots, result, failures, stop, group, fault>>

(* aclose is through; a callback that was pending has run before it. *)
AcloseEnds ==
    /\ stage = "closing" /\ (presses = 0 \/ told)
    /\ stage' = "over"
    /\ UNCHANGED <<gate, pc, due, chased, facts, slots, result, failures, stop, group, fault>>

-----------------------------------------------------------------------------
Proceed(t) ==
    \/ Dispatch(t) \/ Resume(t) \/ Abandon(t) \/ SetupEnds(t) \/ CallEnds(t)
    \/ TeardownEnds(t) \/ FlushEnds(t) \/ SubprocessEnds(t)
    \/ Cut(t) \/ CutTeardown(t) \/ CutSubprocess(t)

Loop == GroupFails \/ Interrupt \/ RunAllEnds \/ AcloseEnds

Next ==
    \/ \E t \in Tests : Proceed(t) \/ DeadlineFires(t) \/ Swallow(t)
    \/ Loop \/ FirstPress \/ SecondPress

Spec == Init /\ [][Next]_vars

(* The loop runs every ready task and callback, and every phase ends.      *)
FairSpec == Spec /\ (\A t \in Tests : WF_vars(Proceed(t))) /\ WF_vars(Loop)
-----------------------------------------------------------------------------
(* Once the run is stopping -- or as many tests as --maxfail allows have   *)
(* reported a failure -- no test begins, though its place may have been    *)
(* booked before: "releasing is what admits the next waiting test, so      *)
(* counting the failure afterwards would race that test's own check".      *)
NothingStartsOnceStopping ==
    [][\A t \in Tests : t \notin InFlight /\ pc'[t] \in Envelope =>
         /\ ~Stopping
         /\ MaxFail = 0
            \/ Cardinality({u \in Tests : result[u] \in FAILING_OUTCOMES}) < MaxFail]_vars

Reports(t, O) == result'[t] # result[t] /\ result'[t] \in O

(* A test is reported cancelled only when a stop ended its setup or its    *)
(* call: a verdict reached before the stop stands, whatever the stop does  *)
(* to the teardown or the flush that follow.                               *)
CancelledMeansCut ==
    [][\A t \in Tests : Reports(t, {"cancelled"}) => Stopping /\ facts[t].call = "none"]_vars

(* A stop is never reported as a failure of the test it landed in, nor     *)
(* wherever in its envelope it landed: unless the group went down, a test  *)
(* that failed or broke did so by itself.                                  *)
StopIsNoFailure ==
    [][\A t \in Tests : Reports(t, {"failed", "error"}) => group = "down" \/ t \in fault']_vars

(* A test whose deadline fired reports a timeout, though it swallowed the  *)
(* cancellation, or a stop cancelled it as well.                           *)
DeadlineDecides ==
    [][\A t \in Tests : Reports(t, Outcome \ {"timeout"}) => ~facts[t].expired]_vars

(* No two tests inside _run_one share a worker slot, and there is a slot   *)
(* for every test the gate has let in: `_free.pop()` never finds it empty. *)
WorkersDistinct ==
    /\ \A t, u \in Tests : InRunOne(t) /\ InRunOne(u) /\ t # u => worker[t] # worker[u]
    /\ Cardinality({t \in Tests : InRunOne(t)}) + Len(free) = Concurrency
    /\ Cardinality({t \in held : pc[t] = "queued"}) <= Len(free)

(* The exit status: cli.main's, or the interpreter's for an exception.     *)
ExitStatus ==
    CASE aborting                                            -> 2
      [] ~aborting /\ group # "up"                           -> 1
      [] ~aborting /\ group = "up" /\ reason = "interrupt"   -> 2
      [] ~aborting /\ group = "up" /\ reason # "interrupt"   ->
           ExitCodeFor({result[t] : t \in Tests} \ {"none"})

(* A run that was stopped early never exits as a success: a --maxfail stop *)
(* "implies the failures that reached the threshold" (rationale/run.md).   *)
StoppedRunNeverGreen ==
    stage = "over" /\ Stopping => ExitStatus = IF reason = "maxfail" /\ ~aborting THEN 1 ELSE
                                               IF group = "up" \/ aborting THEN 2 ELSE 1

(* Every run comes to its end, stopped or not, with every place in the     *)
(* gate given back unless it was aborted.                                  *)
RunEnds == <>(stage = "over" /\ (aborting \/ held = {}))

=============================================================================
