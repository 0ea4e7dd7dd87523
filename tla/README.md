# Verification of voci in TLA+

voci is a test runner that runs the tests of a suite concurrently, on one
asyncio event loop, with fixtures injected by dependency. This directory holds
TLA+ models of its run-time core, the TLC runs that check them, and proofs
that TLAPS checks. Paths below are relative to the repository's root.

## 1. The system

One process, one event loop. `run_suite` (voci/_run/run.py) creates a task per
test up front. Each task waits for a place in the **admission gate**, acquires
its fixtures from the **scope store**, runs the test, releases what it
acquired, and reports. A **stop controller** cancels what is in flight when
`--maxfail` is reached or Ctrl-C is pressed. A watchdog thread reports a blocked
loop; sync tests run in an executor; isolated tests run in a subprocess. Between
runs, a cache remembers failures and a SQLite store remembers what each test
depended on.

| Component | State | Operations | Hard behaviour | What makes it correct |
|---|---|---|---|---|
| `AdmissionGate` (run.py:588) | counter, token set, solo flag, deque of futures | `acquire`, `release`, `_wake` | a waiter cancelled before, or just after, it is booked; an early-returning scan; barging | never too many, solo alone, tokens disjoint; exact books; no idle place; all get through |
| `ScopeStore`, `setup`, `teardown` (_di/runtime.py) | entries with future, closer, refcount, in insertion order | `acquire`, `release`, `aclose` | single flight across awaits; constructor interrupted with others parked; closers that hang or are interrupted; setup failing half-way | no use after close, one instance per key, exact counts, inverse teardown, nothing left |
| `_Session`, `_run_one`, `StopController` (run.py) | results, failures, `remaining_by_module`, `pending_module_keys`, `_running`, `_cancelled`, reason | `dispatch_one`, `run_envelope`, `flush_module_scope`, `request`, `claim` | stop, deadline and task-group cancellations in one task; a stop in teardown; swallowed cancellations; second Ctrl-C | nothing starts after a stop; a verdict stands; deadline decides; the run ends |
| Outcomes, exit code (run.py, cli.py) | none | `_resolve_outcome`, `exit_code_for` | precedence of causes | a stopped run is never green |
| `WorkerSlots` (capture.py:389) | free list | `acquire`, `release` | exhaustion | distinct indices, never empty for an admitted test |
| `LoopWatchdog`, stuck calls (safety.py) | beat, stalled-at, thread | `_tick`, `_watch` | two threads, no lock | one report per stall, one when it is over |
| Session roots (capture.py:425-600) | numbered directories, locks, pids | allocate, lock, sweep | concurrent runs, crashes | a live run's root is never swept |
| Isolated tests (isolated.py, _isolated_worker.py) | subprocess, result file | spawn, wait, kill | cancellation at each await | no subprocess outlives its test |
| Patch guard (_mocking.py) | patched `mock._patch` methods | install, `_check` | contexts of concurrent tests | process-global patches only when alone |
| Affected selection (_affected) | SQLite records, dependency keys, checksums, collectors | trace, store, prune, decide, narrow | history of edits and partial runs; events seen once | a skipped test would pass |
| Collection index (_collection/index.py) | per file: ids under a time and size | `answer`, `refresh`, `save` | edits between and under runs, overlapping runs | what it answers is what collecting would find |
| Run cache, last-failed (_cache.py, _collection/lastfailed.py) | failed ids, failed paths | merge, select, reorder | narrowed, stopped, crashed runs | a failure stays until answered, and goes when answered |
| Collection, plans, marks, config, reporters, assertions, watch, CLI | mostly none | parse, import, format | sequential | not a matter of interleaving |
| FastAPI support (fastapi.py) | two proxies on the app, layers in a context variable | `client`, reads and writes, `lifespan`, `uninstall` | concurrent tests, tasks with copied contexts, an attribute assigned over, fixtures built in a test's context | a block is in force in its task, gone after it, and nobody else's |
| voci-migrate | none across runs | convert pytest suites | sequential | not a matter of interleaving |

Interactions: `dispatch_one` calls the gate and registers with the stop
controller; `_run_one` calls the store through `setup` and `teardown`; the
session keeps the module keys the tests hand over and releases them through the
store; the stop controller cancels tasks, which is what the gate, the store and
`_run_one` each have a handler for.

## 2. Modules

| Module | What it models |
|---|---|
| `Admission` | The gate's promise: who asks, who holds a place, who is gone. No counter, queue or future. |
| `AdmissionGate` | The gate as it is written: books, deque, futures, cancellation. |
| `ScopeStore` | The life of every fixture under `setup`, `teardown`, the module flush and `aclose`. |
| `Outcomes` | The outcome of a test from its phases; the exit code. |
| `Session` | A whole run over `Admission`: dispatch, phases, stops, deadlines, exit. |
| `Plans` | From declarations to records: plans, their specialisations by cases, and the keys of the store. |
| `Collection` | What one run finds on disk, as functions of the tree and of the request. |
| `LastFailed` | The record of failures: what `--lf` selects from it, what a run makes of it. |
| `Invocations` | Runs that share a rootdir, over `Collection` and `LastFailed`, while the suite is edited. |
| `CollectionIndex` | The index `--collect-only` answers from, over `Collection`. |
| `SessionRoots` | The numbered temporary directories of concurrent runs. |
| `Isolated` | A run over `SessionRoots` with an isolated test and its subprocess. |
| `Affected` | `--affected`: collectors, the store of records, the decision, over edits. |
| `Overrides` | FastAPI's overrides and state per test, over one application. |
| `LoopWatchdog` | The loop's heartbeat and the thread that reads it, access by access. |
| `MC...` | The suites, trees and graphs TLC checks. |
| `AdmissionGateProofs`, `ScopeStoreProofs`, `SessionProofs`, `InvocationsProofs`, `IsolatedProofs`, `AffectedProofs`, `OverridesProofs`, `PlansProofs` | Theorems about the module of that name, and about those it extends (section 4). |

**The event loop.** Code between two awaits is one action. A task can be
interrupted only at an await, and a cancellation is delivered there. This is
what asyncio gives, and what the code's comments argue from ("with no `await`
in between").

**AdmissionGate.** `gate` is the record of `_running`, `_running_tokens` and
`_solo_active`. The deque is the set `waiters` with `ahead[t]`, the waiters in
front of `t`: the order is a relation, not a sequence, so that the scan of
`_wake` can be stated without recursion and proved about. `Greedy(g, A)`
characterises the set `A` the scan admits: a waiter is in it exactly when it is
pending and fits beside those of `A` ahead of it. Once the gate is full, or a
solo test is in, nobody further fits, so the early returns do not show in `A`;
they do in which cancelled waiters are dropped on the way (`StopsAt`,
`Scanned`, `Dropped`). `Cancel` is `Task.cancel()`: it cancels a pending future
in place, and waits (`mustCancel`) when the future is done and the task has yet
to resume. That is the race the handler of `acquire` is written for
(`ResumeCancelled`).

**ScopeStore.** `entry` and `refcount` are the store, and `older[k]` the keys that
were in it when `k` was entered: the order of the dict is a relation, as the
gate's queue is. `pc` and `at` are where each task is in its plan. A list of
releases is a set of references, `todo[t]`; `Before` says which is ahead of which
by the plan, or, in the list a module's tests hand over, by `earlier`, and
`ReleaseKey` takes the last. `phase` tells the three reasons to release: a failed
setup, teardown, and the module flush. `Construct`, `Park`, `Reuse` are the three
answers of `acquire`; `BuildEnds`, `BuildFails`, `InterruptBuild` the three ends of
a construction. `inst`, `blame` and `leaked` are history: they record what the
fixture's own code saw, why a setup failed, and the references dropped by
interrupted releases. A `call`-scope fixture is a function key of its own. A fixture
without a closer passes through "closing" as well, which allows more than the
code does.

**Session.** `due[t]` holds the cancellations on their way to a task; `chased`
is the controller's `_cancelled`; `facts[t]` is what `_run_one` has learnt of its
phases. `Cut`, `CutTeardown`, `CutSubprocess` are the handlers of a
CancelledError in each place, `Swallow` is test code that catches it. `Settle`
is the end of `dispatch_one`, in one step as the code is: unregister, count,
stop, release, report. Two things are wider than the code: whether a test has a
flush to do is a choice (ScopeStore decides it), and any ready test may move
before the pending Ctrl-C callback runs.

**Plans.** Fixtures are declared over fixtures that exist, and then tests are
collected, one after the other: `Plan` is the call of `plan_for`, `Refuse`, `Share`
and `Enter` are what its inner `visit` does at a `Depends(...)` site (raise, return a
step it has, go down), `Leave` is its end, where the step is made, and `Expand`
is `expand_cases` and the crossing with the test's own cases. `stack` holds the
calls of `visit` under way, each with the steps its sites were given so far;
`steps` and `memo` are the two it closes over. The walk is atomic in the code: it is
spelled out so that it can be reasoned about call by call. `Key` is `key_for`. An id
is a sequence of numbers, so that numbering is appending and joining with dashes is
making a sequence: ids that hold dashes themselves are left out (section 6).
`FitForTheStore` says what `ScopeStore` assumes of a plan.

**Collection, LastFailed, Invocations.** The first two are functions of a tree
(what stands at each path, each test's shape, which ids fail) and of a request
(roots, `-k`, `-m`, named ids). An invocation keeps the tree it collected, since
the disk may change under it. `Begin` loads the record, narrows and collects;
`Settle` is `_settle` and `update`, which read the disk and the record again;
`Write` is the atomic replace; `Die` a kill at any point. Two invocations may
overlap, and nothing is locked. Every step of `lastfailed.py` is an operator of
the code's name.

**CollectionIndex.** `stamp[f]` is the time and size of a file. A run keeps what it
collected, and writes the index when its tests are over (`Finish`), with the
stamps of that moment; `Answers` and `Answer` are the fast path of
`--collect-only`. `--lf` and `--affected` narrow the files to any subset.

**SessionRoots, Isolated.** A run scans, makes a directory, opens its lock,
writes its pid, looks at each older root and discards it by a rename and a
deletion: one action for each, so that any two runs meet between any two. A
pid may be given again to a later run, a lock may be torn by a kill, and locks
age. `Isolated` adds a test whose subprocess lives in such a root, and the
parent's cancellations at each of its awaits.

**Affected.** A tree gives every block and data file a text, which says whether
it is right and what it refers to; a collector is a set of blocks, data files
and a flag of distrust. `Begin` builds the world, `Collect` imports, `Start`,
`Build`, `Call`, `Finish` run a test beside others; whatever runs is noted by the
collector that is current, on a thread by nobody (and then everyone in flight
is distrusted), and a memoised helper only the first time. `Stop`, `Abandon` and
`Abort` end a run early. `Record` stores what was noted, and prunes. `past` is
history: what each test's last runs really depended on. `Reach` is the least
closed set, as the fixpoint of `World.closure` is. `AffectedAssumption` only
types the texts and plans. `MemoAssumption` is a limit of `--affected` itself:
a helper whose result is remembered for the process names what it starts on
threads (section 6).

**Overrides.** A context is the sequence of the layers it holds; a layer is a
mutable mapping that copied contexts share, so it stands in a table of its own.
One number stands for the two layers that `client` pushes together, except in
`EnterRaises`, where the second push fails. `Enter` with `shared` is a client held
by a module or session fixture: it is entered by the test that builds the
fixture, and left (`ExitShared`, one block a step) by the last test of the module
to finish, in its own task after its own blocks, or by the run at its end. Until it
ends, that task does what closers do, which is whatever a test does except build
shared fixtures; `flushing` tells this phase. Modules are not told apart, and the
closers come in any order, as the order in which the tests of a module finish makes
it. A release that a stop cuts short, and leaves blocks open, is left out.
`Startup` is the lifespan fixture, built
by the first test that asks for it. A child task begins with a copy of its
test's context, and may outlive the block. What is put into an object assigned
over a proxy is left out.

**LoopWatchdog.** Each access of a thread to `_beat` and `_stalled_at` is an
action. Time passes only when both threads wait: a machine so loaded that a
thread cannot run for a whole interval is left out.

## 3. What TLC checks

| Run | Suite and bounds | Shows |
|---|---|---|
| `gate` | five tests: `left` and `right` with a token each, `both` with both, `plain` with none, `alone` solo; two slots | the four safety invariants, the refinement of `Admission`, and that every test gets through |
| `store` | four fixtures (session, module on it, function on that, and a second function); three tests in two modules; one deadline each, one stop | seven invariants, `NeverRebuilt`, and two liveness properties |
| `store_unwind` | the two tests of one module | **violated**: see section 6 |
| `session` | a timed test, a strict-xfail test with the same token, an isolated one; two slots; `--maxfail 2`; two presses of Ctrl-C; at most one raising callback | the stop, deadline and slot properties, the exit status, and the end of the run |
| `plans` | three fixtures, of any of four scopes, with two cases or none, the second over the first twice or over nothing, the third over nothing, the second, both, or the first twice; two tests of two modules, with `voci.use`, direct and repeated sites, and cases of their own; every call of the walk | plans are what the store takes for granted, every combination is collected once, keys are equal exactly where an instance may be shared |
| `invocations` | a package and a directory beside it, three tests, one with a case; five command lines; two runs at once, three in all, one edit | failures and errors leave the record by evidence only, `--lf` narrows without loss, a green run clears the record |
| `processes` | three runs, three roots, one retained, one isolated test, two cancellations | no locked root of a live run is swept, the newest stay, nothing piles up, a verdict is one the subprocess wrote whole |
| `affected` | two tests of one file, two session fixtures, a memoised helper, a data file; three runs, two edits, two records a test | a skipped test would pass, a failure runs again, a branch gone back to is remembered |
| `affected_data` | the same | **violated** |
| `index` | a package of one file, two runs at once, two edits | **violated** |
| `overrides` | two tests, one of them with a second task, one key of each attribute, two blocks, one write beside what blocks are given | no cross-talk, blocks in force, whatever is assigned over; a layer whose block is over comes back in one way only |
| `watchdog` | a threshold of four intervals, the default | **violated** |

**Why the bounds are enough.** The gate compares counters and token sets only:
a test that needs two tokens, one that needs each, one that needs none and one
that needs the gate cover every pair of reasons to wait, and with two slots the
scan both returns early and walks past a waiter. In the store the cases are a
key being built with another task parked on it (two tests of one module), a key
shared across modules (the session's), a dependent and its dependency in
different scopes, and an interrupted release with a key after it (two function
fixtures). The session needs a test that fails before the threshold, the one
that reaches it, and one that waits meanwhile. Each counter is bounded by the
number of tests; `presses` by 2 (the handler hands SIGINT back at the second);
`timedOut` and `stopping` are set once, as in the code.

Three fixtures give chains, diamonds and every pair of scopes on them; a third
below two others is where a case far down has to reach a key. In `invocations`
one edit suffices for any one change under a run or between two, two runs at
once for an update that crosses another's, three for the loss of something an
earlier one recorded; the first trees are one that is sound and one in which
everything is broken. Three runs over session roots are one that sweeps, one
that is swept and one whose directory stands between; the same was checked with
four roots and without the isolated test. Two records kept per test, and
three runs, are what it takes for a record to be pruned; two edits are a branch
and the way back.

The inductive invariants of section 4 were checked by TLC on the instances
of the runs before they were proved: on all 889 273 states of `affected` and
1 263 203 of `invocations`, for the largest. Of `plans` it was
each part of the invariant, on 151 505 states, with the steps and sites of a walk's end
in place of the plan that is said to exist; and `Stocked` for all records on 166 000.

`CHECK_DEADLOCK FALSE` is said because a run ends: the last state has no
successor.

**Fairness.** Only the modules of the event loop state any; `Plans`, `Overrides`,
`Invocations`, `CollectionIndex`, `SessionRoots`, `Isolated`, `Affected` and `LoopWatchdog` are about
what may never happen, and processes may be killed. The loop runs every ready task and callback (asyncio's queue is
FIFO), so each task's own steps are weakly fair. A test's body, and a fixture's
construction, are assumed to end. A *closer is not*: `CutTeardownEnds` and
`TimedOutTestReleases` are about closers that hang, and only the timer of a
grace (`GraceExpires`) is fair. `RunEnds` in ScopeStore carries the assumption that
closers end as its hypothesis (`ClosersEnd`). Nothing is assumed of
cancellations, deadlines, stops or presses, and `Swallow` is never forced nor
excluded.

**Each property has a mutant**: an operator beside the definition it replaces,
written as a plausible bug of that code (`Greedy_HeadOnly` returns at the first
waiter that does not fit; `InUse_PidOnly` sweeps a root whose lock is being
written; `Merged_OwnOnly` forgets the shared fixtures' code; `Park_Unreserved` takes the reference after the
await; `HandsOver_LosesPartial` forgets the module keys of a failed setup).
PROJECT.json pairs them.

## 4. What is proved

Every safety invariant and every action property that a passing run checks is a
theorem for all values of the constants. TLAPS checks each from the named
assumptions of its module. Each proof follows one plan: an invariant `IInv`, which TLC checked first on the run's instance; `IInv`
inductive, with a lemma per action and under it a step per conjunct
that the action can disturb; and the properties from `IInv`, or, for an action
property, from `IInv` and one step.

**`AdmissionGateProofs`**, for every finite set of tests, every assignment of
tokens, every set of solo tests and every positive concurrency
(`GateAssumption`):

- `TypeCorrect`, `MutualExclusion`, `ExactBookkeeping`, `EveryPlaceHandedOut`: the
  type invariant, `Exclusion`, `Bookkeeping` and `NoLostWakeup` hold throughout.
- `Refinement`: `Spec => ImplementsAdmission`. `asking` is mapped to the
  pending waiters, `held` to the holders, `gone` to the tests that finished or
  whose future is cancelled.

`IInv` is the conjunction of the type invariant with `Exclusion`, `Bookkeeping`,
`NoLostWakeup` and `QueueAccurate`. None is inductive alone: `Exclusion` needs the
books to be exact, since `_admits` reads the books and not the holders; the books
stay exact because nobody in the deque holds a place (`QueueAccurate`), or a scan
would book a holder again; `NoLostWakeup` needs `QueueAccurate`, since a scan wakes
only whom it finds in the deque. The core is `WakeSound`: from a gate that
accounts for a set `H`, the set `A` a scan admits may run beside `H`, is booked
exactly, and leaves no pending waiter that would fit. Its proof takes the last
waiter of `A` in queue order (`LastWaiter`): that one was admitted with all the
others already counted, so it bounds the whole set.

**`ScopeStoreProofs`**, for every finite set of tests and any keys, plans, scopes
and dependencies that `PlanAssumption` allows (plans are topologically sorted and
flattened, nothing depends on a narrower scope: what `plan_for` ensures, by
`PlansProofs!StoreTakesAll`):

- `HeldStaysUp`, `OneConstructor`, `InterruptsAreOwn`, `CountsAreExact`,
  `ModulesAreClosed`, `NothingIsLeft`, `DependentsGoFirst`, `NothingIsRebuilt`, and
  `TypeCorrect`.

That nothing is used after it is closed needs the count to be exact; the count
is exact because every reference is in exactly one place (`Holds`: used, kept by a
finished test, owed by a list of releases, or leaked by an interrupted one) or
belongs to a task parked on the entry. `Closers` says who may be closing a key
(one task, with no reference left), `Past` that a key which is going belongs to
tests that are past their call, and so is never rebuilt under somebody; `Reports`
ties the module's countdown to the tests that have not reported, which makes the
flush come after all of them, once; `Ordered` ties the order of releases to the
order of the plan, which `DependentsGoFirst` rests on; `Sweeping` is what is left
for `aclose`.

**`SessionProofs`**, for every finite suite, every concurrency, `--maxfail`, xfail
marks, and choice of timed, isolated and solo tests (`SessionAssumption`):

- `SlotsSuffice`, `StopNeverGreen`, `StopIsFinal`, `CancelledWasCut`,
  `StopNeverBlamed`, `TimeoutsReported`, and `TypeCorrect`;
- `GateIsAdmission`: `Spec => Gate!Spec`. A run does to its gate only what `Admission`
  allows, which is what `AdmissionGate` is proved to keep;
- `SideBySide`: so the tests in flight may run side by side, also in a run that is
  being stopped or aborted.

The slots of `WorkerSlots` never run out because free and used ones add up to
the concurrency (`Slots`) and everyone in `_run_one` holds a place (`Placed`). That
a stop is never held against a test needs `Accounted`: a cancellation that is on
its way to a test which `claim()` does not know is the deadline's, and the deadline
has marked itself, or the task group's, which is down. `Counting` keeps the
count of failures below `--maxfail` until the stop, so that no test begins after it.

**`InvocationsProofs`**, for every suite, number of processes and edits, over the
trees and requests of `InvocationsAssumption`:

- `NarrowingIsSafe`, `FailuresAreKept`, `ErrorsAreKept`, `GreenRunsClear`.

What a run writes is a function of what it read, saw and ran, and `IInv` keeps
that function with each run (`Looked`, `Written`): no interleaving of two runs
disturbs it, since they share nothing but the file that one replaces whole. The
rest is about that function, in lemmas on collection (`SuiteAssumption`: ids and
their files) and on each step of `lastfailed.py`.

**`IsolatedProofs`**, over `SessionRoots` and `Isolated`, for any number of runs,
of roots and of retained ones (`RootsAssumption`):

- `LockedAreSpared`, `NewestAreKept`, `CrashesAreSwept`, and `TestsSettle`.

A sweeper acts on a listing that others make stale. `Outlived` says what
remains true of it: each root on its list has `Retention` newer ones that exist,
because a run that makes a root makes the newest, and nobody removes one of the
newest. `Marked` says that a root's lock is its run's from the moment the pid
stands in it, and `OldAreTorn` that a lock old enough to be taken for dead was
cut short. `Alone` follows a run that nobody disturbs through its sweep. `Fits` ties
the coroutine of an isolated test to its subprocess and the result file.

**`AffectedProofs`**, for every program whose texts name blocks, every suite, any
number of records kept, runs and edits (`AffectedAssumption`, `MemoAssumption`):

- `SkipsAreSafe`, `FailuresRun`, `BranchesAreRemembered`.

`IInv` has two halves. While a run is on, `Tracked`: a collector holds its own
block, nothing the test does not rest on, and is distrusted unless all that block
names, at any depth, names what it starts on threads; a test passed only if all it
rests on is right. Once it is over, `Remembered`: what `Affected` stores of a test is
`Faithful` to what the run depended on. The step between is that names are
followed when the record is made (`Reach` over `refs`), so that a block which was
not seen to run, because a helper remembered its result, is in the record
nevertheless. The properties follow from the records: two trees that agree on a
record's blocks agree on what the test reaches (`Reach` is the least closed set, and
the record's blocks are closed).

**`OverridesProofs`**, for any number of tests, tasks, keys, blocks and writes
(`OverridesAssumption`):

- `LeavesNothing`, `NoTestReadsAnothers`, `BlocksAreInForce`.

`Apart` says that a layer is in the contexts, present or put back later, of one
test only; `Lives` that the proxies stand while anybody has a layer; `Nested`
that a block puts back older layers only, and that a task still holds all that the
open blocks of its own put back, the outer ones within the inner. The last needs
that a shared block is left only by a task with no block of its own. From it
follows what leaving does to a context: its own blocks bring nothing back that the
task did not read just before, and a shared one only the layers, of what stood
before it, whose blocks are over.

**`PlansProofs`**, for any number of fixtures and tests, any scopes, sites and ids
(`PlansAssumption`):

- `Fits`, `OnceEach`, `KeysTell`, and `DedupeIs` on the ids of cases;
- `StoreTakesAll`: whatever is selected of the records that collection makes, their
  plans and keys meet `ScopeStore`'s `PlanAssumption`, restated as `Stocked` (all but
  that the suite is finite, which a run's is). So what
  `ScopeStoreProofs` shows of the store it shows of every suite voci collects. Two
  records that share a key are built by whichever comes first: the conjunct that
  is not about one plan alone is that an instance is built over the same keys in
  both (`KeysGoTogether`).

`visit` recurses, and what a recursion computes takes an induction over data, which
the provers cannot do. So the induction is over the steps of the walk, as calls on a
stack. `Walking` says that the calls go down the graph (`Descends`: each is at a site
of the one outside it for a fixture declared earlier, so none can be met twice)
to fixtures which have no step yet; that the memo is exactly the steps for sharing
(`MemoOK`); that no two sites, of steps or of calls, hold one step that is not
(`CallsApart`); that until the sites of `voci.use` are done, all there is belongs to
them (`Phase`). `Collected` says that the records of each accepted test are made of a
plan that is `Finished`, which is what a walk with no call left makes of the steps.
`Lineage` is where the declarations give an order to go by: the parametrized fixtures a
step varies with depend on its fixture only, in every plan and in one order, so
that cases of two tests can be compared; its witness grows with each declaration.
The order of `_ordered_union` and the numbering of `dedupe_case_ids` rest on
counting (`OrderedUnionCovers`, `FreeExists`: there are more numbers to try than ids
that could hold one).

**Only model-checked.**

- Liveness, under the fairness of section 3: `EveryTestFinishes`, `RunEnds` of the
  store and of the session, `CutTeardownEnds`. Fairness and ENABLED are out of the
  prover's reach.
- The properties of the runs that end in a violation (section 6), which do not hold.

## 5. Plan

Proofs: lemmas on `Outcomes`, the precedence of causes, next to `StopNeverGreen`;
that `SweepSparesTheLocked` extends to the runs of `Isolated` whose subprocess still
works in its root; what `CollectionIndex` does answer rightly (section 6), over
suites of one file.

Modules that remain: `PatchGuard` (unittest.mock's patchers and the context of the
running test), and capture's bounded buffer as an operator against its definition.

## 6. Where code and documents disagree

Four runs end in a violation that TLC finds:

- **The deadline in setup** (`store_unwind`). rationale/run.md:98-106 says a
  timed-out test's teardown is time-boxed, or "one hung `finally` hangs the
  entire run". When the deadline fires in `setup`, the unwinding of what was
  acquired has no grace (runtime.py:367-397), and a closer that hangs there holds
  the run.
- **A wrong answer of `--collect-only`** (`index`). An entry of the collection
  index is held against the time and size of its own file (index.py:155-159). A
  package or helper that the file imports is edited, the file is edited during its
  run (the stat is taken when the run ends), or a helper holds a misplaced
  `voci.use` (an error no file's entry records): the answer is not what an import
  would find, and index.py:12-13 says "never a wrong report". Without these three
  the answers are right, which was checked on a package, a file beside it, and
  four requests.
- **Data files are not recorded** (`affected_data`). The fold of a test's
  collector with those of its fixtures keeps code and distrust and drops data
  files, directories and environment variables (run.py:1523-1537).
  docs/guide/affected.md:3-5 says a change of any makes the test run again.
  `SkippedWouldPass` therefore speaks of code only.
- **A stall that is not named** (`watchdog`). `_tick` clears the mark of a stall
  and prints before it leaves the new heartbeat (safety.py:206-211). A look in
  between reports the old stall once more and sets the mark again; a stall that
  begins before the next heartbeat is then taken for one that has been reported.
  docs/reference/cli.md:153 promises a warning, and safety.py:149 one report for
  each stall.

Noted while modelling, with no run of their own:

- Teardown inversion. An interrupt in one closer leaves the keys after it
  un-released (_di/runtime.py:413-427): the module fixture they depend on is closed
  under them, and `aclose` closes the dependent later.
  spec/04-dependency-injection.md:110-114 says that cannot be. `DependentsFirst`
  states what does hold: only a dependent that an interrupted release dropped
  outlives its dependency.
- The second Ctrl-C. spec/11-runtime-safety.md:61 says it exits at once. When a
  test blocked the loop through both presses, the first one's callback has not
  run, nothing is marked as stopping, and the loop that runs `aclose` begins
  further tests (run.py:1628, 1394-1406). `Session` has both presses.
- The startup of a FastAPI application. "Its writes land in the app's own state,
  since session setup runs outside any test's layer" (fastapi.py:451-452). A
  session fixture is built in the task of the first test that asks for it
  (_di/runtime.py:344-364); when that test's plan has its client before the
  lifespan, the writes land in its layer, and no other test sees them.
  `Overrides` has that behaviour (`Startup` after `Enter`).
- A `client()` held by a module or session fixture. It is left in another task's
  context than it was entered in, where `token.var.reset` raises ValueError
  (fastapi.py:433): such a fixture fails at its teardown, and its layer was in
  force for the test that built it only. fastapi.py:6-8 says that a client is bound
  to its layer and "needs no cleanup".
- The same, left in the task that entered it. When a test has entered its own
  `client()` before its module's is built, and is the last of the module, its own
  is left first; the flush then leaves the module's, `token.var.reset` puts back
  what stood before it (fastapi.py:432-433), which is the test's layer, and the
  closers that follow in that task read it (run.py:1031-1061,
  _di/runtime.py:413-427). The comment above the reset says that "an exception on
  the way out cannot leave this context reading a layer that no longer belongs to
  it": no exception is needed. `NothingLeftBehind` excuses this one way, and no
  other; without the excuse TLC finds it in five steps.
- A stopped run whose teardown was abandoned (run.py:1402) leaves shared fixtures
  without a finished collector, and `_fire_test_dependencies` records their
  tests nevertheless, without that code: a later change there is missed, which
  the sentence of docs/guide/affected.md:3-5 excludes.
  `SkippedWouldPass` leaves such runs out (`whole`), as it does edits between the
  world's build and the import (`still`, cli.py:1543-1577).
- A helper that remembers its result for the process, and starts a thread on code
  that it does not name, when it first runs. The tests in flight then are
  distrusted; a later one of the same process gets the remembered result, and its
  record has the helper, by the names that are followed, but not that code: the
  record is trusted, and a change there is missed. TLC finds this as soon as
  `Texts` has such a helper. docs/guide/affected.md:84-90 counts "an earlier test
  leaving behind state" among what any run can miss; `MemoAssumption` states it,
  and the theorems rest on it. With a helper that names what it starts, TLC finds
  nothing, and the theorems hold.
- Ids of a fixture's cases and of a test's are made unique list by list, and then
  joined with dashes (_di/fixtures.py:989, collect.py:675). "a" with "b-c", and
  "a-b" with "c", are one id; two records that share an id share the function
  fixtures and the `tmp_path` that docs/guide/capture.md:66 calls "unique to the
  running test".
- `run_isolated` says it "never raises asyncio.CancelledError" (isolated.py:141).
  Its spawn is outside the `try` (isolated.py:191-203), `proc.kill()` may find the
  process gone, and a second cancellation during the wait goes through. `Isolated`
  has all three; in `Session` the first two take a test out by an exception, and
  the second the task group with it.
- Two overlapping runs: the later write carries forward what it read, and a
  failure that the other run recorded in between is overwritten when the later
  run passed that test on an older tree (_cache.py:109-151).
- A file with one malformed test: the recorded ids of that test vanish with the
  others of the file, and a later run that is narrowed to the rest clears the
  file's entry.
- `_watch.run` takes its first snapshot after the first run (_watch.py:62-75): an
  edit made during that run is not seen.
- A patch entered by a session fixture. "A patch entered with no test running — an
  import, a session fixture — is nobody's hazard and passes through"
  (rationale/mocking.md:37-38). The fixture is built in the task, and so in the
  context, of the first test that asks for it (run.py:1124-1136): the guard refuses
  its patch unless that test runs alone.
- A shared fixture that warns is built under the filters of the test that asks
  first: an `error` filter of that test's mark fails the fixture for every test that
  requests it. docs/reference/warnings.md:65 has a mark's filters "govern only the
  test that carries them, whatever else is running at the same time".
- spec/02-cli-and-config.md:108 gives exit code 2 to a run that reached
  `--maxfail`, and the code gives it 1 (run.py:1778-1791).

## 7. Not modelled, and why

Configuration, marks, reporters, assertion rewriting and voci-migrate,
which is more than half of the repository's lines, are sequential code over
data, whose errors a unit test reaches: nothing in them runs concurrently, is
retried, or survives a crash. Capture's routing, the warning filters and the patch
guard read a context variable set around each test; what two tests can do to each
other through them is noted in section 6. A KeyboardInterrupt or SystemExit raised by a test, and a Ctrl-C after
`run_all`, are left out of `Session`, as is the note that names tests which
ignore their cancellation. In `Affected`, environment variables, lazily imported
code and Python builds without sys.monitoring are left out, all shared fixtures
have session scope, and every reference of a block is taken as executed. In
`Collection`, tags and skips of a single case, marks that raise and test classes
are left out. In `SessionRoots`, an explicit `--basetemp`, and systems without
flock.
