------------------------------ MODULE Affected ------------------------------
(***************************************************************************)
(* `voci --affected` (voci/_affected): while tests run, concurrently and   *)
(* over shared fixtures, collectors note which blocks of code run for      *)
(* which of them; when the run is over each test's record goes into a      *)
(* store with the texts of the blocks it depends on; and the next run,     *)
(* after any edits, skips the tests whose latest record that still matches *)
(* is a pass.  A text is what a block's checksum tells apart.              *)
(***************************************************************************)
EXTENDS Naturals, Sequences, FiniteSets, SequencesExt, FiniteSetsExt

CONSTANTS
    Tests, Shared, Other,  \* blocks: of tests, of session fixtures, of helpers
    Data,                  \* the files that tests read
    Texts(_),              \* the texts a block or a data file may have
    Memoised,              \* the helpers that remember their result for the process
    PlanOf(_),             \* the shared fixtures of a test, in the order of its plan
    FileOf(_),             \* the file of a test
    Asked,                 \* the sets of tests that -k and the like may ask for
    FirstTrees, FirstTests, \* the trees to begin with, and the tests they hold
    Records,               \* how many records of a test are kept
    MaxEdits, MaxRuns      \* bounds

Blocks == Tests \cup Shared \cup Other
Things == Blocks \cup Data

IsTree(tr) == tr = [x \in Things |-> tr[x]] /\ \A x \in Things : tr[x] \in Texts(x)

ASSUME AffectedAssumption ==
    /\ Records \in Nat \ {0}
    /\ Tests \cap Other = {} /\ Shared \cap Other = {} /\ Memoised \subseteq Other
    /\ \A x \in Blocks : \A text \in Texts(x) : text.refs \cup text.threads \subseteq Blocks
    /\ \A t \in Tests : PlanOf(t) \in Seq(Shared)
    /\ \A tr \in FirstTrees : IsTree(tr)

\* What is remembered names all that it starts on threads.  Code that only ran
\* on the thread of another test, under no name, is state that test leaves behind
\* for the next: the guide counts it among what no run of --affected sees
\* (docs/guide/affected.md:84-90).
ASSUME MemoAssumption ==
    \E named \in SUBSET Other :
        /\ Memoised \subseteq named
        /\ \A x \in named : \A text \in Texts(x) :
               text.threads \subseteq text.refs /\ text.refs \subseteq named

VARIABLES
    tree,     \* tree[x]: the text of x on disk
    present,  \* the tests that have been written
    store,    \* store[t]: the records of t, the latest first
    phase,    \* "idle", "begun", "running"
    world,    \* the tree that the run checksums
    loaded,   \* the tree it imported
    at,       \* at[t]: "out" of this run, "waiting", "up", "called", "done"
    outcome,  \* outcome[t]: "none", "passed", "failed", "cancelled"
    own,      \* own[t]: the collector of t
    open,     \* the fixtures that were built, the latest last
    shared,   \* shared[f]: the collector of the fixture f
    finished, \* the fixtures whose collector was finished
    memo,     \* the memoised blocks that have run in this process
    stopping,
    edits, runs,
    past      \* past[t]: the last runs of t, for the properties

runVars   == <<world, loaded, at, outcome, own, open, shared, finished, memo, stopping>>
countVars == <<edits, runs>>
vars      == <<tree, present, store, phase, runVars, countVars, past>>

NoText == [ok |-> TRUE, refs |-> {}, reads |-> {}, threads |-> {}]
Nobody == [codes |-> {}, data |-> {}, untrusted |-> FALSE]  \* an empty collector

RangeOf(s) == {s[i] : i \in DOMAIN s}

\* What a block names, and what runs when it does.
Refs(tr) == [x \in Blocks |-> tr[x].refs]
Ran(tr)  == [x \in Blocks |-> tr[x].refs \cup tr[x].threads]

\* What `from` reaches by `step` without going into `walls`: what every set has
\* that holds `from` and that no step leaves.
Reach(from, step, walls) ==
    LET closed == {S \in SUBSET Blocks : /\ from \ walls \subseteq S
                                         /\ \A x \in S : step[x] \ walls \subseteq S}
    IN  {x \in Blocks : \A S \in closed : x \in S}

\* What the verdict of t on the tree tr rests on.
Needs(t, tr) == Reach({t} \cup RangeOf(PlanOf(t)), Ran(tr), {})
CodePasses(t, tr) == \A x \in Needs(t, tr) : tr[x].ok
DataPasses(t, tr) == \A x \in Needs(t, tr) : \A d \in tr[x].reads : tr[d].ok

\* No run: what it knew is gone with its process.
NoTree == [x \in Things |-> NoText]
RunOver ==
    /\ phase' = "idle" /\ world' = NoTree /\ loaded' = NoTree
    /\ at' = [t \in Tests |-> "out"] /\ outcome' = [t \in Tests |-> "none"]
    /\ own' = [t \in Tests |-> Nobody] /\ shared' = [f \in Shared |-> Nobody]
    /\ open' = <<>> /\ finished' = {} /\ memo' = {} /\ stopping' = FALSE

Init ==
    /\ tree \in FirstTrees /\ present = FirstTests
    /\ store = [t \in Tests |-> <<>>] /\ past = store
    /\ phase = "idle" /\ world = NoTree /\ loaded = NoTree
    /\ at = [t \in Tests |-> "out"] /\ outcome = [t \in Tests |-> "none"]
    /\ own = [t \in Tests |-> Nobody] /\ shared = [f \in Shared |-> Nobody]
    /\ open = <<>> /\ finished = {} /\ memo = {} /\ stopping = FALSE
    /\ edits = 0 /\ runs = 0

----------------------------------------------------------------------------
(* The decision, from the store and the tree alone.                        *)

Matches(r, tr) == \A x \in DOMAIN r.deps : tr[x] = r.deps[x]

\* MUTANT of Skips: any record that matches will do.
Skips_AnyPass(t, tr) ==
    \E i \in DOMAIN store[t] : /\ Matches(store[t][i], tr)
                               /\ store[t][i].passed /\ ~store[t][i].untrusted

\* decide: the latest record that matches, and only if it is a trusted pass.
Skips(t, tr) ==
    \E i \in DOMAIN store[t] :
        /\ Matches(store[t][i], tr)
        /\ \A j \in 1..(i - 1) : ~Matches(store[t][j], tr)
        /\ store[t][i].passed /\ ~store[t][i].untrusted

\* could_hold_one: nothing recorded in it, or something to run.
CouldHoldOne(file, tr) ==
    LET known == {t \in Tests : FileOf(t) = file /\ store[t] # <<>>}
    IN  known = {} \/ \E t \in known : ~Skips(t, tr)

Selected(tr) == {t \in present : CouldHoldOne(FileOf(t), tr) /\ ~Skips(t, tr)}

----------------------------------------------------------------------------
(* A run, by --affected or --affected-verify; -k may leave tests out.      *)

Begin ==
    /\ phase = "idle" /\ runs < MaxRuns
    /\ \E verify \in BOOLEAN, asked \in Asked :
         LET on == asked \cap (IF verify THEN present ELSE Selected(tree))
         IN  on # {} /\ at' = [t \in Tests |-> IF t \in on THEN "waiting" ELSE "out"]
    /\ phase' = "begun" /\ runs' = runs + 1
    /\ world' = tree
    /\ UNCHANGED <<tree, present, store, loaded, outcome, own, open, shared, finished,
                   memo, stopping, edits, past>>

\* Collection imports the files.  What is edited later does not reach the run.
Collect ==
    /\ phase = "begun" /\ phase' = "running"
    /\ loaded' = tree
    /\ UNCHANGED <<tree, present, store, world, at, outcome, own, open, shared, finished,
                   memo, stopping, countVars, past>>

Start(t) ==
    /\ phase = "running" /\ at[t] = "waiting" /\ ~stopping
    /\ at' = [at EXCEPT ![t] = "up"]
    /\ UNCHANGED <<tree, present, store, phase, world, loaded, outcome, own, open, shared,
                   finished, memo, stopping, countVars, past>>

\* What x runs in this process: a memoised block once.
Runs(x)  == Reach({x}, Refs(loaded), memo)
Fails(x) == \E y \in Reach({x}, Ran(loaded), {}) : ~loaded[y].ok

InFlight == {t \in Tests : at[t] \in {"up", "called"}}

\* x has run while c was the current collector.
Noting(c, x) == [codes     |-> c.codes \cup Runs(x),
                 data      |-> c.data \cup UNION {loaded[y].reads : y \in Runs(x)},
                 untrusted |-> c.untrusted \/ \E y \in Runs(x) : loaded[y].threads # {}]

\* record_first_party on a thread of no collector: nobody in flight is trusted.
Distrusting(x) ==
    IF \A y \in Runs(x) : loaded[y].threads = {} THEN own
    ELSE [t \in Tests |-> IF t \in InFlight THEN [own[t] EXCEPT !.untrusted = TRUE] ELSE own[t]]

\* The fixtures of t are built in the order of its plan, until one has failed.
Upcoming(t) == {i \in DOMAIN PlanOf(t) :
                /\ PlanOf(t)[i] \notin RangeOf(open)
                /\ \A j \in 1..(i - 1) : PlanOf(t)[j] \in RangeOf(open) /\ ~Fails(PlanOf(t)[j])}

Build(t) ==
    /\ at[t] = "up"
    /\ \E i \in Upcoming(t) :
         LET f == PlanOf(t)[i]
         IN  /\ open' = Append(open, f)
             /\ shared' = [shared EXCEPT ![f] = Noting(@, f)]
             /\ own' = Distrusting(f)
             /\ memo' = memo \cup (Runs(f) \cap Memoised)
    /\ UNCHANGED <<tree, present, store, phase, world, loaded, at, outcome, finished,
                   stopping, countVars, past>>

\* The test itself, or the error of its setup.
Call(t) ==
    /\ at[t] = "up" /\ Upcoming(t) = {}
    /\ at' = [at EXCEPT ![t] = "called"]
    /\ IF \E f \in RangeOf(PlanOf(t)) : Fails(f)
       THEN /\ outcome' = [outcome EXCEPT ![t] = "failed"]
            /\ UNCHANGED <<own, memo>>
       ELSE /\ own' = [Distrusting(t) EXCEPT ![t] = Noting(@, t)]
            /\ memo' = memo \cup (Runs(t) \cap Memoised)
            /\ outcome' = [outcome EXCEPT ![t] =
                   IF CodePasses(t, loaded) /\ DataPasses(t, loaded) THEN "passed" ELSE "failed"]
    /\ UNCHANGED <<tree, present, store, phase, world, loaded, open, shared, finished,
                   stopping, countVars, past>>

Finish(t) ==
    /\ at[t] = "called"
    /\ at' = [at EXCEPT ![t] = "done"]
    /\ UNCHANGED <<tree, present, store, phase, world, loaded, outcome, own, open, shared,
                   finished, memo, stopping, countVars, past>>

\* --maxfail or Ctrl-C.
Stop ==
    /\ phase = "running" /\ ~stopping /\ stopping' = TRUE
    /\ UNCHANGED <<tree, present, store, phase, world, loaded, at, outcome, own, open,
                   shared, finished, memo, countVars, past>>

Cancelled(t) ==
    /\ stopping /\ at[t] = "up"
    /\ at' = [at EXCEPT ![t] = "done"] /\ outcome' = [outcome EXCEPT ![t] = "cancelled"]
    /\ UNCHANGED <<tree, present, store, phase, world, loaded, own, open, shared,
                   finished, memo, stopping, countVars, past>>

----------------------------------------------------------------------------
(* The end of the run.                                                     *)

AllDone == /\ phase = "running"
           /\ \A t \in Tests : at[t] \in {"out", "done"} \/ (at[t] = "waiting" /\ stopping)

\* aclose, in reverse; a collector is finished after its closer.
Close ==
    /\ AllDone /\ open # <<>>
    /\ open' = Front(open) /\ finished' = finished \cup {Last(open)}
    /\ UNCHANGED <<tree, present, store, phase, world, loaded, at, outcome, own, shared,
                   memo, stopping, countVars, past>>

\* A closer outlasts the grace of a stopped run: its own collector is finished
\* on the way out, and the fixtures below it are left as they are.
Abandon ==
    /\ AllDone /\ open # <<>> /\ stopping
    /\ open' = <<>> /\ finished' = finished \cup {Last(open)}
    /\ UNCHANGED <<tree, present, store, phase, world, loaded, at, outcome, own, shared,
                   memo, stopping, countVars, past>>

\* MUTANT of Merged: the fixtures are their builder's business.
Merged_OwnOnly(t) == [codes |-> own[t].codes, data |-> {}, untrusted |-> own[t].untrusted]

\* _merge_collector_records: the codes and the distrust, and nothing else.
Merged(t) ==
    LET fs == RangeOf(PlanOf(t)) \cap finished
    IN  [codes     |-> own[t].codes \cup UNION {shared[f].codes : f \in fs},
         data      |-> {},
         untrusted |-> own[t].untrusted \/ \E f \in fs : shared[f].untrusted]

\* record_test: World.closure over what ran, and the data beside it.
KeysOf(c) == Reach(c.codes, Refs(world), {}) \cup c.data

\* Mutant: the first to be stored stay.
Pruned_Oldest(s) == SubSeq(s, IF Len(s) > Records THEN 2 ELSE 1, Len(s))

\* _prune_records: the most recently used stay.
Pruned(s) == SubSeq(s, 1, IF Len(s) > Records THEN Records ELSE Len(s))

Recorded(t) == [deps      |-> [x \in KeysOf(Merged(t)) |-> world[x]],
                passed    |-> outcome[t] = "passed",
                untrusted |-> Merged(t).untrusted]

\* The run as the properties see it: on what code, and whether nothing was
\* edited under it and no fixture was abandoned.
Witnessed(t) == [ran     |-> [x \in Needs(t, loaded) |-> loaded[x]],
                 passed  |-> outcome[t] = "passed",
                 trusted |-> ~Merged(t).untrusted,
                 still   |-> world = loaded,
                 whole   |-> \A f \in RangeOf(PlanOf(t)) : shared[f] = Nobody \/ f \in finished]

\* _fire_test_dependencies, once everything is closed.  Nothing is recorded of
\* a test that was cancelled or never started.
Record ==
    /\ AllDone /\ open = <<>>
    /\ LET told == {t \in Tests : outcome[t] \in {"passed", "failed"}}
       IN  /\ store' = [t \in Tests |-> IF t \in told THEN Pruned(<<Recorded(t)>> \o store[t])
                                        ELSE store[t]]
           /\ past' = [t \in Tests |->
                 IF t \in told THEN LET s == <<Witnessed(t)>> \o past[t]
                                    IN  SubSeq(s, 1, Min({Len(s), Records}))
                 ELSE past[t]]
    /\ RunOver
    /\ UNCHANGED <<tree, present, countVars>>

\* A second Ctrl-C, an interrupt out of a test, a kill.
Abort ==
    /\ phase # "idle" /\ RunOver
    /\ UNCHANGED <<tree, present, store, countVars, past>>

----------------------------------------------------------------------------
(* The tree changes between runs, and while one is starting.               *)

Edit ==
    /\ phase \in {"idle", "begun"} /\ edits < MaxEdits /\ edits' = edits + 1
    /\ \E x \in Things : \E text \in Texts(x) \ {tree[x]} : tree' = [tree EXCEPT ![x] = text]
    /\ UNCHANGED <<present, store, phase, runVars, runs, past>>

NewTest ==
    /\ phase = "idle"
    /\ \E t \in Tests \ present : present' = present \cup {t}
    /\ UNCHANGED <<tree, store, phase, runVars, countVars, past>>

Next ==
    \/ Begin \/ Collect \/ Stop \/ Close \/ Abandon \/ Record \/ Abort \/ Edit \/ NewTest
    \/ \E t \in Tests : Start(t) \/ Build(t) \/ Call(t) \/ Finish(t) \/ Cancelled(t)

Spec == Init /\ [][Next]_vars

----------------------------------------------------------------------------
(* Properties.                                                             *)

\* Between runs, the runs of t that are still remembered were all of one tree
\* and left no fixture behind.
Sound(t) == phase = "idle" /\ \A i \in DOMAIN past[t] : past[t][i].still /\ past[t][i].whole
Now(t)   == [x \in Needs(t, tree) |-> tree[x]]
OnThis(t) == {i \in DOMAIN past[t] : past[t][i].ran = Now(t)}

\* A test that is skipped would have passed: whatever ran for it -- in its own
\* body, in a fixture another test was the one to build, in a helper that
\* remembered its result, on a thread nobody could place -- is among what its
\* record depends on, or the record is not trusted (select.py:41-56, run.py:1523-1537).
\* Of its data files nothing is said here, nor of runs Sound leaves out.
SkippedWouldPass == \A t \in Tests : Sound(t) /\ Skips(t, tree) => CodePasses(t, tree)

\* A test whose last run on this very code failed, or could not be trusted,
\* runs again, whatever older passes on the same code are stored.
FailureRunsAgain == \A t \in Tests :
    (Sound(t) /\ OnThis(t) # {})
    => LET last == past[t][Min(OnThis(t))] IN ~last.passed \/ ~last.trusted => ~Skips(t, tree)

\* "Returning to a branch it has already run selects nothing to re-run"
\* (docs/guide/affected.md:49-51): a pass on this code among the last
\* `Records` runs still counts, whatever was stored over other code since.
BranchesRemembered == \A t \in Tests :
    (Sound(t) /\ OnThis(t) # {})
    => LET last == past[t][Min(OnThis(t))] IN last.passed /\ last.trusted => Skips(t, tree)

\* "The next run skips a test only when none of those have changed since":
\* its functions, data files, and environment variables.
DataFilesCount == \A t \in Tests :
    Sound(t) /\ Skips(t, tree) => CodePasses(t, tree) /\ DataPasses(t, tree)
=============================================================================
