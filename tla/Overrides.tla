----------------------------- MODULE Overrides -----------------------------
(***************************************************************************)
(* One FastAPI application that every test runs against: the proxies       *)
(* layered over its `dependency_overrides` and its `state`, the layers a   *)
(* task's context holds, the blocks of `client()` that push and drop them, *)
(* and the startup of `lifespan()` (voci/fastapi.py).                      *)
(*                                                                         *)
(* A layer is a mutable mapping: contexts that were copied share it.       *)
(***************************************************************************)
EXTENDS Integers, SequencesExt

CONSTANTS
    Tests,
    Tasks,     \* the tasks the tests run in, and those these create
    TestOf,    \* TestOf[k]: the test task k works for
    Mains,     \* the task of each test; the others are created by it
    Run,       \* the task that closes session fixtures after the last test
    Keys,      \* what tests override, as dependency or as state
    Engine,    \* what the application's startup puts into its state
    Missing,   \* sentinel: no value
    MaxLayers, \* bounds the blocks
    MaxPuts    \* bounds the writes

Attrs == {"overrides", "state"}
Names == Keys \cup {Engine}
Blank == [n \in Names |-> Missing]

\* The mapping `held` once every name of `names` has the value v.
With(held, names, v) == [n \in Names |-> IF n \in names THEN v ELSE held[n]]

ASSUME OverridesAssumption ==
    /\ Mains \subseteq Tasks /\ Run \notin Tasks
    /\ TestOf \in [Tasks -> Tests]
    /\ Engine \notin Keys /\ Missing \notin Tests \cup {"app"}
    /\ MaxLayers \in Nat /\ MaxPuts \in Nat

VARIABLES
    at,      \* at[a]: what stands on the app, its "own" object, the "proxy" or an "other"
    base,    \* base[a]: what the app's own object holds
    layer,   \* layer[i][a]: what the i-th layer holds
    ctx,     \* ctx[k]: the layers of k's context, innermost last
    copied,  \* copied[k]: those it was created with
    blocks,  \* the open blocks: the task, its context before, the layer, and whether
             \* a module or session fixture holds the block open
    live,    \* the tasks that run
    flushing, \* those of them that have begun to release a module's fixtures
    ended,   \* the tasks that have run
    users,   \* the tests that have got the lifespan fixture
    puts     \* how often a test wrote

app  == <<at, base>>
vars == <<at, base, layer, ctx, copied, blocks, live, ended, flushing, users, puts>>

Init ==
    /\ at = [a \in Attrs |-> "own"]
    /\ base \in {[a \in Attrs |-> With(Blank, {n}, "app")] : n \in Keys}
    /\ layer = <<>> /\ blocks = {}
    /\ ctx = [k \in Tasks |-> <<>>] /\ copied = ctx
    /\ live = {} /\ ended = {} /\ flushing = {} /\ users = {} /\ puts = 0

----------------------------------------------------------------------------
(* What a task reads, and where its writes land.                           *)

\* The innermost layer holding n, as an index into the context of k; 0 if none.
Found(k, a, n) == SelectLastInSeq(ctx[k], LAMBDA i : layer[i][a][n] # Missing)

Lookup(k, a, n) ==
    LET i == Found(k, a, n) IN IF i = 0 THEN base[a][n] ELSE layer[ctx[k][i]][a][n]

\* What tests put into an object assigned over a proxy is left out.
View(k, a, n) == CASE at[a] = "proxy" -> Lookup(k, a, n)
                   [] at[a] = "own"   -> base[a][n]
                   [] at[a] = "other" -> Missing

Layered(k, a) == at[a] = "proxy" /\ ctx[k] # <<>>

Top(k) == Last(ctx[k])

\* Mutant: the proxy hands a write on to the app.
PutThrough(k, a, names, v) ==
    /\ base' = IF at[a] = "other" THEN base ELSE [base EXCEPT ![a] = With(@, names, v)]
    /\ UNCHANGED layer

Put(k, a, names, v) ==
    /\ layer' = IF Layered(k, a) THEN [layer EXCEPT ![Top(k)][a] = With(@, names, v)] ELSE layer
    /\ base' = IF Layered(k, a) \/ at[a] = "other" THEN base
               ELSE [base EXCEPT ![a] = With(@, names, v)]

Puts(k, a, names, v) ==
    /\ puts < MaxPuts /\ puts' = puts + 1
    /\ Put(k, a, names, v)
    /\ UNCHANGED <<at, ctx, copied, blocks, live, ended, flushing, users>>

Write(k, a, n) == Puts(k, a, {n}, TestOf[k])

\* Inside a block, what the innermost layer does not hold cannot be deleted.
Delete(k, a, n) ==
    /\ View(k, a, n) # Missing
    /\ Layered(k, a) => layer[Top(k)][a][n] # Missing
    /\ Puts(k, a, {n}, Missing)

Clear(k) == Puts(k, "overrides", Names, Missing)

\* `app.dependency_overrides = {}`.  While the app's own object stands there,
\* that is but another base.
Replace(k, a) ==
    /\ at[a] # "own"
    /\ at' = [at EXCEPT ![a] = "other"]
    /\ UNCHANGED <<base, layer, ctx, copied, blocks, live, ended, flushing, users, puts>>

----------------------------------------------------------------------------
(* Blocks.                                                                 *)

\* _install, _install_state: at the first block, or as they left it.
Installed == [a \in Attrs |-> IF at[a] = "own" THEN "proxy" ELSE at[a]]

Pushed(k, given) == [ctx EXCEPT ![k] = Append(@, Len(layer) + 1)]

\* Mutant: entering does not look whether the proxies still stand there.
EnterUnchecked(k, given, shared) ==
    /\ Len(layer) < MaxLayers
    /\ layer' = Append(layer, given)
    /\ ctx' = Pushed(k, given)
    /\ blocks' = blocks \cup {[by |-> k, before |-> ctx[k], layer |-> Len(layer) + 1,
                               shared |-> shared]}
    /\ at' = Installed
    /\ UNCHANGED <<base, copied, live, ended, flushing, users, puts>>

Enter(k, given, shared) ==
    /\ Len(layer) < MaxLayers
    /\ \A a \in Attrs : at[a] # "other"
    /\ layer' = Append(layer, given)
    /\ ctx' = Pushed(k, given)
    /\ blocks' = blocks \cup {[by |-> k, before |-> ctx[k], layer |-> Len(layer) + 1,
                               shared |-> shared]}
    /\ at' = Installed
    /\ UNCHANGED <<base, copied, live, ended, flushing, users, puts>>

\* Mutant: the layer pushed before the error stays.
EnterRaisesLate(k, given) ==
    /\ Len(layer) < MaxLayers
    /\ at["state"] = "other" /\ at["overrides"] # "other"
    /\ layer' = Append(layer, given)
    /\ ctx' = Pushed(k, given)
    /\ at' = [at EXCEPT !["overrides"] = "proxy"]
    /\ UNCHANGED <<base, copied, blocks, live, ended, flushing, users, puts>>

\* The state was replaced: what was pushed for the overrides is dropped again.
EnterRaises(k, given) ==
    /\ Len(layer) < MaxLayers
    /\ at["state"] = "other" /\ at["overrides"] # "other"
    /\ layer' = Append(layer, given)
    /\ at' = [at EXCEPT !["overrides"] = "proxy"]
    /\ UNCHANGED <<base, ctx, copied, blocks, live, ended, flushing, users, puts>>

Own(k) == {b \in blocks : b.by = k /\ ~b.shared}

\* A task leaves its own blocks in the reverse of the order it entered them.
Exit(k) == \E b \in Own(k) :
    /\ \A c \in Own(k) : c.layer <= b.layer
    /\ ctx' = [ctx EXCEPT ![k] = b.before]
    /\ blocks' = blocks \ {b}
    /\ UNCHANGED <<app, layer, copied, live, ended, flushing, users, puts>>

\* The last test of a module to finish closes its fixtures, in its own task once
\* it has left its own blocks; those of the session, Run closes.  A closer may do
\* what a test does, so the task goes on: it reads what stood before the block it
\* just left.  A token belongs to the context it was made in: in any other,
\* leaving raises and drops nothing.
ExitShared(k) == \E b \in blocks :
    /\ b.shared
    /\ (k \in live /\ Own(k) = {}) \/ (k = Run /\ live = {})
    /\ b.by = k \/ b.by \in ended
    /\ blocks' = blocks \ {b}
    /\ ctx' = IF b.by = k THEN [ctx EXCEPT ![k] = b.before] ELSE ctx
    /\ flushing' = flushing \cup ({k} \cap Tasks)
    /\ UNCHANGED <<app, layer, copied, live, ended, users, puts>>

Uninstall ==
    /\ live = {} /\ blocks = {}  \* a bound: called between tests or after them
    /\ \E a \in Attrs : at[a] # "own"
    /\ at' = [a \in Attrs |-> "own"]
    /\ UNCHANGED <<base, layer, ctx, copied, blocks, live, ended, flushing, users, puts>>

----------------------------------------------------------------------------
(* Tasks, and the lifespan fixture.                                        *)

Begin(k) ==
    /\ k \notin live \cup ended
    /\ live' = live \cup {k}
    /\ UNCHANGED <<app, layer, blocks, ended, flushing, users, puts>>
    /\ \/ k \in Mains /\ UNCHANGED <<ctx, copied>>
       \/ /\ k \notin Mains
          /\ \E m \in live \cap Mains :
                /\ TestOf[m] = TestOf[k]
                /\ ctx' = [ctx EXCEPT ![k] = ctx[m]]
                /\ copied' = [copied EXCEPT ![k] = ctx[m]]

End(k) ==
    /\ k \in live /\ Own(k) = {}
    /\ live' = live \ {k} /\ ended' = ended \cup {k} /\ flushing' = flushing \ {k}
    /\ UNCHANGED <<app, layer, ctx, copied, blocks, users, puts>>

\* The first test that asks for the fixture runs the startup, in its own task.
Startup(k) ==
    /\ k \in Mains \ flushing /\ TestOf[k] \notin users
    /\ users' = users \cup {TestOf[k]}
    /\ IF users = {} THEN Put(k, "state", {Engine}, "app")
                     ELSE UNCHANGED <<base, layer>>
    /\ UNCHANGED <<at, ctx, copied, blocks, live, ended, flushing, puts>>

\* A bound: a block is given nothing, or one key of both attributes.
Given(k) == {[a \in Attrs |-> Blank]} \cup {[a \in Attrs |-> With(Blank, {n}, TestOf[k])] : n \in Keys}

Next ==
    \/ \E k \in Tasks : Begin(k) \/ End(k)
    \/ \E k \in live :
          \/ \E a \in Attrs, n \in Keys : Write(k, a, n) \/ Delete(k, a, n)
          \/ Clear(k) \/ \E a \in Attrs : Replace(k, a)
          \/ \E given \in Given(k) : Enter(k, given, FALSE) \/ EnterRaises(k, given)
          \/ \E given \in Given(k) : k \in Mains \ flushing /\ Enter(k, given, TRUE)
          \/ Exit(k) \/ Startup(k)
    \/ \E k \in Mains \cup {Run} : ExitShared(k)
    \/ Uninstall

Spec == Init /\ [][Next]_vars

----------------------------------------------------------------------------
(* Properties.                                                             *)

\* What the tasks of one test do inside a block, writing, deleting, clearing,
\* nesting and leaving blocks, their module's too, starting the app, changes
\* nothing that a task of another test reads, of neither attribute; assigning over
\* the attribute is the one thing the layers cannot keep to a test
\* (fastapi.py:94-103, 159-166).
NoCrossTalk == [][\A k \in live :
    /\ ctx[k] # <<>> /\ at = [a \in Attrs |-> "proxy"] /\ at' = at
    /\ \/ \E a \in Attrs, n \in Keys : Write(k, a, n) \/ Delete(k, a, n)
       \/ Clear(k) \/ Exit(k) \/ ExitShared(k) \/ Startup(k)
       \/ \E given \in Given(k), shared \in BOOLEAN : Enter(k, given, shared)
    => \A j \in Tasks : TestOf[j] # TestOf[k] =>
          \A a \in Attrs, n \in Names : View(j, a, n)' = View(j, a, n)]_vars

\* The layers of the blocks k has open; and those its context holds that are of
\* none of them, nor there when it was created.
Open(k) == {b.layer : b \in {c \in blocks : c.by = k}}
Left(k) == ToSet(ctx[k]) \ (ToSet(copied[k]) \cup Open(k))

\* No way out of a block, and no client() that raised on its way in, leaves a task
\* reading a layer that is nobody's any more, or brings it back, save in one case:
\* a module's client() that was entered inside a block and is left after it puts
\* back that block's layer, which the module's other closers then read
\* (fastapi.py:420-433, run.py:1031-1061).
NothingLeftBehind == [][\A k \in live :
    LET shared == {b \in blocks \ blocks' : b.by = k /\ b.shared}
    IN  Left(k)' \subseteq Left(k) \cup UNION {ToSet(b.before) \ Open(k) : b \in shared}]_vars

\* A block that opens is in force: its task reads, of both attributes, what it
\* gave and under it what it read before.  After someone assigned over an
\* attribute no block opens, instead of running against the wrong dependencies
\* (fastapi.py:320-352).
OpensInForce == [][\A b \in blocks' \ blocks : \A a \in Attrs, n \in Names :
    LET given == layer'[b.layer][a][n]
    IN  View(b.by, a, n)' = IF given # Missing THEN given ELSE View(b.by, a, n)]_vars
=============================================================================
