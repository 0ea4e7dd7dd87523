------------------------------- MODULE Plans -------------------------------
(***************************************************************************)
(* From declarations to tests: voci/_di/fixtures.py and key_for of         *)
(* runtime.py, with the crossing of the two kinds of cases in collect.py.  *)
(*                                                                         *)
(* Modules declare fixtures, each over fixtures that exist already, and    *)
(* then their tests are collected: plan_for walks the graph a test needs,  *)
(* expand_cases specialises the plan once per combination of cases, and    *)
(* every specialised plan and case of the test makes a record.  What       *)
(* ScopeStore takes for granted about plans and keys is shown here.        *)
(*                                                                         *)
(* A fixture is its place among the declarations, and 0 the test itself    *)
(* where plan_for has dependent=None.  An id is a sequence of numbers, one *)
(* for each character or number it is made of (a number of two digits      *)
(* counts as one), and holds no dash, so that joining ids with dashes is   *)
(* making a sequence of them.                                              *)
(***************************************************************************)
EXTENDS Naturals, Sequences, SequencesExt

CONSTANTS
    MaxFixtures,    \* the bound on declarations
    Scopes,         \* the scopes a declaration may give
    Sites,          \* the sequences of sources its Depends(...) sites may name
    IdLists,        \* the lists of ids of its params=, <<>> for no params=
    Tests,          \* the tests, in the order they are collected
    ModuleOf,       \* ModuleOf[t]: the module of the test t
    UsesOf          \* UsesOf[t]: what t may look like, [implicit, roots, cases]

Rank == [session |-> 3, module |-> 2, function |-> 1, call |-> 1]

\* The lists of ids a declaration may give.
AreIds(ids) == ids \in Seq(Seq(Nat))

ASSUME PlansAssumption ==
    /\ MaxFixtures \in Nat
    /\ Scopes \subseteq DOMAIN Rank
    /\ \A deps \in Sites : deps \in Seq(Nat)
    /\ \A ids \in IdLists : AreIds(ids)
    /\ Tests \in Seq(ToSet(Tests)) /\ \A i, j \in DOMAIN Tests : Tests[i] = Tests[j] => i = j
    /\ \A t \in ToSet(Tests) : \A u \in UsesOf[t] :
         /\ u.implicit \in Seq(1..MaxFixtures) /\ u.roots \in Seq(1..MaxFixtures)
         /\ AreIds(u.cases)

VARIABLES
    fixtures,   \* the declared fixtures, in order
    collected,  \* what each test collected so far looked like, and whether it was accepted
    records,    \* the records of the accepted tests
    use,        \* what the test being collected looks like
    steps,      \* the steps of its plan so far
    memo,       \* memo[f]: the step that the dependents of f share, 0 for none
    stack       \* the calls of visit under way, outermost first: for whom, and the steps
                \* their Depends(...) sites were given so far

walk == <<use, steps, memo, stack>>
vars == <<fixtures, collected, records, walk>>

NoUse == [implicit |-> <<>>, roots |-> <<>>, cases |-> <<>>]
NoMemo == [f \in 1..MaxFixtures |-> 0]

Init ==
    /\ fixtures = <<>> /\ collected = <<>> /\ records = {}
    /\ use = NoUse /\ steps = <<>> /\ memo = NoMemo /\ stack = <<>>

\* What a fixture without params= is handed.
NoParam == 0

----------------------------------------------------------------------------
(* Ids and orders.                                                         *)

\* x is met before y on a walk over lists: in an earlier list or, in the
\* first one with either, at an earlier place.
Before(lists, x, y) ==
    \E i \in DOMAIN lists : \E a \in DOMAIN lists[i] :
        /\ lists[i][a] = x
        /\ \A j \in 1..(i - 1) : y \notin ToSet(lists[j])
        /\ \A b \in 1..a : lists[i][b] # y

Members(lists) == UNION {ToSet(lists[i]) : i \in DOMAIN lists}

\* _ordered_union: the members of lists, in the order they are first met.
OrderedUnion(lists) ==
    LET Place(x) == Cardinality({y \in Members(lists) : Before(lists, y, x)}) + 1
    IN [n \in 1..Cardinality(Members(lists)) |-> CHOOSE x \in Members(lists) : Place(x) = n]

Once(ids, id) == Cardinality({i \in DOMAIN ids : ids[i] = id}) = 1

Dedupe_OwnGroup(ids) ==
    [i \in DOMAIN ids |-> IF Once(ids, ids[i]) THEN ids[i]
                          ELSE Append(ids[i], Cardinality({j \in 1..(i - 1) : ids[j] = ids[i]}))]

Kept(ids) == {id \in ToSet(ids) : Once(ids, id)}

\* The numbers that make id none of those kept or given before.
Free(ids, given, id) == {n \in 0..(2 * Len(ids)) : Append(id, n) \notin Kept(ids) \cup ToSet(given)}

Name(ids, given, id) == IF id \in Kept(ids) THEN id ELSE Append(id, Min(Free(ids, given, id)))

\* dedupe_case_ids: an id that occurs once is kept, every other gets the
\* lowest number that is free.
Dedupe(ids) ==
    LET given[n \in 0..Len(ids)] ==
            IF n = 0 THEN <<>> ELSE Append(given[n - 1], Name(ids, given[n - 1], ids[n]))
    IN given[Len(ids)]

----------------------------------------------------------------------------
(* plan_for: a walk over the Depends(...) sites.                           *)

\* What a test uses without seeing it is walked first.
SitesOf(f) == IF f = 0 THEN use.implicit \o use.roots ELSE fixtures[f].deps
ScopeOf(f) == IF f = 0 THEN "function" ELSE fixtures[f].scope
Shareable(f) == fixtures[f].scope # "call"

Top     == stack[Len(stack)]
Pending == stack # <<>> /\ Len(Top.args) < Len(SitesOf(Top.of))
Source  == SitesOf(Top.of)[Len(Top.args) + 1]

Refused_MemoFirst(d, f) == memo[d] = 0 /\ Rank[fixtures[d].scope] < Rank[ScopeOf(f)]

\* A narrower fixture would be torn down while the wider one still held it.
Refused(d, f) == Rank[fixtures[d].scope] < Rank[ScopeOf(f)]

\* The parametrized fixtures a step varies with, itself last.
Ancestors(args, f) ==
    OrderedUnion(Append([i \in DOMAIN args |-> steps[args[i]].ancestors],
                        IF fixtures[f].ids = <<>> THEN <<>> ELSE <<f>>))

\* The innermost of calls is given a step for the site it is at.
Given(calls, id) == [calls EXCEPT ![Len(calls)].args = Append(@, id)]

\* A walk for u, with nothing visited yet.
Walk(u, calls) == use' = u /\ steps' = <<>> /\ memo' = NoMemo /\ stack' = calls

\* The call of plan_for for the next test.
Plan ==
    /\ stack = <<>> /\ Len(fixtures) = MaxFixtures /\ Len(collected) < Len(Tests)
    /\ \E u \in UsesOf[Tests[Len(collected) + 1]] : Walk(u, <<[of |-> 0, args |-> <<>>]>>)
    /\ UNCHANGED <<fixtures, collected, records>>

\* A graph that does not resolve is an error of this test alone.
Refuse ==
    /\ Pending /\ Refused(Source, Top.of)
    /\ collected' = Append(collected, [use |-> use, ok |-> FALSE])
    /\ Walk(NoUse, <<>>)
    /\ UNCHANGED <<fixtures, records>>

\* visit of a source that has a step already.
Share ==
    /\ Pending /\ ~Refused(Source, Top.of) /\ Shareable(Source) /\ memo[Source] # 0
    /\ stack' = Given(stack, memo[Source])
    /\ UNCHANGED <<fixtures, collected, records, use, steps, memo>>

\* visit of any other source begins with the sites of that source.
Enter ==
    /\ Pending /\ ~Refused(Source, Top.of) /\ ~(Shareable(Source) /\ memo[Source] # 0)
    /\ stack' = Append(stack, [of |-> Source, args |-> <<>>])
    /\ UNCHANGED <<fixtures, collected, records, use, steps, memo>>

\* It ends with the source's own step, once all its sites have theirs.
Leave ==
    /\ Len(stack) > 1 /\ ~Pending
    /\ LET f  == Top.of
           id == Len(steps) + 1
       IN /\ steps' = Append(steps, [fixture |-> f, args |-> Top.args, ancestors |-> Ancestors(Top.args, f)])
          /\ memo' = IF Shareable(f) THEN [memo EXCEPT ![f] = id] ELSE memo
          /\ stack' = Given(Front(stack), id)
    /\ UNCHANGED <<fixtures, collected, records, use>>

----------------------------------------------------------------------------
(* expand_cases: one specialised plan per combination of cases.            *)

\* The choices of one case of each fixture of axes.
Combos(axes) ==
    {chosen \in [axes -> UNION {DOMAIN fixtures[f].ids : f \in axes}] :
       \A f \in axes : chosen[f] \in DOMAIN fixtures[f].ids}

Case_OwnOnly(step, chosen) ==
    IF Contains(step.ancestors, step.fixture) THEN <<chosen[step.fixture]>> ELSE <<>>

Case(step, chosen) == [i \in DOMAIN step.ancestors |-> <<step.ancestors[i], chosen[step.ancestors[i]]>>]

Specialised(plan, chosen) ==
    [i \in DOMAIN plan |->
        [fixture |-> plan[i].fixture, args |-> plan[i].args, case |-> Case(plan[i], chosen),
         param |-> IF fixtures[plan[i].fixture].ids = <<>> THEN NoParam ELSE chosen[plan[i].fixture]]]

\* What the fixtures' part of an id is made of.
CaseId(ancestors, chosen) == [i \in DOMAIN ancestors |-> fixtures[ancestors[i]].ids[chosen[ancestors[i]]]]

\* The cases of the test itself, NoParam for a test without any.
Cases(u) == IF u.cases = <<>> THEN {NoParam} ELSE DOMAIN u.cases

\* The parametrized fixtures a plan varies with, from those of the steps at
\* that the test's own sites were given.
Varies(plan, at) == OrderedUnion([i \in DOMAIN at |-> plan[at[i]].ancestors])

\* Every specialised plan is crossed with every case of the test.
RecordOf(t, u, plan, at, case, chosen) ==
    [test |-> t, case |-> case, steps |-> Specialised(plan, chosen),
     roots |-> [j \in DOMAIN u.roots |-> at[Len(u.implicit) + j]],
     id |-> IF case = NoParam THEN CaseId(Varies(plan, at), chosen)
            ELSE Append(CaseId(Varies(plan, at), chosen), Dedupe(u.cases)[case])]

RecordsOf(t, u, plan, at) ==
    {RecordOf(t, u, plan, at, case, chosen) : case \in Cases(u), chosen \in Combos(ToSet(Varies(plan, at)))}

\* The end of plan_for, and its test's records.
Expand ==
    /\ Len(stack) = 1 /\ ~Pending
    /\ collected' = Append(collected, [use |-> use, ok |-> TRUE])
    /\ records' = records \cup RecordsOf(Tests[Len(collected) + 1], use, steps, Top.args)
    /\ Walk(NoUse, <<>>)
    /\ UNCHANGED fixtures

----------------------------------------------------------------------------
\* @voci.fixture(...) over fixtures that exist: no graph has a cycle.
Declare ==
    /\ collected = <<>> /\ Len(fixtures) < MaxFixtures
    /\ \E scope \in Scopes, deps \in Sites, ids \in IdLists :
         /\ \A i \in DOMAIN deps : deps[i] \in DOMAIN fixtures
         /\ fixtures' = Append(fixtures, [scope |-> scope, deps |-> deps, ids |-> Dedupe(ids)])
    /\ UNCHANGED <<collected, records, walk>>

Next == Declare \/ Plan \/ Refuse \/ Share \/ Enter \/ Leave \/ Expand

Spec == Init /\ [][Next]_vars

----------------------------------------------------------------------------
(* key_for: what a step's instance is kept under.                          *)

Key(r, i) ==
    LET step == r.steps[i]
    IN CASE fixtures[step.fixture].scope = "session"  -> <<"session", step.fixture, step.case>>
         [] fixtures[step.fixture].scope = "module"   -> <<"module", step.fixture, ModuleOf[r.test], step.case>>
         [] fixtures[step.fixture].scope = "function" -> <<"function", step.fixture, r.test, r.id, step.case>>
         [] fixtures[step.fixture].scope = "call"     -> <<"call", step.fixture, r, i>>

----------------------------------------------------------------------------
(* Properties.                                                             *)

\* What fs are built over, themselves included, by the declarations alone.
Closed(fs) == \A f \in fs : \A i \in DOMAIN fixtures[f].deps : fixtures[f].deps[i] \in fs
Reach(fs)  == LET closed == {other \in SUBSET DOMAIN fixtures : fs \subseteq other /\ Closed(other)}
              IN {f \in DOMAIN fixtures : \A other \in closed : f \in other}

Ahead(u) == Reach(ToSet(u.implicit))
Needs(u) == Reach(ToSet(u.implicit) \cup ToSet(u.roots))
Axes(u)  == {f \in Needs(u) : fixtures[f].ids # <<>>}

\* No fixture of the graph depends on a narrower one.
Nested(u) == \A f \in Needs(u) : \A d \in ToSet(fixtures[f].deps) :
                Rank[fixtures[d].scope] >= Rank[fixtures[f].scope]

UseOf(r)        == collected[CHOOSE k \in DOMAIN collected : Tests[k] = r.test].use
FixtureAt(r, i) == r.steps[i].fixture
ArgsAt(r, i)    == IF i = 0 THEN r.roots ELSE r.steps[i].args
Named(r, i)     == [j \in DOMAIN ArgsAt(r, i) |-> FixtureAt(r, ArgsAt(r, i)[j])]

\* A plan is what ScopeStore needs: the whole graph and nothing else, each
\* step after those it is built over, every fixture once unless each of its
\* sites is to have its own, nothing over a narrower scope, and what the test
\* only uses ahead of what it asks for.  A test is turned away exactly if its
\* graph cannot be had, whichever path reaches the offending site first
\* (fixtures.py:789-807, 836-923).
FitForTheStore ==
    /\ \A k \in DOMAIN collected : collected[k].ok <=> Nested(collected[k].use)
    /\ \A r \in records :
         LET ahead == Ahead(UseOf(r))
         IN /\ {FixtureAt(r, i) : i \in DOMAIN r.steps} = Needs(UseOf(r))
            /\ Named(r, 0) = UseOf(r).roots
            /\ \A i \in DOMAIN r.steps :
                 /\ Named(r, i) = fixtures[FixtureAt(r, i)].deps
                 /\ \A j \in ToSet(r.steps[i].args) : j < i
            /\ \A i, j \in DOMAIN r.steps :
                 /\ i # j /\ FixtureAt(r, i) = FixtureAt(r, j) => ~Shareable(FixtureAt(r, i))
                 /\ FixtureAt(r, i) \in ahead /\ Shareable(FixtureAt(r, i)) /\ FixtureAt(r, j) \notin ahead
                      => i < j
            /\ \A i, j \in 0..Len(r.steps) : \A a \in DOMAIN ArgsAt(r, i), b \in DOMAIN ArgsAt(r, j) :
                 ArgsAt(r, i)[a] = ArgsAt(r, j)[b] /\ <<i, a>> # <<j, b>> =>
                    Shareable(FixtureAt(r, ArgsAt(r, i)[a]))

\* Of every test there is one record for every combination of a case of its
\* own and one of each parametrized fixture it is built over, however far
\* below and also if it only uses it; every fixture of the record is handed
\* that choice, and no other record of the test has its id
\* (fixtures.py:502-527, 952-1000; collect.py:667-684).
EveryCaseOnce ==
    \A k \in DOMAIN collected : collected[k].ok =>
        LET axes      == Axes(collected[k].use)
            mine      == {r \in records : r.test = Tests[k]}
            Choice(r) == [f \in axes |-> r.steps[CHOOSE i \in DOMAIN r.steps : FixtureAt(r, i) = f].param]
        IN /\ \A case \in Cases(collected[k].use), chosen \in Combos(axes) :
                Cardinality({r \in mine : r.case = case /\ Choice(r) = chosen}) = 1
           /\ \A r \in mine : \A i \in DOMAIN r.steps :
                r.steps[i].param = IF FixtureAt(r, i) \in axes THEN Choice(r)[FixtureAt(r, i)] ELSE NoParam
           /\ \A r, q \in mine : r.id = q.id => r = q

\* Everything an instance is made from: what its fixture is built over, each
\* with what it was handed.
MadeFrom(r, i) ==
    LET below == Reach({FixtureAt(r, i)})
    IN {<<FixtureAt(r, j), r.steps[j].param>> : j \in {j \in DOMAIN r.steps : FixtureAt(r, j) \in below}}

Shares(r, q, scope) == scope = "session" \/ (scope = "module" /\ ModuleOf[r.test] = ModuleOf[q.test])

\* Two tests, or two cases of one, share an instance if its scope says so
\* and all that it is made from is the same, and otherwise never: the key of
\* a step tells two constructions apart however far below it they differ,
\* and keeps none apart that do not (runtime.py:45-74, fixtures.py:797-806).
KeysAreConstructions ==
    \A r, q \in records : \A i \in DOMAIN r.steps, j \in DOMAIN q.steps :
        FixtureAt(r, i) = FixtureAt(q, j) /\ <<r, i>> # <<q, j>> =>
            (Key(r, i) = Key(q, j) <=>
                /\ r # q /\ Shares(r, q, fixtures[FixtureAt(r, i)].scope)
                /\ MadeFrom(r, i) = MadeFrom(q, j))
=============================================================================
