--------------------------- MODULE AffectedProofs ---------------------------
(***************************************************************************)
(* What --affected skips, for every suite, every program that the texts    *)
(* allow, every interleaving of its tests and any number of edits and      *)
(* runs.  While a run is on, a collector holds its own block and is        *)
(* distrusted unless its block names all that its threads run (Tracked);   *)
(* once it is over, a record kept of it depends on no more than its test   *)
(* rests on, and a trusted pass on all of it (Faithful).  The properties   *)
(* follow from the records alone.                                          *)
(***************************************************************************)
EXTENDS Affected, FiniteSetsExt, SequenceTheorems, NaturalsInduction,
        WellFoundedInduction, TLAPS

----------------------------------------------------------------------------
(* The least member of a set of numbers.                                   *)

(* A set of naturals has a least member, which Min is.                     *)
LEMMA Least ==
    ASSUME NEW S \in SUBSET Nat, S # {}
    PROVE  Min(S) \in S /\ \A n \in S : Min(S) <= n
<1>1. PICK x \in S : \A y \in S : ~(<<y, x>> \in OpToRel(<, Nat))
  BY NatLessThanWellFounded, WFMin
<1>2. \A y \in S : x <= y
  <2> SUFFICES ASSUME NEW y \in S PROVE x <= y  OBVIOUS
  <2>1. x \in Nat /\ y \in Nat  OBVIOUS
  <2>2. ~(y < x)  BY <1>1, <2>1 DEF OpToRel
  <2> QED BY <2>1, <2>2
<1> QED BY <1>2 DEF Min

----------------------------------------------------------------------------
(* What tests and blocks name.                                             *)

Roots(t) == {t} \cup RangeOf(PlanOf(t))

(* No block of S leads out of S in these texts.                            *)
Shut(S, texts) == \A x \in S : texts[x].refs \cup texts[x].threads \subseteq S

(* Whatever x names, at any depth, names what it starts on threads.        *)
Named(x, tr) == Reach({x}, Refs(tr), {})
Calm(x) == \A y \in Named(x, loaded) : loaded[y].threads \subseteq loaded[y].refs

----------------------------------------------------------------------------
(* The inductive invariant.                                                *)

IsCollector(c) == c = [codes |-> c.codes, data |-> c.data, untrusted |-> c.untrusted]

(* c has seen x run.                                                       *)
Noted(c, x) == IsCollector(c) /\ x \in c.codes /\ (c.untrusted \/ Calm(x))

Built(f) == shared[f] # Nobody

Complete(t) == Noted(own[t], t) /\ \A f \in RangeOf(PlanOf(t)) : Built(f)

SetupFailed(t) == \E f \in RangeOf(PlanOf(t)) : Built(f) /\ Fails(f)

(* A run that is on.                                                       *)
Tracked ==
    /\ IsTree(world) /\ IsTree(loaded)
    /\ memo \subseteq Memoised
    /\ open \in Seq(Shared) /\ \A f \in RangeOf(open) : Built(f)
    /\ \A f \in Shared : Built(f) =>
           /\ Noted(shared[f], f)
           /\ shared[f].codes \subseteq Reach({f}, Ran(loaded), {})
    /\ \A t \in Tests : IsCollector(own[t]) /\ own[t].codes \subseteq Needs(t, loaded)
    /\ \A t \in Tests : outcome[t] = "passed" => Complete(t) /\ CodePasses(t, loaded)
    /\ \A t \in Tests : outcome[t] = "failed" => Complete(t) \/ SetupFailed(t)

(* A run that is not, or that is about to collect.                         *)
Untouched ==
    /\ open = <<>> /\ memo = {}
    /\ own = [t \in Tests |-> Nobody] /\ shared = [f \in Shared |-> Nobody]
    /\ outcome = [t \in Tests |-> "none"]
    /\ \A t \in Tests : at[t] \in {"out", "waiting"}

(* The record depends on a fixture that would fail as it stands.           *)
Broken(t, deps) ==
    \E f \in RangeOf(PlanOf(t)) \cap DOMAIN deps :
        \A S \in SUBSET DOMAIN deps : f \in S /\ Shut(S, deps) => \E y \in S : ~deps[y].ok

(* What a record says of the run w that it was made of.                    *)
Faithful(t, r, w) ==
    /\ r.passed <=> w.passed
    /\ r.untrusted <=> ~w.trusted
    /\ w.still /\ w.whole =>
        /\ DOMAIN w.ran \subseteq Blocks /\ Roots(t) \subseteq DOMAIN w.ran
        /\ w.ran = [x \in DOMAIN w.ran |-> w.ran[x]]
        /\ Shut(DOMAIN w.ran, w.ran)
        /\ \A S \in SUBSET DOMAIN w.ran :
               Roots(t) \subseteq S /\ Shut(S, w.ran) => DOMAIN w.ran \subseteq S
        /\ DOMAIN r.deps \subseteq DOMAIN w.ran
        /\ \A x \in DOMAIN r.deps : r.deps[x] = w.ran[x] /\ r.deps[x].refs \subseteq DOMAIN r.deps
        /\ Roots(t) \subseteq DOMAIN r.deps \/ Broken(t, r.deps)
        /\ w.passed => Roots(t) \subseteq DOMAIN r.deps /\ \A x \in DOMAIN w.ran : w.ran[x].ok
        /\ w.passed /\ w.trusted => \A x \in DOMAIN w.ran : w.ran[x].threads \subseteq w.ran[x].refs

Kept(s) == s \in Seq(RangeOf(s))

Remembered(t) ==
    /\ Kept(store[t]) /\ Kept(past[t]) /\ Len(store[t]) = Len(past[t])
    /\ \A i \in 1..Len(past[t]) : Faithful(t, store[t][i], past[t][i])

IInv ==
    /\ IsTree(tree)
    /\ phase \in {"idle", "begun", "running"}
    /\ phase = "begun" => IsTree(world)
    /\ own = [t \in Tests |-> own[t]] /\ shared = [f \in Shared |-> shared[f]]
    /\ outcome = [t \in Tests |-> outcome[t]]
    /\ IF phase = "running" THEN Tracked ELSE Untouched
    /\ store = [t \in Tests |-> store[t]] /\ past = [t \in Tests |-> past[t]]
    /\ \A t \in Tests : Remembered(t)

----------------------------------------------------------------------------
(* Reaching.                                                               *)

(* What `from` reaches is the least set that holds it and no step leaves.  *)
LEMMA Reaching ==
    ASSUME NEW from \in SUBSET Blocks, NEW step \in [Blocks -> SUBSET Blocks], NEW walls
    PROVE  LET R == Reach(from, step, walls)
           IN  /\ R \subseteq Blocks /\ from \ walls \subseteq R
               /\ \A x \in R : step[x] \ walls \subseteq R
               /\ \A S \in SUBSET Blocks :
                      from \ walls \subseteq S /\ (\A x \in S : step[x] \ walls \subseteq S)
                      => R \subseteq S
<1> DEFINE Shuts(S) == from \ walls \subseteq S /\ \A x \in S : step[x] \ walls \subseteq S
           R == Reach(from, step, walls)
<1>1. \A x : x \in R <=> x \in Blocks /\ \A S \in SUBSET Blocks : Shuts(S) => x \in S
  BY DEF Reach
<1>2. from \ walls \subseteq R  BY <1>1
<1>3. ASSUME NEW x \in R, NEW y \in step[x] \ walls PROVE y \in R
  <2>1. x \in Blocks /\ y \in Blocks  BY <1>1, <1>3
  <2>2. \A S \in SUBSET Blocks : Shuts(S) => y \in S  BY <1>1, <1>3
  <2> QED BY <1>1, <2>1, <2>2
<1>4. \A S \in SUBSET Blocks : Shuts(S) => R \subseteq S  BY <1>1
<1>5. R \subseteq Blocks  BY <1>1
<1> QED BY <1>2, <1>3, <1>4, <1>5

LEMMA Stepping ==
    ASSUME NEW tr, IsTree(tr)
    PROVE  /\ Refs(tr) \in [Blocks -> SUBSET Blocks] /\ Ran(tr) \in [Blocks -> SUBSET Blocks]
           /\ \A x \in Blocks : /\ Refs(tr)[x] = tr[x].refs
                                /\ Ran(tr)[x] = tr[x].refs \cup tr[x].threads
<1>1. \A x \in Blocks : tr[x].refs \cup tr[x].threads \subseteq Blocks
  BY AffectedAssumption DEF IsTree, Things
<1> QED BY <1>1 DEF Refs, Ran

LEMMA Planning ==
    ASSUME NEW t \in Tests
    PROVE  /\ PlanOf(t) \in Seq(Shared) /\ RangeOf(PlanOf(t)) \subseteq Shared
           /\ Roots(t) \subseteq Blocks
<1>1. PlanOf(t) \in Seq(Shared)  BY AffectedAssumption
<1>2. \A i \in DOMAIN PlanOf(t) : PlanOf(t)[i] \in Shared  BY <1>1
<1> QED BY <1>1, <1>2 DEF RangeOf, Roots, Blocks

(* What x reaches in tr, whatever starts it.                               *)
LEMMA Started ==
    ASSUME NEW tr, IsTree(tr), NEW x \in Blocks
    PROVE  LET R == Reach({x}, Ran(tr), {})
           IN  /\ R \subseteq Blocks /\ x \in R /\ Shut(R, tr)
               /\ \A S \in SUBSET Blocks : x \in S /\ Shut(S, tr) => R \subseteq S
<1> DEFINE R == Reach({x}, Ran(tr), {})
<1>1. /\ R \subseteq Blocks /\ x \in R /\ \A y \in R : Ran(tr)[y] \subseteq R
      /\ \A S \in SUBSET Blocks : x \in S /\ (\A y \in S : Ran(tr)[y] \subseteq S) => R \subseteq S
  <2>1. {x} \in SUBSET Blocks /\ {x} \ {} = {x} /\ \A y : Ran(tr)[y] \ {} = Ran(tr)[y]
    OBVIOUS
  <2> QED BY <2>1, Reaching, Stepping
<1>2. \A S \in SUBSET Blocks : Shut(S, tr) <=> \A y \in S : Ran(tr)[y] \subseteq S
  BY Stepping DEF Shut
<1> HIDE DEF R
<1> QED BY <1>1, <1>2 DEF R

LEMMA Naming ==
    ASSUME NEW tr, IsTree(tr), NEW x \in Blocks
    PROVE  /\ Named(x, tr) \subseteq Blocks /\ x \in Named(x, tr)
           /\ \A y \in Named(x, tr) : tr[y].refs \subseteq Named(x, tr)
           /\ \A S \in SUBSET Blocks :
                  x \in S /\ (\A y \in S : tr[y].refs \subseteq S) => Named(x, tr) \subseteq S
<1> DEFINE R == Named(x, tr)
<1>1. /\ R \subseteq Blocks /\ x \in R /\ \A y \in R : Refs(tr)[y] \subseteq R
      /\ \A S \in SUBSET Blocks : x \in S /\ (\A y \in S : Refs(tr)[y] \subseteq S) => R \subseteq S
  <2>1. {x} \in SUBSET Blocks /\ {x} \ {} = {x} /\ \A y : Refs(tr)[y] \ {} = Refs(tr)[y]
    OBVIOUS
  <2> QED BY <2>1, Reaching, Stepping DEF Named
<1>2. \A y \in Blocks : Refs(tr)[y] = tr[y].refs  BY Stepping
<1> HIDE DEF R
<1>3. \A y \in R : tr[y].refs \subseteq R  BY <1>1, <1>2
<1>4. \A S \in SUBSET Blocks : x \in S /\ (\A y \in S : tr[y].refs \subseteq S) => R \subseteq S
  BY <1>1, <1>2
<1> QED BY <1>1, <1>3, <1>4 DEF R

(* What a test rests on.                                                   *)
LEMMA Needing ==
    ASSUME NEW tr, IsTree(tr), NEW t \in Tests
    PROVE  /\ Needs(t, tr) \subseteq Blocks /\ Roots(t) \subseteq Needs(t, tr)
           /\ Shut(Needs(t, tr), tr)
           /\ \A S \in SUBSET Blocks :
                  Roots(t) \subseteq S /\ Shut(S, tr) => Needs(t, tr) \subseteq S
           /\ \A x \in Needs(t, tr) : Reach({x}, Ran(tr), {}) \subseteq Needs(t, tr)
<1> DEFINE R == Needs(t, tr)
<1>1. /\ R \subseteq Blocks /\ Roots(t) \subseteq R /\ \A y \in R : Ran(tr)[y] \subseteq R
      /\ \A S \in SUBSET Blocks :
             Roots(t) \subseteq S /\ (\A y \in S : Ran(tr)[y] \subseteq S) => R \subseteq S
  <2>1. Roots(t) \in SUBSET Blocks  BY Planning
  <2>2. Roots(t) \ {} = Roots(t) /\ \A y : Ran(tr)[y] \ {} = Ran(tr)[y]  OBVIOUS
  <2>3. R = Reach(Roots(t), Ran(tr), {})  BY DEF Needs, Roots
  <2> HIDE DEF R
  <2> QED BY <2>1, <2>2, <2>3, Reaching, Stepping
<1>2. \A S \in SUBSET Blocks : Shut(S, tr) <=> \A y \in S : Ran(tr)[y] \subseteq S
  BY Stepping DEF Shut
<1> HIDE DEF R
<1>3. Shut(R, tr)  BY <1>1, <1>2
<1>4. \A x \in R : Reach({x}, Ran(tr), {}) \subseteq R  BY <1>1, <1>3, Started
<1> QED BY <1>1, <1>2, <1>3, <1>4 DEF R

(* What x names it reaches.                                                *)
LEMMA NamedIsReached ==
    ASSUME NEW tr, IsTree(tr), NEW x \in Blocks
    PROVE  Named(x, tr) \subseteq Reach({x}, Ran(tr), {})
<1> DEFINE R == Reach({x}, Ran(tr), {})
<1>1. R \in SUBSET Blocks /\ x \in R /\ Shut(R, tr)  BY Started
<1>2. \A y \in R : tr[y].refs \subseteq R  BY <1>1 DEF Shut
<1> HIDE DEF R
<1> QED BY <1>1, <1>2, Naming DEF R

----------------------------------------------------------------------------
(* A block runs.                                                           *)

(* Of a test or a fixture everything it names runs, but for what is behind *)
(* a remembered result; and behind one there are names for all there is.   *)
LEMMA WhatRuns ==
    ASSUME IsTree(loaded), memo \subseteq Memoised, NEW x \in Tests \cup Shared
    PROVE  /\ Runs(x) \subseteq Named(x, loaded) /\ x \in Runs(x)
           /\ (\A y \in Runs(x) : loaded[y].threads = {}) => Calm(x)
<1> DEFINE R == Runs(x)
<1>1. x \in Blocks /\ x \notin memo  BY AffectedAssumption DEF Blocks
<1>2. /\ R \subseteq Blocks /\ x \in R
      /\ \A y \in R : loaded[y].refs \ memo \subseteq R
      /\ \A S \in SUBSET Blocks :
             x \in S /\ (\A y \in S : loaded[y].refs \ memo \subseteq S) => R \subseteq S
  <2>1. {x} \in SUBSET Blocks /\ {x} \ memo = {x}  BY <1>1
  <2>2. \A y \in Blocks : Refs(loaded)[y] = loaded[y].refs  BY Stepping
  <2>3. /\ R \subseteq Blocks /\ x \in R /\ \A y \in R : Refs(loaded)[y] \ memo \subseteq R
        /\ \A S \in SUBSET Blocks :
               x \in S /\ (\A y \in S : Refs(loaded)[y] \ memo \subseteq S) => R \subseteq S
    BY <2>1, Reaching, Stepping DEF Runs
  <2> HIDE DEF R
  <2> QED BY <2>2, <2>3
<1> HIDE DEF R
<1>3. R \subseteq Named(x, loaded)
  <2>1. /\ Named(x, loaded) \in SUBSET Blocks /\ x \in Named(x, loaded)
        /\ \A y \in Named(x, loaded) : loaded[y].refs \subseteq Named(x, loaded)
    BY <1>1, Naming
  <2> QED BY <1>2, <2>1
<1>4. ASSUME \A y \in R : loaded[y].threads = {} PROVE Calm(x)
  <2>1. PICK calm \in SUBSET Other :
          /\ Memoised \subseteq calm
          /\ \A y \in calm : \A text \in Texts(y) :
                 text.threads \subseteq text.refs /\ text.refs \subseteq calm
    BY MemoAssumption
  <2>2. \A y \in calm : loaded[y].threads \subseteq loaded[y].refs /\ loaded[y].refs \subseteq calm
    BY <2>1 DEF IsTree, Things, Blocks
  <2> DEFINE S == R \cup calm
  <2>3. S \in SUBSET Blocks /\ x \in S  BY <1>2 DEF Blocks
  <2>4. \A y \in S : loaded[y].refs \subseteq S
    BY <1>2, <2>1, <2>2
  <2>5. Named(x, loaded) \subseteq S
    <3> HIDE DEF S
    <3> QED BY <1>1, <2>3, <2>4, Naming
  <2>6. \A y \in S : loaded[y].threads \subseteq loaded[y].refs  BY <1>4, <2>2
  <2> QED BY <2>5, <2>6 DEF Calm
<1> QED BY <1>2, <1>3, <1>4 DEF R

LEMMA NotingIt ==
    ASSUME IsTree(loaded), memo \subseteq Memoised, NEW x \in Tests \cup Shared, NEW c
    PROVE  Noted(Noting(c, x), x) /\ Noting(c, x).codes = c.codes \cup Runs(x)
<1> DEFINE n == Noting(c, x)
<1>1. /\ n.codes = c.codes \cup Runs(x)
      /\ n.untrusted <=> (c.untrusted \/ \E y \in Runs(x) : loaded[y].threads # {})
      /\ IsCollector(n)
  BY DEF Noting, IsCollector
<1>2. x \in n.codes  BY <1>1, WhatRuns
<1>3. n.untrusted \/ Calm(x)  BY <1>1, WhatRuns
<1> QED BY <1>1, <1>2, <1>3 DEF Noted

(* Distrust takes nothing from a collector.                                *)
LEMMA DistrustingAll ==
    ASSUME own = [t \in Tests |-> own[t]], \A t \in Tests : IsCollector(own[t]), NEW x
    PROVE  /\ Distrusting(x) = [t \in Tests |-> Distrusting(x)[t]]
           /\ \A t \in Tests : /\ IsCollector(Distrusting(x)[t])
                               /\ Distrusting(x)[t].codes = own[t].codes
                               /\ own[t].untrusted => Distrusting(x)[t].untrusted
<1>1. CASE Distrusting(x) = own
  BY <1>1
<1>2. CASE Distrusting(x) = [t \in Tests |-> IF t \in InFlight
                                THEN [own[t] EXCEPT !.untrusted = TRUE] ELSE own[t]]
  <2>1. ASSUME NEW t \in Tests
        PROVE  LET d == [own[t] EXCEPT !.untrusted = TRUE]
               IN  d.codes = own[t].codes /\ d.untrusted /\ IsCollector(d)
    <3>1. ASSUME NEW a, NEW b, NEW u, NEW v
          PROVE  [[codes |-> a, data |-> b, untrusted |-> u] EXCEPT !.untrusted = v]
                 = [codes |-> a, data |-> b, untrusted |-> v]
      OBVIOUS
    <3>2. own[t] = [codes |-> own[t].codes, data |-> own[t].data, untrusted |-> own[t].untrusted]
      BY DEF IsCollector
    <3>3. ASSUME NEW v
          PROVE  [own[t] EXCEPT !.untrusted = v]
                 = [codes |-> own[t].codes, data |-> own[t].data, untrusted |-> v]
      BY <3>1, <3>2
    <3>4. [own[t] EXCEPT !.untrusted = TRUE]
          = [codes |-> own[t].codes, data |-> own[t].data, untrusted |-> TRUE]
      BY <3>3, Zenon
    <3> QED BY <3>4 DEF IsCollector
  <2> QED BY <1>2, <2>1
<1> QED BY <1>1, <1>2 DEF Distrusting

LEMMA Ranges ==
    ASSUME NEW S, NEW s \in Seq(S)
    PROVE  /\ \A e \in S : RangeOf(Append(s, e)) \subseteq RangeOf(s) \cup {e}
           /\ s # <<>> => Front(s) \in Seq(S) /\ RangeOf(Front(s)) \subseteq RangeOf(s)
<1>1. DOMAIN s = 1..Len(s) /\ Len(s) \in Nat /\ \A i \in 1..Len(s) : s[i] \in S
  BY LenProperties, ElementOfSeq
<1>2. ASSUME NEW e \in S PROVE RangeOf(Append(s, e)) \subseteq RangeOf(s) \cup {e}
  <2>1. Append(s, e) \in Seq(S) /\ Len(Append(s, e)) = Len(s) + 1
        /\ \A i \in 1..Len(s) : Append(s, e)[i] = s[i]
        /\ Append(s, e)[Len(s) + 1] = e
    BY AppendProperties
  <2>2. DOMAIN Append(s, e) = 1..(Len(s) + 1)  BY <2>1, LenProperties
  <2>3. ASSUME NEW i \in DOMAIN Append(s, e) PROVE Append(s, e)[i] \in RangeOf(s) \cup {e}
    <3>1. i \in 1..Len(s) \/ i = Len(s) + 1  BY <1>1, <2>2
    <3> QED BY <1>1, <2>1, <3>1 DEF RangeOf
  <2> QED BY <2>3 DEF RangeOf
<1>3. ASSUME s # <<>> PROVE Front(s) \in Seq(S) /\ RangeOf(Front(s)) \subseteq RangeOf(s)
  <2>1. Len(s) - 1 \in Nat  BY <1>1, <1>3, EmptySeq
  <2>2. /\ SubSeq(s, 1, Len(s) - 1) \in Seq(S)
        /\ Len(SubSeq(s, 1, Len(s) - 1)) = Len(s) - 1
        /\ \A i \in 1..(Len(s) - 1) : SubSeq(s, 1, Len(s) - 1)[i] = s[i]
    BY <1>1, <2>1, SubSeqProperties
  <2>3. DOMAIN SubSeq(s, 1, Len(s) - 1) = 1..(Len(s) - 1)  BY <2>2, LenProperties
  <2> QED BY <1>1, <2>1, <2>2, <2>3 DEF RangeOf, Front
<1> QED BY <1>2, <1>3

(* When nothing is left to build for a test, either the whole plan stands, *)
(* or it stands up to a fixture that failed.                               *)
LEMMA Building ==
    ASSUME NEW t \in Tests, Upcoming(t) = {}
    PROVE  \/ RangeOf(PlanOf(t)) \subseteq RangeOf(open)
           \/ \E f \in RangeOf(PlanOf(t)) : f \in RangeOf(open) /\ Fails(f)
<1> DEFINE P == PlanOf(t)
           Stuck == {i \in DOMAIN P : P[i] \notin RangeOf(open) \/ Fails(P[i])}
<1>1. DOMAIN P = 1..Len(P) /\ Len(P) \in Nat  BY Planning, LenProperties
<1>2. CASE Stuck = {}
  BY <1>2 DEF RangeOf
<1>3. CASE Stuck # {}
  <2>1. Stuck \in SUBSET Nat  BY <1>1
  <2>2. Min(Stuck) \in Stuck /\ \A i \in Stuck : Min(Stuck) <= i  BY <1>3, <2>1, Least
  <2> DEFINE m == Min(Stuck)
  <2>3. m \in DOMAIN P /\ m \in Nat  BY <2>1, <2>2
  <2>4. ASSUME NEW j \in 1..(m - 1) PROVE P[j] \in RangeOf(open) /\ ~Fails(P[j])
    <3>1. j \in DOMAIN P /\ ~(m <= j)  BY <1>1, <2>3
    <3>2. j \notin Stuck  BY <2>2, <3>1
    <3> QED BY <3>1, <3>2
  <2>5. P[m] \in RangeOf(open)
    <3>1. m \notin Upcoming(t)  OBVIOUS
    <3> QED BY <2>3, <2>4, <3>1 DEF Upcoming
  <2>6. Fails(P[m])  BY <2>2, <2>5
  <2>7. P[m] \in RangeOf(P)  BY <2>3 DEF RangeOf
  <2> QED BY <2>5, <2>6, <2>7
<1> QED BY <1>2, <1>3

----------------------------------------------------------------------------
(* The steps of a run.                                                     *)

(* What is about the tree a run has loaded stays so for the run.           *)
LEMMA Loaded ==
    ASSUME UNCHANGED loaded
    PROVE  /\ \A x : (Calm(x)' <=> Calm(x)) /\ (Fails(x)' <=> Fails(x))
           /\ \A c, x : Noted(c, x)' <=> Noted(c, x)
<1>1. \A x : (Calm(x)' <=> Calm(x)) /\ (Fails(x)' <=> Fails(x))  BY DEF Calm, Fails
<1> QED BY <1>1 DEF Noted

(* A test that is told stays told as its collector, the fixtures and the   *)
(* remembered results grow.                                                *)
LEMMA Growing ==
    ASSUME Tracked, UNCHANGED <<world, loaded>>,
           memo' \subseteq Memoised, open' \in Seq(Shared),
           \A f \in RangeOf(open)' : Built(f)',
           \A f \in Shared : Built(f) => Built(f)',
           \A f \in Shared : Built(f)' => /\ Noted(shared'[f], f)
                                          /\ shared'[f].codes \subseteq Reach({f}, Ran(loaded), {}),
           \A t \in Tests : IsCollector(own'[t]) /\ own'[t].codes \subseteq Needs(t, loaded),
           \A t \in Tests : Noted(own[t], t) => Noted(own'[t], t),
           \A t \in Tests : outcome'[t] \in {"passed", "failed"} =>
               \/ outcome'[t] = outcome[t]
               \/ /\ outcome'[t] = "passed" => CodePasses(t, loaded)
                  /\ outcome'[t] = "passed" => Complete(t)'
                  /\ outcome'[t] = "failed" => Complete(t)' \/ SetupFailed(t)'
    PROVE  Tracked'
<1>1. \A c, x : Noted(c, x)' <=> Noted(c, x)  BY Loaded
<1>2. \A x : Fails(x)' <=> Fails(x)  BY Loaded
<1>3. ASSUME NEW t \in Tests
      PROVE  (Complete(t) => Complete(t)') /\ (SetupFailed(t) => SetupFailed(t)')
  <2>1. RangeOf(PlanOf(t)) \subseteq Shared  BY Planning
  <2>2. Complete(t) => Complete(t)'
    <3>1. Noted(own[t], t) => Noted(own[t], t)'  BY <1>1 DEF Noted
    <3> QED BY <1>1, <2>1 DEF Complete, Noted
  <2>3. SetupFailed(t) => SetupFailed(t)'  BY <1>2, <2>1 DEF SetupFailed
  <2> QED BY <2>2, <2>3
<1>4. IsTree(world)' /\ IsTree(loaded)'  BY DEF Tracked
<1>5. \A t \in Tests : outcome'[t] = "passed" => Complete(t)' /\ CodePasses(t, loaded)
  BY <1>3 DEF Tracked
<1>6. \A t \in Tests : outcome'[t] = "failed" => Complete(t)' \/ SetupFailed(t)'
  BY <1>3 DEF Tracked
<1>7. \A f \in Shared : Built(f)' => /\ Noted(shared[f], f)'
                                     /\ shared'[f].codes \subseteq Reach({f}, Ran(loaded), {})
  BY <1>1 DEF Noted, Calm
<1>8. \A t \in Tests : CodePasses(t, loaded)' <=> CodePasses(t, loaded)
  BY DEF CodePasses
<1> QED BY <1>4, <1>5, <1>6, <1>7, <1>8 DEF Tracked

LEMMA TrackedBuild == ASSUME IInv, NEW t \in Tests, phase = "running", Build(t) PROVE Tracked'
<1>1. Tracked  BY DEF IInv
<1>2. PICK i \in Upcoming(t) :
        /\ open' = Append(open, PlanOf(t)[i])
        /\ shared' = [shared EXCEPT ![PlanOf(t)[i]] = Noting(@, PlanOf(t)[i])]
        /\ own' = Distrusting(PlanOf(t)[i])
        /\ memo' = memo \cup (Runs(PlanOf(t)[i]) \cap Memoised)
  BY DEF Build
<1> DEFINE f == PlanOf(t)[i]
<1>3. f \in Shared /\ f \in Blocks
  <2>1. i \in DOMAIN PlanOf(t)  BY <1>2 DEF Upcoming
  <2> QED BY <2>1, Planning DEF RangeOf, Blocks
<1> HIDE DEF f
<1>4. UNCHANGED <<world, loaded, outcome>>  BY DEF Build
<1>5. Noted(Noting(shared[f], f), f) /\ Noting(shared[f], f).codes = shared[f].codes \cup Runs(f)
  BY <1>1, <1>3, NotingIt DEF Tracked
<1>6. Runs(f) \subseteq Reach({f}, Ran(loaded), {})
  <2>1. Runs(f) \subseteq Named(f, loaded)  BY <1>1, <1>3, WhatRuns DEF Tracked
  <2> QED BY <1>1, <1>3, <2>1, NamedIsReached DEF Tracked
<1>7. shared' = [g \in Shared |-> IF g = f THEN Noting(shared[f], f) ELSE shared[g]]
  BY <1>2, <1>3 DEF IInv, f
<1>8. Built(f)' /\ \A g \in Shared : Built(g) => Built(g)'
  <2>1. Noting(shared[f], f) # Nobody
    <3>1. f \in Noting(shared[f], f).codes  BY <1>5 DEF Noted
    <3> QED BY <3>1 DEF Nobody
  <2> QED BY <1>3, <1>7, <2>1 DEF Built
<1>9. ASSUME NEW g \in Shared, Built(g)'
      PROVE  Noted(shared'[g], g) /\ shared'[g].codes \subseteq Reach({g}, Ran(loaded), {})
  <2>1. CASE g = f
    <3>1. shared[f].codes \subseteq Reach({f}, Ran(loaded), {})
      <4>1. CASE Built(f)
        BY <1>1, <1>3, <4>1 DEF Tracked
      <4>2. CASE ~Built(f)
        BY <4>2 DEF Built, Nobody
      <4> QED BY <4>1, <4>2
    <3> QED BY <1>5, <1>6, <1>7, <2>1, <3>1
  <2>2. CASE g # f
    BY <1>1, <1>7, <1>9, <2>2 DEF Tracked, Built
  <2> QED BY <2>1, <2>2
<1>10. open' \in Seq(Shared) /\ \A g \in RangeOf(open)' : Built(g)'
  <2>1. open \in Seq(Shared) /\ \A g \in RangeOf(open) : Built(g)  BY <1>1 DEF Tracked
  <2>2. open' = Append(open, f)  BY <1>2 DEF f
  <2>3. open' \in Seq(Shared)  BY <1>3, <2>1, <2>2, AppendProperties
  <2>4. RangeOf(open) \subseteq Shared
    <3>1. \A j \in DOMAIN open : open[j] \in Shared  BY <2>1
    <3> QED BY <3>1 DEF RangeOf
  <2>5. RangeOf(open') \subseteq RangeOf(open) \cup {f}  BY <1>3, <2>1, <2>2, Ranges
  <2>6. \A g \in RangeOf(open') : Built(g)'  BY <1>8, <2>1, <2>4, <2>5
  <2>7. RangeOf(open)' = RangeOf(open')  BY DEF RangeOf
  <2> QED BY <2>3, <2>6, <2>7
<1>11. /\ \A u \in Tests : IsCollector(own'[u]) /\ own'[u].codes = own[u].codes
       /\ \A u \in Tests : own[u].untrusted => own'[u].untrusted
  BY <1>1, <1>2, DistrustingAll DEF IInv, Tracked
<1>12. \A u \in Tests : Noted(own[u], u) => Noted(own'[u], u)
  BY <1>11 DEF Noted
<1>13. memo' \subseteq Memoised  BY <1>1, <1>2 DEF Tracked
<1>14. \A u \in Tests : IsCollector(own'[u]) /\ own'[u].codes \subseteq Needs(u, loaded)
  BY <1>1, <1>11 DEF Tracked
<1> QED BY <1>1, <1>4, <1>8, <1>9, <1>10, <1>12, <1>13, <1>14, Growing

LEMMA TrackedCall == ASSUME IInv, NEW t \in Tests, phase = "running", Call(t) PROVE Tracked'
<1>1. Tracked  BY DEF IInv
<1>2. /\ UNCHANGED <<world, loaded, open, shared>>
      /\ Upcoming(t) = {}
  BY DEF Call
<1> DEFINE Fail == \E f \in RangeOf(PlanOf(t)) : Fails(f)
<1>3. RangeOf(PlanOf(t)) \subseteq Shared  BY Planning
<1>4. \A f \in RangeOf(open) : Built(f)  BY <1>1 DEF Tracked
<1>5. \A f : Built(f)' <=> Built(f)  BY <1>2 DEF Built
<1>6. open' \in Seq(Shared) /\ \A f \in RangeOf(open)' : Built(f)'
  BY <1>1, <1>2, <1>4, <1>5 DEF Tracked, RangeOf
<1>7. \A f \in Shared : Built(f)' => /\ Noted(shared'[f], f)
                                     /\ shared'[f].codes \subseteq Reach({f}, Ran(loaded), {})
  BY <1>1, <1>2, <1>5 DEF Tracked
<1>8. CASE Fail
  <2>1. outcome' = [outcome EXCEPT ![t] = "failed"] /\ own' = own /\ memo' = memo
    BY <1>8 DEF Call
  <2>2. SetupFailed(t)
    <3>1. CASE RangeOf(PlanOf(t)) \subseteq RangeOf(open)
      BY <1>4, <1>8, <3>1 DEF SetupFailed
    <3> QED BY <1>2, <1>4, <3>1, Building DEF SetupFailed
  <2>3. SetupFailed(t)'
    BY <1>2, <1>3, <2>2, Loaded DEF SetupFailed, Built
  <2>4. outcome' = [u \in Tests |-> IF u = t THEN "failed" ELSE outcome[u]]
    BY <2>1 DEF IInv
  <2>5. memo' \subseteq Memoised  BY <1>1, <2>1 DEF Tracked
  <2>6. /\ \A u \in Tests : IsCollector(own'[u]) /\ own'[u].codes \subseteq Needs(u, loaded)
        /\ \A u \in Tests : Noted(own[u], u) => Noted(own'[u], u)
    BY <1>1, <2>1 DEF Tracked
  <2>7. \A u \in Tests : outcome'[u] = outcome[u] \/ (outcome'[u] = "failed" /\ SetupFailed(u)')
    BY <2>3, <2>4
  <2> QED BY <1>1, <1>2, <1>5, <1>6, <1>7, <2>5, <2>6, <2>7, Growing
<1>9. CASE ~Fail
  <2>1. /\ own' = [Distrusting(t) EXCEPT ![t] = Noting(@, t)]
        /\ memo' = memo \cup (Runs(t) \cap Memoised)
        /\ outcome' = [outcome EXCEPT ![t] = IF CodePasses(t, loaded) /\ DataPasses(t, loaded)
                                             THEN "passed" ELSE "failed"]
    BY <1>9 DEF Call
  <2> DEFINE D == Distrusting(t)
             n == Noting(D[t], t)
  <2>2. /\ D = [u \in Tests |-> D[u]]
        /\ \A u \in Tests : /\ IsCollector(D[u]) /\ D[u].codes = own[u].codes
                            /\ own[u].untrusted => D[u].untrusted
    BY <1>1, DistrustingAll DEF IInv, Tracked
  <2>3. Noted(n, t) /\ n.codes = D[t].codes \cup Runs(t)
    BY <1>1, NotingIt DEF Tracked
  <2> HIDE DEF n, D
  <2>4. own' = [u \in Tests |-> IF u = t THEN n ELSE D[u]]
    BY <2>1, <2>2 DEF n, D
  <2>5. Runs(t) \subseteq Needs(t, loaded)
    <3>1. Runs(t) \subseteq Named(t, loaded)  BY <1>1, WhatRuns DEF Tracked
    <3>2. t \in Needs(t, loaded) /\ t \in Blocks
      BY <1>1, Needing DEF Tracked, Roots, Blocks
    <3>3. Named(t, loaded) \subseteq Reach({t}, Ran(loaded), {})
      BY <1>1, <3>2, NamedIsReached DEF Tracked
    <3>4. Reach({t}, Ran(loaded), {}) \subseteq Needs(t, loaded)
      BY <1>1, <3>2, Needing DEF Tracked
    <3> QED BY <3>1, <3>3, <3>4
  <2>6. ASSUME NEW u \in Tests
        PROVE  /\ IsCollector(own'[u]) /\ own'[u].codes \subseteq Needs(u, loaded)
               /\ Noted(own[u], u) => Noted(own'[u], u)
    <3>1. own[u].codes \subseteq Needs(u, loaded)  BY <1>1 DEF Tracked
    <3>2. CASE u = t
      BY <2>2, <2>3, <2>4, <2>5, <3>1, <3>2 DEF Noted
    <3>3. CASE u # t
      BY <2>2, <2>4, <3>1, <3>3 DEF Noted
    <3> QED BY <3>2, <3>3
  <2>7. Complete(t)'
    <3>1. RangeOf(PlanOf(t)) \subseteq RangeOf(open)  BY <1>2, <1>9, Building
    <3>2. Calm(t)' <=> Calm(t)  BY <1>2, Loaded
    <3>3. own'[t] = n  BY <2>4
    <3>4. Noted(own[t], t)'  BY <2>3, <3>2, <3>3 DEF Noted
    <3> QED BY <1>4, <1>5, <3>1, <3>4 DEF Complete
  <2>8. \A u \in Tests : \/ outcome'[u] = outcome[u]
                         \/ u = t /\ (outcome'[u] = "passed" => CodePasses(u, loaded))
    BY <2>1 DEF IInv
  <2>9. memo' \subseteq Memoised  BY <1>1, <2>1 DEF Tracked
  <2> QED BY <1>1, <1>2, <1>5, <1>6, <1>7, <2>6, <2>7, <2>8, <2>9, Growing
<1> QED BY <1>8, <1>9

(* The rest of the steps of a run build nothing and call no test.          *)
LEMMA TrackedRest ==
    ASSUME IInv, phase = "running",
           \/ Stop \/ Close \/ Abandon
           \/ \E t \in Tests : Start(t) \/ Finish(t) \/ Cancelled(t)
    PROVE  Tracked'
<1>1. Tracked  BY DEF IInv
<1>2. UNCHANGED <<world, loaded, shared, own, memo>>
  BY DEF Stop, Close, Abandon, Start, Finish, Cancelled
<1>3. open' \in Seq(Shared) /\ RangeOf(open') \subseteq RangeOf(open)
  <2>1. open \in Seq(Shared)  BY <1>1 DEF Tracked
  <2>2. CASE open' = open
    BY <2>1, <2>2
  <2>3. CASE Close
    BY <2>1, <2>3, Ranges DEF Close
  <2>4. CASE Abandon
    <3>1. open' = <<>>  BY <2>4 DEF Abandon
    <3>2. RangeOf(<<>>) = {}  BY DEF RangeOf
    <3> QED BY <3>1, <3>2, EmptySeq
  <2> QED BY <2>2, <2>3, <2>4 DEF Stop, Start, Finish, Cancelled
<1>4. \A f : Built(f)' <=> Built(f)  BY <1>2 DEF Built
<1>5. \A f \in RangeOf(open)' : Built(f)'
  <2>1. RangeOf(open)' = RangeOf(open')  BY DEF RangeOf
  <2> QED BY <1>1, <1>3, <1>4, <2>1 DEF Tracked
<1>6. \A t \in Tests : outcome'[t] \in {"passed", "failed"} => outcome'[t] = outcome[t]
  BY DEF Stop, Close, Abandon, Start, Finish, Cancelled, IInv
<1>7. \A f \in Shared : Built(f)' => /\ Noted(shared'[f], f)
                                     /\ shared'[f].codes \subseteq Reach({f}, Ran(loaded), {})
  BY <1>1, <1>2, <1>4 DEF Tracked
<1>8. /\ \A t \in Tests : IsCollector(own'[t]) /\ own'[t].codes \subseteq Needs(t, loaded)
      /\ \A t \in Tests : Noted(own[t], t) => Noted(own'[t], t)
      /\ memo' \subseteq Memoised
  BY <1>1, <1>2 DEF Tracked
<1> QED BY <1>1, <1>2, <1>3, <1>4, <1>5, <1>6, <1>7, <1>8, Growing

----------------------------------------------------------------------------
(* The end of a run: what is recorded of a test.                           *)

(* The blocks a record depends on, once the fixtures of its test are       *)
(* finished: those its collectors hold, and what they name.                *)
LEMMA Depending ==
    ASSUME Tracked, NEW t \in Tests, world = loaded,
           \A f \in RangeOf(PlanOf(t)) : Built(f) => f \in finished
    PROVE  LET D == KeysOf(Merged(t))
           IN  /\ D \subseteq Needs(t, loaded)
               /\ \A x \in D : loaded[x].refs \subseteq D
               /\ own[t].codes \subseteq D
               /\ \A f \in RangeOf(PlanOf(t)) : Built(f) => f \in D
               /\ \A f \in RangeOf(PlanOf(t)) :
                      Built(f) /\ shared[f].untrusted => Merged(t).untrusted
               /\ own[t].untrusted => Merged(t).untrusted
<1> DEFINE c == Merged(t)
           D == KeysOf(c)
           fs == RangeOf(PlanOf(t)) \cap finished
<1>1. /\ c.codes = own[t].codes \cup UNION {shared[f].codes : f \in fs}
      /\ c.data = {}
      /\ c.untrusted <=> (own[t].untrusted \/ \E f \in fs : shared[f].untrusted)
  BY DEF Merged
<1>2. \A x : x \in c.codes <=> x \in own[t].codes \/ \E f \in fs : x \in shared[f].codes
  BY <1>1
<1>3. RangeOf(PlanOf(t)) \subseteq Shared /\ IsTree(loaded)  BY Planning DEF Tracked
<1>4. c.codes \subseteq Needs(t, loaded)
  <2>1. own[t].codes \subseteq Needs(t, loaded)  BY DEF Tracked
  <2>2. ASSUME NEW f \in fs PROVE shared[f].codes \subseteq Needs(t, loaded)
    <3>1. CASE Built(f)
      <4>1. shared[f].codes \subseteq Reach({f}, Ran(loaded), {})  BY <1>3, <3>1 DEF Tracked
      <4>2. f \in Needs(t, loaded)  BY <1>3, Needing DEF Roots
      <4> QED BY <1>3, <4>1, <4>2, Needing
    <3>2. CASE ~Built(f)
      BY <3>2 DEF Built, Nobody
    <3> QED BY <3>1, <3>2
  <2> QED BY <1>2, <2>1, <2>2
<1>5. Needs(t, loaded) \subseteq Blocks /\ Shut(Needs(t, loaded), loaded)  BY <1>3, Needing
<1>6. /\ D \subseteq Blocks /\ c.codes \subseteq D
      /\ \A x \in D : loaded[x].refs \subseteq D
      /\ \A S \in SUBSET Blocks :
             c.codes \subseteq S /\ (\A x \in S : loaded[x].refs \subseteq S) => D \subseteq S
  <2>1. D = Reach(c.codes, Refs(loaded), {})  BY <1>1 DEF KeysOf
  <2>2. c.codes \in SUBSET Blocks /\ c.codes \ {} = c.codes
        /\ \A x : Refs(loaded)[x] \ {} = Refs(loaded)[x]
    BY <1>4, <1>5
  <2>3. \A x \in Blocks : Refs(loaded)[x] = loaded[x].refs  BY <1>3, Stepping
  <2> HIDE DEF D, c
  <2>4. /\ D \subseteq Blocks /\ c.codes \subseteq D
        /\ \A x \in D : Refs(loaded)[x] \subseteq D
        /\ \A S \in SUBSET Blocks :
               c.codes \subseteq S /\ (\A x \in S : Refs(loaded)[x] \subseteq S) => D \subseteq S
    BY <1>3, <2>1, <2>2, Reaching, Stepping
  <2> QED BY <2>3, <2>4
<1> HIDE DEF c
<1>7. D \subseteq Needs(t, loaded)
  <2>1. \A x \in Needs(t, loaded) : loaded[x].refs \subseteq Needs(t, loaded)  BY <1>5 DEF Shut
  <2> QED BY <1>4, <1>5, <1>6, <2>1
<1>8. ASSUME NEW f \in RangeOf(PlanOf(t)), Built(f)
      PROVE  f \in D /\ (shared[f].untrusted => c.untrusted)
  <2>1. f \in fs /\ f \in Shared  BY <1>3, <1>8
  <2>2. f \in shared[f].codes  BY <1>8, <2>1 DEF Tracked, Noted
  <2> QED BY <1>1, <1>2, <1>6, <2>1, <2>2
<1> QED BY <1>1, <1>2, <1>6, <1>7, <1>8 DEF c

(* When all that the roots of t name does name what it starts on threads,  *)
(* the test rests on what its roots name, and on nothing else.             *)
LEMMA CalmRoots ==
    ASSUME IsTree(loaded), NEW t \in Tests, \A x \in Roots(t) : Calm(x)
    PROVE  \A y \in Needs(t, loaded) : loaded[y].threads \subseteq loaded[y].refs
<1> DEFINE S == {y \in Blocks : \E x \in Roots(t) : y \in Named(x, loaded)}
<1>1. Roots(t) \subseteq Blocks  BY Planning
<1>2. Roots(t) \subseteq S  BY <1>1, Naming
<1>3. \A y \in S : loaded[y].threads \subseteq loaded[y].refs  BY DEF Calm
<1>4. ASSUME NEW y \in S PROVE loaded[y].refs \cup loaded[y].threads \subseteq S
  <2>1. PICK x \in Roots(t) : y \in Named(x, loaded)  OBVIOUS
  <2>2. loaded[y].refs \subseteq Named(x, loaded) /\ Named(x, loaded) \subseteq Blocks
    BY <1>1, <2>1, Naming
  <2> QED BY <1>3, <2>1, <2>2
<1>5. Shut(S, loaded)  BY <1>4 DEF Shut
<1>6. S \in SUBSET Blocks  OBVIOUS
<1> HIDE DEF S
<1>7. Needs(t, loaded) \subseteq S  BY <1>2, <1>5, <1>6, Needing
<1> QED BY <1>3, <1>7

(* Shut means the same in two texts that agree.                            *)
LEMMA Agreeing ==
    ASSUME NEW S, NEW one, NEW two, \A x \in S : one[x] = two[x]
    PROVE  Shut(S, one) <=> Shut(S, two)
BY DEF Shut

(* A fixture that fails keeps the record of its test from matching a tree  *)
(* on which the test would pass.                                           *)
LEMMA Breaking ==
    ASSUME Tracked, NEW t \in Tests, NEW D \in SUBSET Blocks, NEW deps,
           DOMAIN deps = D, \A x \in D : deps[x] = loaded[x],
           NEW f \in RangeOf(PlanOf(t)), f \in D, Fails(f)
    PROVE  Broken(t, deps)
<1> SUFFICES ASSUME NEW S \in SUBSET D, f \in S, Shut(S, deps)
             PROVE  \E y \in S : ~deps[y].ok
  BY DEF Broken
<1>1. Shut(S, loaded)  BY Agreeing
<1>2. Reach({f}, Ran(loaded), {}) \subseteq S
  <2>1. S \in SUBSET Blocks /\ f \in Blocks  OBVIOUS
  <2> QED BY <1>1, <2>1, Started DEF Tracked
<1>3. PICK y \in Reach({f}, Ran(loaded), {}) : ~loaded[y].ok  BY DEF Fails
<1> QED BY <1>2, <1>3

LEMMA Recording ==
    ASSUME IInv, phase = "running", NEW t \in Tests, outcome[t] \in {"passed", "failed"}
    PROVE  Faithful(t, Recorded(t), Witnessed(t))
<1> DEFINE r == Recorded(t)
           w == Witnessed(t)
           D == KeysOf(Merged(t))
           N == Needs(t, loaded)
<1>1. Tracked  BY DEF IInv
<1>2. /\ r.deps = [x \in D |-> world[x]] /\ w.ran = [x \in N |-> loaded[x]]
      /\ (r.passed <=> outcome[t] = "passed") /\ (w.passed <=> outcome[t] = "passed")
      /\ (r.untrusted <=> Merged(t).untrusted) /\ (w.trusted <=> ~Merged(t).untrusted)
      /\ (w.still <=> world = loaded)
      /\ (w.whole <=> \A f \in RangeOf(PlanOf(t)) : Built(f) => f \in finished)
  BY DEF Recorded, Witnessed, Built
<1>3. (r.passed <=> w.passed) /\ (r.untrusted <=> ~w.trusted)  BY <1>2
<1> SUFFICES ASSUME w.still, w.whole
             PROVE  /\ DOMAIN w.ran \subseteq Blocks /\ Roots(t) \subseteq DOMAIN w.ran
                    /\ w.ran = [x \in DOMAIN w.ran |-> w.ran[x]]
                    /\ Shut(DOMAIN w.ran, w.ran)
                    /\ \A S \in SUBSET DOMAIN w.ran :
                           Roots(t) \subseteq S /\ Shut(S, w.ran) => DOMAIN w.ran \subseteq S
                    /\ DOMAIN r.deps \subseteq DOMAIN w.ran
                    /\ \A x \in DOMAIN r.deps :
                           r.deps[x] = w.ran[x] /\ r.deps[x].refs \subseteq DOMAIN r.deps
                    /\ Roots(t) \subseteq DOMAIN r.deps \/ Broken(t, r.deps)
                    /\ w.passed => Roots(t) \subseteq DOMAIN r.deps
                                   /\ \A x \in DOMAIN w.ran : w.ran[x].ok
                    /\ w.passed /\ w.trusted => \A x \in DOMAIN w.ran : w.ran[x].threads \subseteq w.ran[x].refs
  BY <1>3 DEF Faithful
<1>4. /\ world = loaded /\ IsTree(loaded)
      /\ \A f \in RangeOf(PlanOf(t)) : Built(f) => f \in finished
  BY <1>1, <1>2 DEF Tracked
<1>5. /\ D \subseteq N /\ \A x \in D : loaded[x].refs \subseteq D
      /\ own[t].codes \subseteq D
      /\ \A f \in RangeOf(PlanOf(t)) : Built(f) => f \in D
      /\ \A f \in RangeOf(PlanOf(t)) : Built(f) /\ shared[f].untrusted => Merged(t).untrusted
      /\ own[t].untrusted => Merged(t).untrusted
  BY <1>1, <1>4, Depending
<1>6. /\ N \subseteq Blocks /\ Roots(t) \subseteq N /\ Shut(N, loaded)
      /\ \A S \in SUBSET Blocks : Roots(t) \subseteq S /\ Shut(S, loaded) => N \subseteq S
  BY <1>4, Needing
<1>7. /\ DOMAIN w.ran = N /\ \A x \in N : w.ran[x] = loaded[x]
      /\ DOMAIN r.deps = D /\ \A x \in D : r.deps[x] = loaded[x]
  BY <1>2, <1>4
<1>8. RangeOf(PlanOf(t)) \subseteq Shared  BY Planning
<1>9. w.ran = [x \in DOMAIN w.ran |-> w.ran[x]]  BY <1>2, <1>7
<1> HIDE DEF r, w, D, N
<1>10. Shut(N, w.ran) /\ \A S \in SUBSET N : Shut(S, w.ran) <=> Shut(S, loaded)
  BY <1>6, <1>7, Agreeing
<1>11. \A S \in SUBSET N : Roots(t) \subseteq S /\ Shut(S, w.ran) => N \subseteq S
  BY <1>6, <1>10
<1>12. Complete(t) => Roots(t) \subseteq D
  BY <1>5 DEF Complete, Noted, Roots
<1>13. SetupFailed(t) => Broken(t, r.deps)
  <2>1. ASSUME NEW f \in RangeOf(PlanOf(t)), Built(f), Fails(f) PROVE Broken(t, r.deps)
    <3>1. f \in D /\ D \in SUBSET Blocks  BY <1>5, <1>6, <2>1
    <3> QED BY <1>1, <1>7, <2>1, <3>1, Breaking
  <2> QED BY <2>1 DEF SetupFailed
<1>14. Roots(t) \subseteq D \/ Broken(t, r.deps)
  BY <1>1, <1>12, <1>13 DEF Tracked
<1>15. ASSUME w.passed PROVE Complete(t) /\ Roots(t) \subseteq D /\ \A x \in N : loaded[x].ok
  <2>1. Complete(t) /\ CodePasses(t, loaded)  BY <1>1, <1>2, <1>15 DEF Tracked
  <2> QED BY <1>12, <2>1 DEF CodePasses, N
<1>16. ASSUME w.passed, w.trusted PROVE \A x \in N : loaded[x].threads \subseteq loaded[x].refs
  <2>1. Complete(t) /\ ~Merged(t).untrusted  BY <1>2, <1>15, <1>16
  <2>2. Calm(t)  BY <1>5, <2>1 DEF Complete, Noted
  <2>3. \A f \in RangeOf(PlanOf(t)) : Calm(f)
    BY <1>1, <1>5, <1>8, <2>1 DEF Complete, Tracked, Noted
  <2>4. \A x \in Roots(t) : Calm(x)  BY <2>2, <2>3 DEF Roots
  <2> QED BY <1>4, <2>4, CalmRoots DEF N
<1>17. w.passed => \A x \in N : w.ran[x].ok  BY <1>7, <1>15
<1>18. w.passed /\ w.trusted => \A x \in N : w.ran[x].threads \subseteq w.ran[x].refs  BY <1>7, <1>16
<1>19. \A x \in D : r.deps[x] = w.ran[x] /\ r.deps[x].refs \subseteq D  BY <1>5, <1>7
<1> QED BY <1>5, <1>6, <1>7, <1>9, <1>10, <1>11, <1>14, <1>15, <1>17, <1>18, <1>19

----------------------------------------------------------------------------
(* The invariant is one.                                                   *)

(* What is put before the records kept, and what falls off behind.         *)
LEMMA Pushing ==
    ASSUME NEW s, Kept(s), NEW e, NEW n \in 1..(Len(s) + 1)
    PROVE  LET p == SubSeq(<<e>> \o s, 1, n)
           IN  /\ Kept(p) /\ Len(p) = n /\ p[1] = e
               /\ \A i \in 2..n : p[i] = s[i - 1]
<1> DEFINE U == RangeOf(s) \cup {e}
           q == <<e>> \o s
           p == SubSeq(q, 1, n)
<1>1. s \in Seq(RangeOf(s)) /\ Len(s) \in Nat  BY LenProperties DEF Kept
<1>2. s \in Seq(U)
  <2>1. DOMAIN s = 1..Len(s) /\ \A i \in 1..Len(s) : s[i] \in U
    BY <1>1, LenProperties, ElementOfSeq
  <2> QED BY <1>1, <2>1
<1>3. <<e>> \in Seq(U) /\ Len(<<e>>) = 1 /\ <<e>>[1] = e  OBVIOUS
<1> HIDE DEF U
<1>4. /\ q \in Seq(U) /\ Len(q) = 1 + Len(s)
      /\ \A i \in 1..(1 + Len(s)) : q[i] = IF i <= 1 THEN <<e>>[i] ELSE s[i - 1]
  BY <1>2, <1>3, ConcatProperties
<1>5. \A i \in 1..n : q[i] \in U  BY <1>1, <1>4, ElementOfSeq
<1> HIDE DEF q
<1>6. p \in Seq(U) /\ Len(p) = n /\ \A i \in 1..n : p[i] = q[i]
  BY <1>5, SubSeqProperties
<1>7. p[1] = e /\ \A i \in 2..n : p[i] = s[i - 1]
  BY <1>1, <1>3, <1>4, <1>6
<1> HIDE DEF p
<1>8. p \in Seq(RangeOf(p))
  <2>1. DOMAIN p = 1..n  BY <1>6, LenProperties
  <2>2. \A i \in 1..n : p[i] \in RangeOf(p)  BY <2>1 DEF RangeOf
  <2>3. n \in Nat  OBVIOUS
  <2>4. p = [i \in 1..n |-> p[i]]  BY <1>6, <2>1
  <2> QED BY <2>2, <2>3, <2>4
<1> QED BY <1>6, <1>7, <1>8 DEF Kept, p, q

LEMMA IInvRecord == ASSUME IInv, Record PROVE IInv'
<1> DEFINE told == {t \in Tests : outcome[t] \in {"passed", "failed"}}
<1>1. /\ phase = "running" /\ RunOver /\ tree' = tree
      /\ store' = [t \in Tests |-> IF t \in told THEN Pruned(<<Recorded(t)>> \o store[t])
                                   ELSE store[t]]
      /\ past' = [t \in Tests |->
            IF t \in told THEN LET s == <<Witnessed(t)>> \o past[t]
                               IN  SubSeq(s, 1, Min({Len(s), Records}))
            ELSE past[t]]
  BY DEF Record, AllDone
<1>2. ASSUME NEW t \in Tests PROVE Remembered(t)'
  <2>1. Remembered(t)  BY DEF IInv
  <2>2. CASE t \notin told
    BY <1>1, <2>1, <2>2 DEF Remembered
  <2>3. CASE t \in told
    <3> DEFINE k == Len(past[t])
               n == IF k + 1 > Records THEN Records ELSE k + 1
               r == Recorded(t)
               w == Witnessed(t)
    <3>1. /\ Kept(store[t]) /\ Kept(past[t]) /\ Len(store[t]) = k /\ k \in Nat
          /\ \A i \in 1..k : Faithful(t, store[t][i], past[t][i])
      BY <2>1, LenProperties DEF Remembered, Kept
    <3>2. n \in 1..(k + 1) /\ Records \in Nat  BY <3>1, AffectedAssumption
    <3>3. Faithful(t, r, w)  BY <1>1, <2>3, Recording
    <3>4. \A s, e : Kept(s) => Len(<<e>> \o s) = Len(s) + 1
      <4> SUFFICES ASSUME NEW s, NEW e, Kept(s) PROVE Len(<<e>> \o s) = Len(s) + 1
        OBVIOUS
      <4>1. Len(s) \in Nat  BY LenProperties DEF Kept
      <4>2. SubSeq(<<e>> \o s, 1, Len(s) + 1)[1] = e  BY <4>1, Pushing
      <4> DEFINE U == RangeOf(s) \cup {e}
      <4>3. s \in Seq(U)
        <5>1. DOMAIN s = 1..Len(s) /\ \A i \in 1..Len(s) : s[i] \in U
          BY LenProperties, ElementOfSeq DEF Kept
        <5> QED BY <4>1, <5>1 DEF Kept
      <4>4. <<e>> \in Seq(U) /\ Len(<<e>>) = 1  OBVIOUS
      <4> QED BY <4>1, <4>3, <4>4, ConcatProperties
    <3>5. store'[t] = SubSeq(<<r>> \o store[t], 1, n)
      BY <1>1, <2>3, <3>1, <3>4 DEF Pruned
    <3>6. past'[t] = SubSeq(<<w>> \o past[t], 1, n)
      <4>1. Len(<<w>> \o past[t]) = k + 1  BY <3>1, <3>4
      <4>2. Min({k + 1, Records}) = n
        <5>1. {k + 1, Records} \in SUBSET Nat /\ {k + 1, Records} # {}  BY <3>1, <3>2
        <5>2. /\ Min({k + 1, Records}) \in {k + 1, Records}
              /\ \A i \in {k + 1, Records} : Min({k + 1, Records}) <= i
          BY <5>1, Least
        <5> QED BY <3>1, <3>2, <5>2
      <4> QED BY <1>1, <2>3, <4>1, <4>2
    <3>7. /\ Kept(store'[t]) /\ Len(store'[t]) = n /\ store'[t][1] = r
          /\ \A i \in 2..n : store'[t][i] = store[t][i - 1]
      BY <3>1, <3>2, <3>5, Pushing
    <3>8. /\ Kept(past'[t]) /\ Len(past'[t]) = n /\ past'[t][1] = w
          /\ \A i \in 2..n : past'[t][i] = past[t][i - 1]
      BY <3>1, <3>2, <3>6, Pushing
    <3>9. ASSUME NEW i \in 1..n PROVE Faithful(t, store'[t][i], past'[t][i])
      <4>1. CASE i = 1
        BY <3>3, <3>7, <3>8, <4>1
      <4>2. CASE i # 1
        <5>1. i \in 2..n /\ i - 1 \in 1..k  BY <3>1, <3>2, <4>2
        <5> QED BY <3>1, <3>7, <3>8, <5>1
      <4> QED BY <4>1, <4>2
    <3> HIDE DEF n, r, w
    <3>10. Kept(store[t])' /\ Kept(past[t])' /\ Len(store'[t]) = Len(past'[t])
      BY <3>7, <3>8 DEF Kept, RangeOf
    <3>11. \A i \in 1..Len(past'[t]) : Faithful(t, store[t][i], past[t][i])'
      BY <3>8, <3>9 DEF Faithful, Roots, Broken, Shut
    <3> QED BY <3>10, <3>11 DEF Remembered
  <2> QED BY <2>2, <2>3
<1>3. Untouched' /\ phase' = "idle"  BY <1>1 DEF RunOver, Untouched
<1>4. /\ own' = [t \in Tests |-> own'[t]] /\ shared' = [f \in Shared |-> shared'[f]]
      /\ outcome' = [t \in Tests |-> outcome'[t]]
  BY <1>3 DEF Untouched
<1>5. store' = [t \in Tests |-> store'[t]] /\ past' = [t \in Tests |-> past'[t]]  BY <1>1
<1>6. IsTree(tree)'  BY <1>1 DEF IInv
<1> QED BY <1>2, <1>3, <1>4, <1>5, <1>6 DEF IInv

LEMMA IInvInit == ASSUME Init PROVE IInv
<1>1. IsTree(tree) /\ phase = "idle"  BY AffectedAssumption DEF Init
<1>2. Untouched  BY DEF Init, Untouched
<1>3. ASSUME NEW t \in Tests PROVE Remembered(t)
  <2>1. store[t] = <<>> /\ past[t] = <<>>  BY DEF Init
  <2>2. Len(<<>>) = 0 /\ <<>> \in Seq(RangeOf(<<>>))  BY EmptySeq
  <2> QED BY <2>1, <2>2 DEF Remembered, Kept
<1>4. /\ own = [t \in Tests |-> own[t]] /\ shared = [f \in Shared |-> shared[f]]
      /\ outcome = [t \in Tests |-> outcome[t]]
      /\ store = [t \in Tests |-> store[t]] /\ past = [t \in Tests |-> past[t]]
  BY DEF Init
<1> QED BY <1>1, <1>2, <1>3, <1>4 DEF IInv

(* The steps that leave the records alone.                                 *)
LEMMA Unrecorded ==
    ASSUME IInv, UNCHANGED <<store, past>>
    PROVE  /\ store' = [t \in Tests |-> store'[t]] /\ past' = [t \in Tests |-> past'[t]]
           /\ \A t \in Tests : Remembered(t)'
<1>1. \A t \in Tests : Remembered(t)' <=> Remembered(t)
  BY DEF Remembered
<1> QED BY <1>1 DEF IInv

LEMMA IInvRun ==
    ASSUME IInv,
           \/ Stop \/ Close \/ Abandon
           \/ \E t \in Tests : Start(t) \/ Build(t) \/ Call(t) \/ Finish(t) \/ Cancelled(t)
    PROVE  IInv'
<1>1. UNCHANGED <<tree, phase, store, past>>
  BY DEF Stop, Close, Abandon, Start, Build, Call, Finish, Cancelled
<1>2. CASE phase = "running"
  <2>1. Tracked'
    BY <1>2, TrackedBuild, TrackedCall, TrackedRest
  <2>2. /\ own' = [t \in Tests |-> own'[t]] /\ shared' = [f \in Shared |-> shared'[f]]
        /\ outcome' = [t \in Tests |-> outcome'[t]]
    <3>1. \A x : Distrusting(x) = [t \in Tests |-> Distrusting(x)[t]]
      BY <1>2, DistrustingAll DEF IInv, Tracked
    <3>2. own' = [t \in Tests |-> own'[t]]
      <4>1. CASE own' = own
        BY <4>1 DEF IInv
      <4>2. ASSUME NEW t \in Tests, Build(t) PROVE own' = [u \in Tests |-> own'[u]]
        BY <3>1, <4>2 DEF Build
      <4>3. ASSUME NEW t \in Tests, Call(t) PROVE own' = [u \in Tests |-> own'[u]]
        <5>1. CASE own' = [Distrusting(t) EXCEPT ![t] = Noting(@, t)]
          BY <3>1, <5>1
        <5> QED BY <4>1, <4>3, <5>1 DEF Call
      <4> QED BY <4>1, <4>2, <4>3 DEF Stop, Close, Abandon, Start, Finish, Cancelled
    <3>3. shared' = [f \in Shared |-> shared'[f]]
      BY DEF IInv, Stop, Close, Abandon, Start, Build, Call, Finish, Cancelled
    <3>4. outcome' = [t \in Tests |-> outcome'[t]]
      BY DEF IInv, Stop, Close, Abandon, Start, Build, Call, Finish, Cancelled
    <3> QED BY <3>2, <3>3, <3>4
  <2>3. IsTree(tree)' /\ phase' = "running"  BY <1>1, <1>2 DEF IInv
  <2> QED BY <1>1, <2>1, <2>2, <2>3, Unrecorded DEF IInv
<1>3. CASE phase # "running"
  <2>1. \A t \in Tests : at[t] \in {"out", "waiting"}
    BY <1>3 DEF IInv, Untouched
  <2> QED BY <1>3, <2>1 DEF Stop, Close, Abandon, AllDone, Start, Build, Call, Finish, Cancelled
<1> QED BY <1>2, <1>3

LEMMA IInvBegins ==
    ASSUME IInv, Begin \/ Collect \/ Abort \/ Edit \/ NewTest
    PROVE  IInv'
<1>1. UNCHANGED <<store, past>>  BY DEF Begin, Collect, Abort, Edit, NewTest
<1>2. IsTree(tree)'
  <2>1. CASE Edit
    <3>1. PICK x \in Things : \E text \in Texts(x) \ {tree[x]} : tree' = [tree EXCEPT ![x] = text]
      BY <2>1 DEF Edit
    <3>2. PICK text \in Texts(x) : tree' = [tree EXCEPT ![x] = text]  BY <3>1
    <3>3. tree' = [y \in Things |-> IF y = x THEN text ELSE tree[y]]
      BY <3>2 DEF IInv, IsTree
    <3> QED BY <3>2, <3>3 DEF IInv, IsTree
  <2> QED BY <2>1 DEF IInv, IsTree, Begin, Collect, Abort, NewTest
<1>3. CASE Begin
  <2>1. /\ phase = "idle" /\ phase' = "begun" /\ world' = tree
        /\ UNCHANGED <<open, memo, own, shared, outcome>>
        /\ \A t \in Tests : at'[t] \in {"out", "waiting"}
    BY <1>3 DEF Begin
  <2>2. Untouched' /\ IsTree(world)'
    BY <2>1 DEF IInv, Untouched, IsTree
  <2> QED BY <1>1, <1>2, <2>1, <2>2, Unrecorded DEF IInv
<1>4. CASE Collect
  <2>1. /\ phase = "begun" /\ phase' = "running" /\ loaded' = tree /\ world' = world
        /\ UNCHANGED <<open, memo, own, shared, outcome>>
    BY <1>4 DEF Collect
  <2>2. /\ open = <<>> /\ memo = {}
        /\ \A t \in Tests : own[t] = Nobody /\ outcome[t] = "none"
        /\ \A f \in Shared : shared[f] = Nobody
    BY <2>1 DEF IInv, Untouched
  <2>3. IsCollector(Nobody) /\ Nobody.codes = {}  BY DEF IsCollector, Nobody
  <2>4. IsTree(world)' /\ IsTree(loaded)'  BY <2>1 DEF IInv, IsTree
  <2>5. RangeOf(<<>>) = {} /\ <<>> \in Seq(Shared)  BY EmptySeq DEF RangeOf
  <2>6. Tracked'
    BY <2>1, <2>2, <2>3, <2>4, <2>5 DEF Tracked, Built, RangeOf
  <2> QED BY <1>1, <1>2, <2>1, <2>6, Unrecorded DEF IInv
<1>5. CASE Abort
  <2>1. Untouched' /\ phase' = "idle"  BY <1>5 DEF Abort, RunOver, Untouched
  <2>2. /\ own' = [t \in Tests |-> own'[t]] /\ shared' = [f \in Shared |-> shared'[f]]
        /\ outcome' = [t \in Tests |-> outcome'[t]]
    BY <2>1 DEF Untouched
  <2> QED BY <1>1, <1>2, <2>1, <2>2, Unrecorded DEF IInv
<1>6. CASE Edit \/ NewTest
  <2>1. phase \in {"idle", "begun"} /\ UNCHANGED <<phase, runVars>>
    BY <1>6 DEF Edit, NewTest
  <2>2. Untouched' /\ (phase' = "begun" => IsTree(world)')
    BY <2>1 DEF IInv, Untouched, IsTree, runVars
  <2> QED BY <1>1, <1>2, <2>1, <2>2, Unrecorded DEF IInv, runVars
<1> QED BY <1>3, <1>4, <1>5, <1>6

(* In every reachable state, what a run holds of its tests and fixtures,   *)
(* and what the store holds of earlier runs, is what the tree they ran on  *)
(* implies.                                                                *)
THEOREM Invariance == Spec => []IInv
<1>1. IInv /\ [Next]_vars => IInv'
  <2> SUFFICES ASSUME IInv, [Next]_vars PROVE IInv'
    OBVIOUS
  <2>1. CASE UNCHANGED vars
    <3>1. UNCHANGED <<tree, store, past, phase, world, loaded, own, shared, outcome, open, memo,
                      finished, at>>
      BY <2>1 DEF vars, runVars
    <3>2. CASE phase = "running"
      <4>1. \A f : Built(f)' <=> Built(f)  BY <3>1 DEF Built
      <4>2. \A c, x : Noted(c, x)' <=> Noted(c, x)  BY <3>1, Loaded
      <4>3. \A t : Complete(t)' <=> Complete(t)
        BY <3>1 DEF Complete, Noted, Calm, Built
      <4>4. \A t : SetupFailed(t)' <=> SetupFailed(t)
        BY <3>1 DEF SetupFailed, Fails, Built
      <4>5. Tracked'
        BY <3>1, <3>2, <4>1, <4>3, <4>4 DEF IInv, Tracked, Noted, Calm, IsTree
      <4> QED BY <3>1, <3>2, <4>5, Unrecorded DEF IInv, IsTree
    <3>3. CASE phase # "running"
      BY <3>1, <3>3, Unrecorded DEF IInv, IsTree, Untouched
    <3> QED BY <3>2, <3>3
  <2> QED BY <2>1, IInvRecord, IInvRun, IInvBegins DEF Next
<1> QED BY <1>1, IInvInit, PTL DEF Spec

----------------------------------------------------------------------------
(* What the records tell of the tree as it stands.                         *)

(* A run on texts that are the tree's was on what its test rests on now.   *)
LEMMA SameNeeds ==
    ASSUME IsTree(tree), NEW t \in Tests, NEW r, NEW w, Faithful(t, r, w), w.still, w.whole,
           \A x \in DOMAIN w.ran : tree[x] = w.ran[x]
    PROVE  w.ran = Now(t)
<1> DEFINE N == DOMAIN w.ran
<1>1. /\ N \subseteq Blocks /\ Roots(t) \subseteq N /\ Shut(N, w.ran)
      /\ \A S \in SUBSET N : Roots(t) \subseteq S /\ Shut(S, w.ran) => N \subseteq S
      /\ w.ran = [x \in N |-> w.ran[x]]
  BY DEF Faithful
<1>2. \A S \in SUBSET N : Shut(S, tree) <=> Shut(S, w.ran)  BY Agreeing
<1>3. Needs(t, tree) \subseteq N  BY <1>1, <1>2, Needing
<1>4. N \subseteq Needs(t, tree)
  <2>1. Roots(t) \subseteq Needs(t, tree) /\ Shut(Needs(t, tree), tree)  BY Needing
  <2> QED BY <1>1, <1>2, <1>3, <2>1
<1> HIDE DEF N
<1>5. N = Needs(t, tree)  BY <1>3, <1>4
<1> QED BY <1>1, <1>5 DEF Now, N

(* What was recorded of such a run matches.                                *)
LEMMA Matching ==
    ASSUME NEW t \in Tests, NEW r, NEW w, Faithful(t, r, w), w.still, w.whole, w.ran = Now(t)
    PROVE  Matches(r, tree)
<1>1. \A x \in DOMAIN r.deps : x \in DOMAIN w.ran /\ r.deps[x] = w.ran[x]  BY DEF Faithful
<1>2. \A x \in DOMAIN w.ran : w.ran[x] = tree[x]  BY DEF Now
<1> QED BY <1>1, <1>2 DEF Matches

(* And a trusted pass that matches was such a run, all of it well.         *)
LEMMA Passing ==
    ASSUME IsTree(tree), NEW t \in Tests, NEW r, NEW w, Faithful(t, r, w), w.still, w.whole,
           r.passed, ~r.untrusted, Matches(r, tree)
    PROVE  w.ran = Now(t) /\ CodePasses(t, tree)
<1> DEFINE N == DOMAIN w.ran
           D == DOMAIN r.deps
<1>1. /\ D \subseteq N /\ Roots(t) \subseteq D
      /\ \A x \in D : r.deps[x] = w.ran[x] /\ r.deps[x].refs \subseteq D
      /\ \A x \in N : w.ran[x].ok /\ w.ran[x].threads \subseteq w.ran[x].refs
      /\ \A S \in SUBSET N : Roots(t) \subseteq S /\ Shut(S, w.ran) => N \subseteq S
  BY DEF Faithful
<1>2. Shut(D, w.ran)  BY <1>1 DEF Shut
<1>3. N = D  BY <1>1, <1>2
<1>4. \A x \in N : tree[x] = w.ran[x]  BY <1>1, <1>3 DEF Matches
<1>5. w.ran = Now(t)  BY <1>4, SameNeeds
<1>6. Needs(t, tree) = N  BY <1>5 DEF Now
<1> QED BY <1>1, <1>4, <1>5, <1>6 DEF CodePasses

(* A record that matches where a trusted pass was on this very code was on *)
(* this very code as well: what it may lack of its own test is what a      *)
(* thread ran unnamed or what a fixture failed before: there is neither.   *)
LEMMA Returning ==
    ASSUME IsTree(tree), NEW t \in Tests,
           NEW r, NEW w, Faithful(t, r, w), w.still, w.whole, w.ran = Now(t),
           w.passed, w.trusted,
           NEW s, NEW v, Faithful(t, s, v), v.still, v.whole, Matches(s, tree)
    PROVE  v.ran = Now(t)
<1> DEFINE D == DOMAIN s.deps
           N == Needs(t, tree)
           S == N \cap D
<1>1. /\ \A x \in N : tree[x].ok /\ tree[x].threads \subseteq tree[x].refs
      /\ Roots(t) \subseteq N /\ Shut(N, tree)
  <2>1. DOMAIN w.ran = N /\ \A x \in N : w.ran[x] = tree[x]  BY DEF Now
  <2>2. \A x \in DOMAIN w.ran : w.ran[x].ok /\ w.ran[x].threads \subseteq w.ran[x].refs  BY DEF Faithful
  <2> QED BY <2>1, <2>2, Needing
<1>2. /\ D \subseteq DOMAIN v.ran
      /\ \A x \in D : s.deps[x] = v.ran[x] /\ s.deps[x].refs \subseteq D
      /\ Roots(t) \subseteq D \/ Broken(t, s.deps)
      /\ \A R \in SUBSET DOMAIN v.ran :
             Roots(t) \subseteq R /\ Shut(R, v.ran) => DOMAIN v.ran \subseteq R
  BY DEF Faithful
<1>3. \A x \in D : tree[x] = s.deps[x]  BY DEF Matches
<1>4. \A x \in S : tree[x].refs \cup tree[x].threads \subseteq S
  BY <1>1, <1>2, <1>3 DEF Shut
<1>5. Shut(S, s.deps) /\ Shut(S, v.ran)
  BY <1>2, <1>3, <1>4 DEF Shut
<1>6. ~Broken(t, s.deps)
  <2> SUFFICES ASSUME NEW f \in RangeOf(PlanOf(t)) \cap D,
                      \A R \in SUBSET D : f \in R /\ Shut(R, s.deps) => \E y \in R : ~s.deps[y].ok
               PROVE  FALSE
    BY DEF Broken
  <2>1. f \in S /\ S \in SUBSET D  BY <1>1 DEF Roots
  <2> HIDE DEF S
  <2>2. PICK y \in S : ~s.deps[y].ok  BY <1>5, <2>1
  <2> QED BY <1>1, <1>3, <2>2 DEF S
<1>7. Roots(t) \subseteq S  BY <1>1, <1>2, <1>6
<1>8. DOMAIN v.ran \subseteq S  BY <1>2, <1>5, <1>7
<1>9. \A x \in DOMAIN v.ran : tree[x] = v.ran[x]  BY <1>2, <1>3, <1>8
<1> QED BY <1>9, SameNeeds

(* The records of a test that Sound lets the properties speak of.          *)
LEMMA Sounding ==
    ASSUME IInv, NEW t \in Tests, Sound(t)
    PROVE  /\ DOMAIN store[t] = 1..Len(past[t]) /\ DOMAIN past[t] = 1..Len(past[t])
           /\ Len(past[t]) \in Nat
           /\ \A i \in 1..Len(past[t]) : /\ Faithful(t, store[t][i], past[t][i])
                                         /\ past[t][i].still /\ past[t][i].whole
           /\ OnThis(t) # {} => /\ Min(OnThis(t)) \in 1..Len(past[t])
                                /\ past[t][Min(OnThis(t))].ran = Now(t)
                                /\ \A i \in 1..Len(past[t]) :
                                       past[t][i].ran = Now(t) => Min(OnThis(t)) <= i
           /\ IsTree(tree)
<1>1. /\ DOMAIN store[t] = 1..Len(past[t]) /\ DOMAIN past[t] = 1..Len(past[t])
      /\ Len(past[t]) \in Nat
  BY LenProperties DEF IInv, Remembered, Kept
<1>2. \A i \in 1..Len(past[t]) : /\ Faithful(t, store[t][i], past[t][i])
                                 /\ past[t][i].still /\ past[t][i].whole
  BY <1>1 DEF IInv, Remembered, Sound
<1>3. ASSUME OnThis(t) # {}
      PROVE  /\ Min(OnThis(t)) \in 1..Len(past[t])
             /\ past[t][Min(OnThis(t))].ran = Now(t)
             /\ \A i \in 1..Len(past[t]) : past[t][i].ran = Now(t) => Min(OnThis(t)) <= i
  <2>1. OnThis(t) \in SUBSET Nat  BY <1>1 DEF OnThis
  <2>2. Min(OnThis(t)) \in OnThis(t) /\ \A i \in OnThis(t) : Min(OnThis(t)) <= i
    BY <1>3, <2>1, Least
  <2> QED BY <1>1, <2>2 DEF OnThis
<1> QED BY <1>1, <1>2, <1>3 DEF IInv

----------------------------------------------------------------------------
(* The theorems.                                                           *)

(* A test that is skipped would have passed.                               *)
THEOREM SkipsAreSafe == Spec => []SkippedWouldPass
<1>1. IInv => SkippedWouldPass
  <2> SUFFICES ASSUME IInv, NEW t \in Tests, Sound(t), Skips(t, tree) PROVE CodePasses(t, tree)
    BY DEF SkippedWouldPass
  <2>1. PICK i \in DOMAIN store[t] :
          Matches(store[t][i], tree) /\ store[t][i].passed /\ ~store[t][i].untrusted
    BY DEF Skips
  <2>2. /\ Faithful(t, store[t][i], past[t][i]) /\ past[t][i].still /\ past[t][i].whole
        /\ IsTree(tree)
    BY <2>1, Sounding
  <2> QED BY <2>1, <2>2, Passing
<1> QED BY <1>1, Invariance, PTL

(* A test that last failed on this code, or could not be trusted, runs.    *)
THEOREM FailuresRun == Spec => []FailureRunsAgain
<1>1. IInv => FailureRunsAgain
  <2> SUFFICES ASSUME IInv, NEW t \in Tests, Sound(t), OnThis(t) # {}, Skips(t, tree)
               PROVE  past[t][Min(OnThis(t))].passed /\ past[t][Min(OnThis(t))].trusted
    BY DEF FailureRunsAgain
  <2> DEFINE m == Min(OnThis(t))
  <2>1. PICK i \in DOMAIN store[t] :
          /\ Matches(store[t][i], tree)
          /\ \A j \in 1..(i - 1) : ~Matches(store[t][j], tree)
          /\ store[t][i].passed /\ ~store[t][i].untrusted
    BY DEF Skips
  <2>2. /\ i \in 1..Len(past[t]) /\ Len(past[t]) \in Nat /\ m \in 1..Len(past[t])
        /\ past[t][m].ran = Now(t)
        /\ \A j \in 1..Len(past[t]) : past[t][j].ran = Now(t) => m <= j
        /\ \A j \in 1..Len(past[t]) : /\ Faithful(t, store[t][j], past[t][j])
                                      /\ past[t][j].still /\ past[t][j].whole
        /\ IsTree(tree)
    BY <2>1, Sounding
  <2> HIDE DEF m
  <2>3. past[t][i].ran = Now(t)  BY <2>1, <2>2, Passing
  <2>4. Matches(store[t][m], tree)  BY <2>2, Matching
  <2>5. m = i
    <3>1. m <= i  BY <2>2, <2>3
    <3>2. m \notin 1..(i - 1)  BY <2>1, <2>4
    <3> QED BY <2>2, <3>1, <3>2
  <2>6. past[t][i].passed /\ past[t][i].trusted  BY <2>1, <2>2 DEF Faithful
  <2> QED BY <2>5, <2>6 DEF m
<1> QED BY <1>1, Invariance, PTL

(* And a trusted pass on it still counts, whatever else was run since.     *)
THEOREM BranchesAreRemembered == Spec => []BranchesRemembered
<1>1. IInv => BranchesRemembered
  <2> SUFFICES ASSUME IInv, NEW t \in Tests, Sound(t), OnThis(t) # {},
                      past[t][Min(OnThis(t))].passed, past[t][Min(OnThis(t))].trusted
               PROVE  Skips(t, tree)
    BY DEF BranchesRemembered
  <2> DEFINE m == Min(OnThis(t))
  <2>1. /\ m \in DOMAIN store[t] /\ m \in 1..Len(past[t]) /\ Len(past[t]) \in Nat
        /\ past[t][m].ran = Now(t)
        /\ \A j \in 1..Len(past[t]) : past[t][j].ran = Now(t) => m <= j
        /\ \A j \in 1..Len(past[t]) : /\ Faithful(t, store[t][j], past[t][j])
                                      /\ past[t][j].still /\ past[t][j].whole
        /\ IsTree(tree)
    BY Sounding
  <2>2. past[t][m].passed /\ past[t][m].trusted  OBVIOUS
  <2> HIDE DEF m
  <2>3. Matches(store[t][m], tree)  BY <2>1, Matching
  <2>4. store[t][m].passed /\ ~store[t][m].untrusted  BY <2>1, <2>2 DEF Faithful
  <2>5. ASSUME NEW j \in 1..(m - 1) PROVE ~Matches(store[t][j], tree)
    <3> SUFFICES ASSUME Matches(store[t][j], tree) PROVE FALSE
      OBVIOUS
    <3>1. j \in 1..Len(past[t]) /\ ~(m <= j)  BY <2>1
    <3>2. past[t][j].ran = Now(t)  BY <2>1, <2>2, <3>1, Returning
    <3> QED BY <2>1, <3>1, <3>2
  <2> QED BY <2>1, <2>3, <2>4, <2>5 DEF Skips
<1> QED BY <1>1, Invariance, PTL

=============================================================================
