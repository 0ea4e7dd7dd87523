----------------------------- MODULE PlansProofs -----------------------------
(***************************************************************************)
(* What holds of collection for any declarations, any tests and any walk   *)
(* of plan_for over them.  While a walk is on, its calls go down the graph *)
(* to what has no step yet, its memo knows every step that is for sharing, *)
(* and no two sites hold a step that is not (Walking); once it is over,    *)
(* the records of its test are made of a finished plan (Collected).  That  *)
(* a step varies with the same ancestors in every plan (Lineage) is what   *)
(* lets the cases of two tests be compared.                                *)
(***************************************************************************)
EXTENDS Plans, FiniteSetTheorems, SequenceTheorems, NaturalsInduction,
        WellFoundedInduction, TLAPS

----------------------------------------------------------------------------
(* What the declarations give.                                             *)

Declared ==
    /\ fixtures \in Seq([scope : Scopes, deps : Seq(Nat), ids : Seq(Seq(Nat))])
    /\ Len(fixtures) <= MaxFixtures
    /\ \A f \in DOMAIN fixtures : \A i \in DOMAIN fixtures[f].deps : fixtures[f].deps[i] \in 1..(f - 1)
    /\ \A f \in DOMAIN fixtures : \A i, j \in DOMAIN fixtures[f].ids :
          fixtures[f].ids[i] = fixtures[f].ids[j] => i = j

\* The ancestors of every step for f, whatever plan it is in.
Own(f) == IF fixtures[f].ids = <<>> THEN <<>> ELSE <<f>>
Lineage(anc) ==
    /\ anc \in [DOMAIN fixtures -> Seq(Nat)]
    /\ \A f \in DOMAIN fixtures :
          anc[f] = OrderedUnion(Append([i \in DOMAIN fixtures[f].deps |-> anc[fixtures[f].deps[i]]], Own(f)))
Anc == CHOOSE anc : Lineage(anc)

----------------------------------------------------------------------------
(* What the walk keeps.                                                    *)

IsUse(u) ==
    /\ u.implicit \in Seq(1..MaxFixtures) /\ u.roots \in Seq(1..MaxFixtures) /\ AreIds(u.cases)

\* A plan so far, of which only the fixtures and the args matter.
Ordered(plan) ==
    \A i \in DOMAIN plan :
        /\ plan[i].fixture \in DOMAIN fixtures
        /\ plan[i].args \in Seq(Nat) /\ Len(plan[i].args) = Len(fixtures[plan[i].fixture].deps)
        /\ \A a \in DOMAIN plan[i].args :
              /\ plan[i].args[a] \in 1..(i - 1)
              /\ plan[plan[i].args[a]].fixture = fixtures[plan[i].fixture].deps[a]
              /\ Rank[fixtures[fixtures[plan[i].fixture].deps[a]].scope] >= Rank[fixtures[plan[i].fixture].scope]

Shared(plan) ==
    \A i, j \in DOMAIN plan : i # j /\ plan[i].fixture = plan[j].fixture => ~Shareable(plan[i].fixture)

\* What the test only uses, before the rest.
AheadFirst(plan, ahead) ==
    \A i, j \in DOMAIN plan :
        plan[i].fixture \in ahead /\ Shareable(plan[i].fixture) /\ plan[j].fixture \notin ahead => i < j

\* Two sites that were given one step, which is then for sharing.
Apart(plan, args, other) ==
    \A a \in DOMAIN args, b \in DOMAIN other : args[a] = other[b] => Shareable(plan[args[a]].fixture)
ApartWithin(plan, args) ==
    \A a, b \in DOMAIN args : a # b /\ args[a] = args[b] => Shareable(plan[args[a]].fixture)
OnePlace(plan) ==
    \A i \in DOMAIN plan :
        /\ ApartWithin(plan, plan[i].args)
        /\ \A j \in DOMAIN plan : i # j => Apart(plan, plan[i].args, plan[j].args)

Inherited(plan) == \A i \in DOMAIN plan : plan[i].ancestors = Anc[plan[i].fixture]

Planned(plan, u) ==
    /\ Ordered(plan) /\ Shared(plan) /\ AheadFirst(plan, Ahead(u)) /\ OnePlace(plan)
    /\ \A i \in DOMAIN plan : plan[i].fixture \in Needs(u)

Steps == Seq([fixture : 1..MaxFixtures, args : Seq(Nat), ancestors : Seq(Nat)])

Frames == Seq([of : 0..MaxFixtures, args : Seq(Nat)])

StepsOK(plan) == plan \in Steps /\ Planned(plan, use) /\ Inherited(plan)

\* shared is the memo of plan: every step that is for sharing, and no other.
MemoOK(plan, shared) ==
    /\ shared \in [1..MaxFixtures -> Nat]
    /\ \A f \in 1..MaxFixtures : shared[f] # 0 =>
          shared[f] \in DOMAIN plan /\ plan[shared[f]].fixture = f /\ Shareable(f)
    /\ \A i \in DOMAIN plan : Shareable(plan[i].fixture) => shared[plan[i].fixture] = i

\* The sites of f were given args so far.
Filled(plan, f, args) ==
    /\ Len(args) <= Len(SitesOf(f))
    /\ \A a \in DOMAIN args :
          /\ args[a] \in DOMAIN plan
          /\ plan[args[a]].fixture = SitesOf(f)[a]
          /\ Rank[fixtures[SitesOf(f)[a]].scope] >= Rank[ScopeOf(f)]

\* call is at a site for d.
AtSite(call, d) ==
    LET n == Len(call.args) + 1
    IN /\ n <= Len(SitesOf(call.of)) /\ SitesOf(call.of)[n] = d
       /\ Rank[fixtures[d].scope] >= Rank[ScopeOf(call.of)]

\* The calls under way go down the graph, to what has no step to share yet.
Descends(shared, calls) ==
    /\ calls[1].of = 0
    /\ \A k \in 2..Len(calls) :
          /\ calls[k].of \in 1..MaxFixtures /\ calls[k].of \in Needs(use)
          /\ Shareable(calls[k].of) => shared[calls[k].of] = 0
    /\ \A k \in 2..Len(calls) : \A l \in (k + 1)..Len(calls) : calls[l].of < calls[k].of
    /\ \A k \in 1..(Len(calls) - 1) : AtSite(calls[k], calls[k + 1].of)

CallsApart(plan, calls) ==
    \A k \in DOMAIN calls :
        /\ ApartWithin(plan, calls[k].args)
        /\ \A l \in DOMAIN calls : k # l => Apart(plan, calls[k].args, calls[l].args)
        /\ \A i \in DOMAIN plan : Apart(plan, calls[k].args, plan[i].args)

\* Until the test's own sites are walked, all is for what it only uses.
Phase(plan, calls) ==
    Len(calls[1].args) < Len(use.implicit) =>
        /\ \A k \in 2..Len(calls) : calls[k].of \in Ahead(use)
        /\ \A i \in DOMAIN plan : plan[i].fixture \in Ahead(use)

StackOK(plan, shared, calls) ==
    /\ calls \in Frames /\ calls # <<>>
    /\ Descends(shared, calls) /\ CallsApart(plan, calls) /\ Phase(plan, calls)
    /\ \A k \in DOMAIN calls : Filled(plan, calls[k].of, calls[k].args)

Walking ==
    stack # <<>> =>
        /\ Len(fixtures) = MaxFixtures /\ Len(collected) < Len(Tests)
        /\ use \in UsesOf[Tests[Len(collected) + 1]]
        /\ StepsOK(steps) /\ MemoOK(steps, memo) /\ StackOK(steps, memo, stack)

----------------------------------------------------------------------------
(* What the walks left.                                                    *)

\* A finished plan, and the steps its test's sites were given.
Finished(plan, u, at) ==
    /\ plan \in Steps /\ Planned(plan, u) /\ Inherited(plan)
    /\ at \in Seq(Nat) /\ Len(at) = Len(u.implicit) + Len(u.roots)
    /\ \A a \in DOMAIN at : at[a] \in DOMAIN plan /\ plan[at[a]].fixture = (u.implicit \o u.roots)[a]
    /\ ApartWithin(plan, at) /\ \A i \in DOMAIN plan : Apart(plan, at, plan[i].args)

Mine(k) == {r \in records : r.test = Tests[k]}

Collected ==
    /\ collected \in Seq([use : UNION {UsesOf[t] : t \in ToSet(Tests)}, ok : BOOLEAN])
    /\ Len(collected) <= Len(Tests)
    /\ collected # <<>> => Len(fixtures) = MaxFixtures
    /\ \A k \in DOMAIN collected :
          /\ collected[k].use \in UsesOf[Tests[k]]
          /\ collected[k].ok <=> Nested(collected[k].use)
          /\ collected[k].ok => \E plan, at : /\ Finished(plan, collected[k].use, at)
                                             /\ Mine(k) = RecordsOf(Tests[k], collected[k].use, plan, at)
    /\ \A r \in records : \E k \in DOMAIN collected : collected[k].ok /\ r.test = Tests[k]

IInv ==
    /\ Declared /\ (\E anc : Lineage(anc))
    /\ Walking /\ Collected

----------------------------------------------------------------------------
(* Numbers, orders and unions.                                             *)

(* A set of naturals has a least member, which Min is.                     *)
LEMMA Least ==
    ASSUME NEW S \in SUBSET Nat, S # {}
    PROVE  Min(S) \in S /\ \A n \in S : Min(S) <= n
<1>1. PICK x \in S : \A y \in S : ~(<<y, x>> \in OpToRel(<, Nat))
  BY NatLessThanWellFounded, WFMin
<1>2. \A y \in S : x <= y
  <2> SUFFICES ASSUME NEW y \in S PROVE x <= y  OBVIOUS
  <2>1. x \in Nat /\ y \in Nat  OBVIOUS
  <2>2. ~(y < x)  BY <1>1, <2>1 DEF OpToRel
  <2> QED BY <2>1, <2>2
<1> QED BY <1>2 DEF Min

(* There are n numbers up to n.                                            *)
LEMMA CountTo ==
    ASSUME NEW n \in Nat
    PROVE  IsFiniteSet(1..n) /\ Cardinality(1..n) = n
<1>1. 1 \in Int /\ n \in Int  OBVIOUS
<1>2. IsFiniteSet(1..n) /\ Cardinality(1..n) = IF 1 > n THEN 0 ELSE n - 1 + 1  BY <1>1, FS_Interval
<1> QED BY <1>2

(* No list goes on for ever.                                               *)
LEMMA FiniteMembers ==
    ASSUME NEW S, NEW s \in Seq(S)
    PROVE  IsFiniteSet(ToSet(s)) /\ Cardinality(ToSet(s)) <= Len(s) /\ ToSet(s) \subseteq S
<1>1. s \in [1..Len(s) -> S] /\ Len(s) \in Nat /\ DOMAIN s = 1..Len(s)  BY LenProperties
<1>2. s \in Surjection(1..Len(s), ToSet(s))  BY <1>1 DEF Surjection, ToSet
<1>3. IsFiniteSet(1..Len(s)) /\ Cardinality(1..Len(s)) = Len(s)  BY <1>1, CountTo
<1> QED BY <1>1, <1>2, <1>3, FS_Surjection DEF ToSet

(* Nor is a union of finitely many lists more than finite.                 *)
LEMMA FiniteUnion ==
    ASSUME NEW S, NEW lists \in Seq(Seq(S))
    PROVE  IsFiniteSet(Members(lists)) /\ Members(lists) \subseteq S
<1> DEFINE sets == [i \in 1..Len(lists) |-> ToSet(lists[i])]
           all  == {ToSet(lists[i]) : i \in DOMAIN lists}
<1>1. Len(lists) \in Nat /\ DOMAIN lists = 1..Len(lists) /\ \A i \in DOMAIN lists : lists[i] \in Seq(S)
  BY LenProperties, ElementOfSeq
<1>2. IsFiniteSet(1..Len(lists))  BY <1>1, FS_Interval
<1>3. sets \in Surjection(1..Len(lists), all)  BY <1>1 DEF Surjection
<1>4. IsFiniteSet(all)  BY <1>2, <1>3, FS_Surjection
<1>5. \A T \in all : IsFiniteSet(T) /\ T \subseteq S  BY <1>1, FiniteMembers
<1>6. IsFiniteSet(UNION all)  BY <1>4, <1>5, FS_UNION
<1> QED BY <1>5, <1>6 DEF Members

(* Of two members one is met before the other, and never each before the   *)
(* other.                                                                  *)
LEMMA BeforeTotal ==
    ASSUME NEW S, NEW lists \in Seq(Seq(S)),
           NEW x \in Members(lists), NEW y \in Members(lists), x # y
    PROVE  Before(lists, x, y) \/ Before(lists, y, x)
<1>1. Len(lists) \in Nat /\ DOMAIN lists = 1..Len(lists)  BY LenProperties
<1> DEFINE With == {i \in 1..Len(lists) : x \in ToSet(lists[i]) \/ y \in ToSet(lists[i])}
<1>2. With \in SUBSET Nat /\ With # {}  BY <1>1 DEF Members
<1>3. PICK i \in With : \A n \in With : i <= n  BY <1>2, Least
<1>4. \A j \in 1..(i - 1) : x \notin ToSet(lists[j]) /\ y \notin ToSet(lists[j])
  <2> SUFFICES ASSUME NEW j \in 1..(i - 1), j \in With PROVE FALSE  BY <1>1, <1>2, <1>3
  <2>1. i \in Nat /\ j < i  BY <1>2
  <2> QED BY <2>1, <1>3
<1>5. lists[i] \in Seq(S)  BY <1>1, ElementOfSeq
<1>6. Len(lists[i]) \in Nat /\ DOMAIN lists[i] = 1..Len(lists[i])  BY <1>5, LenProperties
<1> DEFINE At == {a \in 1..Len(lists[i]) : lists[i][a] = x \/ lists[i][a] = y}
<1>7. At \in SUBSET Nat /\ At # {}
  <2>1. x \in ToSet(lists[i]) \/ y \in ToSet(lists[i])  BY <1>3
  <2>2. \E a \in 1..Len(lists[i]) : lists[i][a] = x \/ lists[i][a] = y  BY <2>1, <1>6 DEF ToSet
  <2>3. At # {}  BY <2>2
  <2>4. At \subseteq 1..Len(lists[i])  OBVIOUS
  <2> HIDE DEF At
  <2> QED BY <2>3, <2>4, <1>6
<1>8. PICK a \in At : \A n \in At : a <= n  BY <1>7, Least
<1>9. \A b \in 1..a : b = a \/ (lists[i][b] # x /\ lists[i][b] # y)
  <2> SUFFICES ASSUME NEW b \in 1..a, b # a, b \in At PROVE FALSE  BY <1>6, <1>7
  <2>1. a \in Nat /\ b \in Nat /\ b < a  BY <1>7, <1>8
  <2>2. a <= b  BY <1>8
  <2> QED BY <2>1, <2>2
<1>10. CASE lists[i][a] = x
  <2>1. \A b \in 1..a : lists[i][b] # y  BY <1>9, <1>10
  <2> QED BY <1>1, <1>4, <1>6, <1>10, <2>1 DEF Before
<1>11. CASE lists[i][a] = y
  <2>1. \A b \in 1..a : lists[i][b] # x  BY <1>9, <1>11
  <2> QED BY <1>1, <1>4, <1>6, <1>11, <2>1 DEF Before
<1> QED BY <1>8, <1>10, <1>11

(* To be met before is a strict order.                                     *)
LEMMA BeforeOrders ==
    ASSUME NEW S, NEW lists \in Seq(Seq(S))
    PROVE  /\ \A x : ~Before(lists, x, x)
           /\ \A x, y, z : Before(lists, x, y) /\ Before(lists, y, z) => Before(lists, x, z)
<1>1. Len(lists) \in Nat /\ DOMAIN lists = 1..Len(lists)  BY LenProperties
<1>2. \A i \in DOMAIN lists : Len(lists[i]) \in Nat /\ DOMAIN lists[i] = 1..Len(lists[i])
  BY <1>1, ElementOfSeq, LenProperties
<1>3. ASSUME NEW x, Before(lists, x, x) PROVE FALSE
  <2>1. PICK i \in DOMAIN lists : \E a \in DOMAIN lists[i] : lists[i][a] = x /\ \A b \in 1..a : lists[i][b] # x
    BY <1>3 DEF Before
  <2>2. PICK a \in DOMAIN lists[i] : lists[i][a] = x /\ \A b \in 1..a : lists[i][b] # x  BY <2>1
  <2>3. a \in 1..a  BY <1>2
  <2> QED BY <2>2, <2>3
<1>4. ASSUME NEW x, NEW y, NEW z, Before(lists, x, y), Before(lists, y, z)
      PROVE  Before(lists, x, z)
  <2>1. PICK i \in DOMAIN lists : \E a \in DOMAIN lists[i] :
          lists[i][a] = x /\ (\A j \in 1..(i - 1) : y \notin ToSet(lists[j])) /\ (\A b \in 1..a : lists[i][b] # y)
    BY <1>4 DEF Before
  <2>2. PICK a \in DOMAIN lists[i] :
          lists[i][a] = x /\ (\A j \in 1..(i - 1) : y \notin ToSet(lists[j])) /\ (\A b \in 1..a : lists[i][b] # y)
    BY <2>1
  <2>3. PICK j \in DOMAIN lists : \E c \in DOMAIN lists[j] :
          lists[j][c] = y /\ (\A k \in 1..(j - 1) : z \notin ToSet(lists[k])) /\ (\A b \in 1..c : lists[j][b] # z)
    BY <1>4 DEF Before
  <2>4. PICK c \in DOMAIN lists[j] :
          lists[j][c] = y /\ (\A k \in 1..(j - 1) : z \notin ToSet(lists[k])) /\ (\A b \in 1..c : lists[j][b] # z)
    BY <2>3
  <2>5. i \in Nat /\ j \in Nat /\ a \in Nat /\ c \in Nat /\ c >= 1  BY <1>1, <1>2
  <2>6. i <= j
    <3>1. y \in ToSet(lists[j])  BY <2>4 DEF ToSet
    <3>2. ~(j \in 1..(i - 1))  BY <2>2, <3>1
    <3> QED BY <3>2, <2>5, <1>1
  <2>7. \A k \in 1..(i - 1) : z \notin ToSet(lists[k])  BY <2>4, <2>5, <2>6
  <2>8. CASE i < j
    <3>1. i \in 1..(j - 1)  BY <2>5, <2>8, <1>1
    <3> HIDE DEF Before
    <3>3. z \notin ToSet(lists[i])  BY <2>4, <3>1
    <3>2. \A b \in 1..a : lists[i][b] # z  BY <3>3, <1>2 DEF ToSet
    <3> QED BY <2>2, <2>7, <3>2 DEF Before
  <2>9. CASE i = j
    <3>1. ~(c \in 1..a)  BY <2>2, <2>4, <2>9
    <3>2. a < c  BY <3>1, <2>5
    <3>3. \A b \in 1..a : lists[i][b] # z  BY <2>4, <2>9, <3>2, <2>5
    <3> QED BY <2>2, <2>7, <3>3 DEF Before
  <2> QED BY <2>5, <2>6, <2>8, <2>9
<1> QED BY <1>3, <1>4

(* An ordered union is a sequence of the members of its lists, and of      *)
(* nothing else.                                                           *)
LEMMA OrderedUnionCovers ==
    ASSUME NEW S, NEW lists \in Seq(Seq(S))
    PROVE  OrderedUnion(lists) \in Seq(S) /\ ToSet(OrderedUnion(lists)) = Members(lists)
<1> DEFINE M        == Members(lists)
           Below(x) == {y \in M : Before(lists, y, x)}
           Place(x) == Cardinality(Below(x)) + 1
           n        == Cardinality(M)
           union    == [i \in 1..n |-> CHOOSE x \in M : Place(x) = i]
           place    == [x \in M |-> Place(x)]
<1>1. IsFiniteSet(M) /\ M \subseteq S  BY FiniteUnion
<1>2. n \in Nat  BY <1>1, FS_CardinalityType
<1>3. ASSUME NEW x \in M PROVE Place(x) \in 1..n
  <2>1. Below(x) \subseteq M \ {x}  BY BeforeOrders
  <2>2. IsFiniteSet(M \ {x}) /\ Cardinality(M \ {x}) = n - 1  BY <1>1, FS_RemoveElement
  <2>3. IsFiniteSet(Below(x)) /\ Cardinality(Below(x)) <= n - 1  BY <2>1, <2>2, FS_Subset
  <2>4. Cardinality(Below(x)) \in Nat  BY <2>3, FS_CardinalityType
  <2> QED BY <2>3, <2>4, <1>2
<1>4. ASSUME NEW x \in M, NEW y \in M, Before(lists, x, y) PROVE Place(x) # Place(y)
  <2>1. Below(x) \subseteq Below(y) /\ x \in Below(y) /\ x \notin Below(x)  BY <1>4, BeforeOrders
  <2>2. IsFiniteSet(Below(x)) /\ IsFiniteSet(Below(y))  BY <1>1, FS_Subset
  <2>3. Cardinality(Below(x)) # Cardinality(Below(y))  BY <2>1, <2>2, FS_Subset
  <2>4. Cardinality(Below(x)) \in Nat /\ Cardinality(Below(y)) \in Nat  BY <2>2, FS_CardinalityType
  <2> QED BY <2>3, <2>4
<1>5. \A x, y \in M : Place(x) = Place(y) => x = y  BY <1>4, BeforeTotal
<1>6. place \in Injection(M, 1..n)  
  <2>1. place \in [M -> 1..n]  BY <1>3
  <2>2. \A x, y \in M : place[x] = place[y] => x = y  BY <1>5
  <2> QED BY <2>1, <2>2 DEF Injection, IsInjective
<1>7. IsFiniteSet(1..n) /\ Cardinality(1..n) = n  BY <1>2, CountTo
<1>8. place \in Surjection(M, 1..n)  BY <1>6, <1>7, FS_Injection
<1>9. \A i \in 1..n : \E x \in M : Place(x) = i  BY <1>8 DEF Surjection
<1>10. \A i \in 1..n : union[i] \in M /\ Place(union[i]) = i  BY <1>9
<1>11. \A x \in M : union[Place(x)] = x  BY <1>3, <1>5, <1>10
<1>12. OrderedUnion(lists) = union  BY DEF OrderedUnion
<1>13. union \in Seq(S)
  <2>1. union \in [1..n -> S]  BY <1>1, <1>10
  <2> HIDE DEF union, n
  <2> QED BY <2>1, <1>2
<1>14. DOMAIN union = 1..n  OBVIOUS
<1>15. ToSet(union) = M  
  <2>1. ToSet(union) \subseteq M  BY <1>10, <1>14 DEF ToSet
  <2>2. M \subseteq ToSet(union)  BY <1>3, <1>11, <1>14 DEF ToSet
  <2> QED BY <2>1, <2>2
<1> QED BY <1>12, <1>13, <1>15

----------------------------------------------------------------------------
(* The ids that dedupe_case_ids gives.                                     *)

(* There is a free number for every id: there are more to choose from than *)
(* ids that could hold one.                                                *)
LEMMA FreeExists ==
    ASSUME NEW ids, AreIds(ids), NEW given \in Seq(Seq(Nat)), Len(given) <= Len(ids), NEW id \in Seq(Nat)
    PROVE  Free(ids, given, id) # {}
<1> DEFINE numbers == 0..(2 * Len(ids))
           used    == Kept(ids) \cup ToSet(given)
           numbered == [n \in numbers |-> Append(id, n)]
<1>1. Len(ids) \in Nat /\ Len(given) \in Nat  BY LenProperties DEF AreIds
<1>2. IsFiniteSet(Kept(ids)) /\ Cardinality(Kept(ids)) <= Len(ids)
  <2>1. IsFiniteSet(ToSet(ids)) /\ Cardinality(ToSet(ids)) <= Len(ids)  BY FiniteMembers DEF AreIds
  <2>2. Kept(ids) \subseteq ToSet(ids)  BY DEF Kept
  <2>3. IsFiniteSet(Kept(ids)) /\ Cardinality(Kept(ids)) <= Cardinality(ToSet(ids))  BY <2>1, <2>2, FS_Subset
  <2>4. Cardinality(Kept(ids)) \in Nat /\ Cardinality(ToSet(ids)) \in Nat  BY <2>1, <2>3, FS_CardinalityType
  <2> QED BY <2>1, <2>3, <2>4, <1>1
<1>3. IsFiniteSet(ToSet(given)) /\ Cardinality(ToSet(given)) <= Len(given)  BY FiniteMembers
<1>4. IsFiniteSet(used) /\ Cardinality(used) <= 2 * Len(ids)
  <2>1. /\ IsFiniteSet(used)
        /\ Cardinality(used) = Cardinality(Kept(ids)) + Cardinality(ToSet(given)) - Cardinality(Kept(ids) \cap ToSet(given))
    BY <1>2, <1>3, FS_Union
  <2>2. IsFiniteSet(Kept(ids) \cap ToSet(given))  BY <1>2, FS_Intersection
  <2>3. /\ Cardinality(Kept(ids)) \in Nat /\ Cardinality(ToSet(given)) \in Nat
        /\ Cardinality(Kept(ids) \cap ToSet(given)) \in Nat
    BY <1>2, <1>3, <2>2, FS_CardinalityType
  <2> QED BY <2>1, <2>3, <1>1, <1>2, <1>3
<1>5. Cardinality(numbers) = 2 * Len(ids) + 1
  <2>1. 0 \in Int /\ 2 * Len(ids) \in Nat  BY <1>1
  <2>2. Cardinality(0..(2 * Len(ids))) = IF 0 > 2 * Len(ids) THEN 0 ELSE 2 * Len(ids) - 0 + 1
    BY <2>1, FS_Interval
  <2> QED BY <2>1, <2>2
<1> SUFFICES ASSUME Free(ids, given, id) = {} PROVE FALSE  OBVIOUS
<1>6. \A n \in numbers : Append(id, n) \in used  BY DEF Free
<1>7. \A m, n \in numbers : Append(id, m) = Append(id, n) => m = n
  <2>1. \A n \in numbers : n \in Nat  BY <1>1
  <2> QED BY <2>1, AppendInjective
<1>8. numbered \in Injection(numbers, used)  BY <1>6, <1>7 DEF Injection, IsInjective
<1>9. Cardinality(numbers) <= Cardinality(used)  BY <1>4, <1>8, FS_Injection
<1>10. Cardinality(used) \in Nat  BY <1>4, FS_CardinalityType
<1> QED BY <1>1, <1>4, <1>5, <1>9, <1>10

(* The name an id is given is an id, kept exactly if the id was, and       *)
(* otherwise none of those given before.                                   *)
LEMMA NameIs ==
    ASSUME NEW ids, AreIds(ids), NEW given \in Seq(Seq(Nat)), Len(given) <= Len(ids), NEW id \in ToSet(ids)
    PROVE  /\ Name(ids, given, id) \in Seq(Nat)
           /\ id \in Kept(ids) => Name(ids, given, id) = id
           /\ id \notin Kept(ids) => Name(ids, given, id) \notin Kept(ids) \cup ToSet(given)
<1>1. id \in Seq(Nat)  BY FiniteMembers DEF AreIds
<1>2. CASE id \in Kept(ids)  BY <1>1, <1>2 DEF Name
<1>3. CASE id \notin Kept(ids)
  <2>1. Len(ids) \in Nat  BY LenProperties DEF AreIds
  <2>2. Free(ids, given, id) \in SUBSET Nat  BY <2>1 DEF Free
  <2>3. Min(Free(ids, given, id)) \in Free(ids, given, id)  BY <1>1, <2>2, FreeExists, Least
  <2> DEFINE n == Min(Free(ids, given, id))
  <2>4. n \in Nat /\ Append(id, n) \notin Kept(ids) \cup ToSet(given)  BY <2>2, <2>3 DEF Free
  <2>5. Append(id, n) \in Seq(Nat)  BY <1>1, <2>4, AppendProperties
  <2> QED BY <1>3, <2>4, <2>5 DEF Name
<1> QED BY <1>2, <1>3

\* The names given so far, after every number of ids up to n.
Naming(ids, given, n) ==
    given = [m \in 0..n |-> IF m = 0 THEN <<>> ELSE Append(given[m - 1], Name(ids, given[m - 1], ids[m]))]

(* The ids can be named one after the other.                               *)
LEMMA NamingExists ==
    ASSUME NEW ids, NEW n \in Nat
    PROVE  \E given : Naming(ids, given, n)
<1> DEFINE Bad == {m \in Nat : ~\E given : Naming(ids, given, m)}
<1> SUFFICES ASSUME Bad # {} PROVE FALSE  OBVIOUS
<1>1. PICK m \in Bad : \A k \in Bad : m <= k  BY Least
<1>2. m # 0
  <2> DEFINE g == [k \in 0..0 |-> <<>>]
  <2>1. Naming(ids, g, 0)  BY DEF Naming
  <2> QED BY <1>1, <2>1
<1>3. m - 1 \in Nat /\ m - 1 \notin Bad
  <2>1. m \in Nat  OBVIOUS
  <2>2. m - 1 \in Nat /\ ~(m <= m - 1)  BY <2>1, <1>2
  <2> QED BY <1>1, <2>2
<1>4. PICK given : Naming(ids, given, m - 1)  BY <1>3
<1> DEFINE next == [k \in 0..m |-> IF k = m THEN Append(given[m - 1], Name(ids, given[m - 1], ids[m])) ELSE given[k]]
<1>5. \A k \in 0..m : next[k] = IF k = 0 THEN <<>> ELSE Append(next[k - 1], Name(ids, next[k - 1], ids[k]))
  <2> SUFFICES ASSUME NEW k \in 0..m
               PROVE  next[k] = IF k = 0 THEN <<>> ELSE Append(next[k - 1], Name(ids, next[k - 1], ids[k]))
    OBVIOUS
  <2>1. CASE k = m
    <3>1. next[m] = Append(given[m - 1], Name(ids, given[m - 1], ids[m])) /\ next[m - 1] = given[m - 1]
      BY <1>3
    <3> QED BY <2>1, <3>1, <1>2
  <2>2. CASE k # m
    <3>1. k \in 0..(m - 1) /\ next[k] = given[k] /\ (k # 0 => next[k - 1] = given[k - 1])  BY <2>2, <1>3
    <3>2. given[k] = IF k = 0 THEN <<>> ELSE Append(given[k - 1], Name(ids, given[k - 1], ids[k]))
      BY <1>4, <3>1 DEF Naming
    <3> QED BY <3>1, <3>2
  <2> QED BY <2>1, <2>2
<1>6. Naming(ids, next, m)  BY <1>5 DEF Naming
<1> QED BY <1>1, <1>6

(* What dedupe_case_ids returns has no duplicates.                         *)
LEMMA DedupeIs ==
    ASSUME NEW ids, AreIds(ids)
    PROVE  /\ Dedupe(ids) \in Seq(Seq(Nat)) /\ Len(Dedupe(ids)) = Len(ids)
           /\ \A i, j \in DOMAIN Dedupe(ids) : Dedupe(ids)[i] = Dedupe(ids)[j] => i = j
<1>1. Len(ids) \in Nat /\ DOMAIN ids = 1..Len(ids) /\ \A i \in DOMAIN ids : ids[i] \in Seq(Nat)
  BY LenProperties, ElementOfSeq DEF AreIds
<1>2. PICK given : Naming(ids, given, Len(ids)) /\ Dedupe(ids) = given[Len(ids)]
  BY <1>1, NamingExists DEF Naming, Dedupe
<1>3. /\ given[0] = <<>>
      /\ \A n \in 1..Len(ids) : given[n] = Append(given[n - 1], Name(ids, given[n - 1], ids[n]))
  <2> DEFINE Value(m) == IF m = 0 THEN <<>> ELSE Append(given[m - 1], Name(ids, given[m - 1], ids[m]))
  <2>1. given = [m \in 0..Len(ids) |-> Value(m)]  BY <1>2 DEF Naming
  <2> HIDE DEF Value
  <2>2. \A m \in 0..Len(ids) : given[m] = Value(m)  BY <2>1
  <2>3. 0 \in 0..Len(ids) /\ \A m \in 1..Len(ids) : m \in 0..Len(ids) /\ m # 0  BY <1>1
  <2> QED BY <2>2, <2>3 DEF Value
<1> DEFINE Good(n) == /\ given[n] \in Seq(Seq(Nat)) /\ Len(given[n]) = n
                      /\ \A i \in 1..n : IF ids[i] \in Kept(ids) THEN given[n][i] = ids[i]
                                         ELSE given[n][i] \notin Kept(ids)
                      /\ \A i, j \in 1..n : i < j => given[n][i] # given[n][j]
           Bad == {n \in 0..Len(ids) : ~Good(n)}
<1>4. Bad = {}
  <2> SUFFICES ASSUME Bad # {} PROVE FALSE  OBVIOUS
  <2>1. Bad \in SUBSET Nat  BY <1>1
  <2>2. PICK n \in Bad : \A k \in Bad : n <= k  BY <2>1, Least
  <2>3. n \in 0..Len(ids) /\ ~Good(n) /\ n \in Nat  BY <1>1
  <2>4. n # 0
    <3>1. given[0] \in Seq(Seq(Nat)) /\ Len(given[0]) = 0  BY <1>3, EmptySeq
    <3> QED BY <2>3, <3>1
  <2>5. n - 1 \in 0..Len(ids) /\ n \in 1..Len(ids) /\ ~(n <= n - 1)  BY <2>3, <2>4, <1>1
  <2>6. Good(n - 1)  BY <2>2, <2>5
  <2> DEFINE g == given[n - 1]
             e == Name(ids, g, ids[n])
  <2>7. g \in Seq(Seq(Nat)) /\ Len(g) = n - 1 /\ Len(g) <= Len(ids)  BY <2>6, <2>5, <1>1, <2>3
  <2>8. ids[n] \in ToSet(ids)  BY <2>5, <1>1 DEF ToSet
  <2>9. /\ e \in Seq(Nat) /\ (ids[n] \in Kept(ids) => e = ids[n])
        /\ (ids[n] \notin Kept(ids) => e \notin Kept(ids) \cup ToSet(g))
    BY <2>7, <2>8, NameIs
  <2>10. given[n] = Append(g, e)  BY <1>3, <2>5
  <2> HIDE DEF g, e
  <2>11. /\ Append(g, e) \in Seq(Seq(Nat)) /\ Len(Append(g, e)) = n
         /\ \A i \in 1..(n - 1) : Append(g, e)[i] = g[i]
         /\ Append(g, e)[n] = e
    <3>1. /\ Append(g, e) \in Seq(Seq(Nat)) /\ Len(Append(g, e)) = Len(g) + 1
          /\ \A i \in 1..Len(g) : Append(g, e)[i] = g[i]
          /\ Append(g, e)[Len(g) + 1] = e
      BY <2>7, <2>9, AppendProperties
    <3> QED BY <3>1, <2>7, <2>3
  <2>12. /\ \A i \in 1..(n - 1) : IF ids[i] \in Kept(ids) THEN g[i] = ids[i] ELSE g[i] \notin Kept(ids)
         /\ \A i, j \in 1..(n - 1) : i < j => g[i] # g[j]
    BY <2>6 DEF g
  <2>13. \A i \in 1..n : IF ids[i] \in Kept(ids) THEN given[n][i] = ids[i] ELSE given[n][i] \notin Kept(ids)
    <3> SUFFICES ASSUME NEW i \in 1..n
                 PROVE  IF ids[i] \in Kept(ids) THEN given[n][i] = ids[i] ELSE given[n][i] \notin Kept(ids)
      OBVIOUS
    <3>1. CASE i = n  BY <3>1, <2>9, <2>10, <2>11
    <3>2. CASE i # n
      <4>1. i \in 1..(n - 1)  BY <3>2, <2>3
      <4> QED BY <4>1, <2>10, <2>11, <2>12
    <3> QED BY <3>1, <3>2
  <2>14. \A i \in 1..(n - 1) : g[i] # e
    <3> SUFFICES ASSUME NEW i \in 1..(n - 1), g[i] = e PROVE FALSE  OBVIOUS
    <3>1. g[i] \in ToSet(g)  BY <2>7, LenProperties DEF ToSet
    <3>2. ids[n] \in Kept(ids) /\ e = ids[n]  BY <3>1, <2>9
    <3>3. ids[i] \in Kept(ids) /\ g[i] = ids[i]  BY <3>2, <2>12
    <3>4. Once(ids, e) /\ ids[i] = e /\ ids[n] = e  BY <3>2, <3>3 DEF Kept
    <3> DEFINE at == {k \in DOMAIN ids : ids[k] = e}
    <3>5. IsFiniteSet(at) 
      <4>1. IsFiniteSet(1..Len(ids))  BY <1>1, CountTo
      <4>2. at \in SUBSET (1..Len(ids))  BY <1>1
      <4> QED BY <4>1, <4>2, FS_Subset
    <3>6. Cardinality(at) = 1  BY <3>4 DEF Once
    <3>7. PICK k : at = {k}  BY <3>5, <3>6, FS_Singleton
    <3>8. i \in at /\ n \in at  BY <3>4, <2>5, <1>1
    <3> QED BY <3>7, <3>8, <2>3
  <2>15. \A i, j \in 1..n : i < j => given[n][i] # given[n][j]
    <3> SUFFICES ASSUME NEW i \in 1..n, NEW j \in 1..n, i < j PROVE given[n][i] # given[n][j]
      OBVIOUS
    <3>1. i \in 1..(n - 1)  BY <2>3
    <3>2. CASE j = n  BY <3>1, <3>2, <2>10, <2>11, <2>14
    <3>3. CASE j # n
      <4>1. j \in 1..(n - 1)  BY <3>3, <2>3
      <4> QED BY <3>1, <4>1, <2>10, <2>11, <2>12
    <3> QED BY <3>2, <3>3
  <2> QED BY <2>3, <2>10, <2>11, <2>13, <2>15
<1>5. Good(Len(ids))  BY <1>1, <1>4
<1>6. DOMAIN Dedupe(ids) = 1..Len(ids)  BY <1>2, <1>5, LenProperties
<1>7. ASSUME NEW i \in 1..Len(ids), NEW j \in 1..Len(ids), Dedupe(ids)[i] = Dedupe(ids)[j] PROVE i = j
  <2>1. ~(i < j) /\ ~(j < i)  BY <1>2, <1>5, <1>7
  <2> QED BY <2>1, <1>1
<1> QED BY <1>2, <1>5, <1>6, <1>7

----------------------------------------------------------------------------
(* What a fixture is built over.                                           *)

(* What is reached is the least closed set.                                *)
LEMMA ReachIs ==
    ASSUME Declared, NEW fs \in SUBSET DOMAIN fixtures
    PROVE  /\ fs \subseteq Reach(fs) /\ Reach(fs) \subseteq DOMAIN fixtures /\ Closed(Reach(fs))
           /\ \A other \in SUBSET DOMAIN fixtures : fs \subseteq other /\ Closed(other) => Reach(fs) \subseteq other
<1> DEFINE closed == {other \in SUBSET DOMAIN fixtures : fs \subseteq other /\ Closed(other)}
<1>1. Reach(fs) = {f \in DOMAIN fixtures : \A other \in closed : f \in other}  BY DEF Reach
<1>2. ASSUME NEW f \in Reach(fs), NEW i \in DOMAIN fixtures[f].deps
      PROVE  fixtures[f].deps[i] \in Reach(fs)
  <2>1. f \in DOMAIN fixtures /\ \A other \in closed : f \in other  BY <1>1
  <2>2. fixtures[f].deps[i] \in DOMAIN fixtures
    <3>1. DOMAIN fixtures = 1..Len(fixtures) /\ Len(fixtures) \in Nat  BY LenProperties DEF Declared
    <3>2. fixtures[f].deps[i] \in 1..(f - 1)  BY <2>1 DEF Declared
    <3> QED BY <2>1, <3>1, <3>2
  <2>3. \A other \in closed : fixtures[f].deps[i] \in other  BY <2>1 DEF Closed
  <2> QED BY <1>1, <2>2, <2>3
<1>3. Closed(Reach(fs))  BY <1>2 DEF Closed
<1> QED BY <1>1, <1>3

(* What several fixtures are built over is what each of them is.           *)
LEMMA ReachUnion ==
    ASSUME Declared, NEW fs \in SUBSET DOMAIN fixtures
    PROVE  Reach(fs) = UNION {Reach({f}) : f \in fs}
<1> DEFINE all == UNION {Reach({f}) : f \in fs}
<1>1. \A f \in fs : {f} \in SUBSET DOMAIN fixtures  OBVIOUS
<1>2. all \subseteq Reach(fs)
  <2> SUFFICES ASSUME NEW f \in fs PROVE Reach({f}) \subseteq Reach(fs)  OBVIOUS
  <2>1. {f} \subseteq Reach(fs) /\ Closed(Reach(fs)) /\ Reach(fs) \in SUBSET DOMAIN fixtures  BY ReachIs
  <2> QED BY <1>1, <2>1, ReachIs
<1>3. fs \subseteq all /\ all \in SUBSET DOMAIN fixtures
  <2>1. \A f \in fs : f \in Reach({f}) /\ Reach({f}) \subseteq DOMAIN fixtures  BY <1>1, ReachIs
  <2> QED BY <2>1
<1>4. Closed(all)
  <2>1. \A f \in fs : Closed(Reach({f}))  BY <1>1, ReachIs
  <2> QED BY <2>1 DEF Closed
<1>5. Reach(fs) \subseteq all  BY <1>3, <1>4, ReachIs
<1> QED BY <1>2, <1>5

(* A fixture is built over itself and what its own sources are built over. *)
LEMMA ReachOne ==
    ASSUME Declared, NEW f \in DOMAIN fixtures
    PROVE  Reach({f}) = {f} \cup UNION {Reach({fixtures[f].deps[i]}) : i \in DOMAIN fixtures[f].deps}
<1> DEFINE deps == {fixtures[f].deps[i] : i \in DOMAIN fixtures[f].deps}
           all  == {f} \cup UNION {Reach({d}) : d \in deps}
<1>1. {f} \in SUBSET DOMAIN fixtures /\ deps \in SUBSET DOMAIN fixtures
  <2>1. DOMAIN fixtures = 1..Len(fixtures) /\ Len(fixtures) \in Nat  BY LenProperties DEF Declared
  <2>2. \A i \in DOMAIN fixtures[f].deps : fixtures[f].deps[i] \in 1..(f - 1)  BY DEF Declared
  <2>3. \A i \in DOMAIN fixtures[f].deps : fixtures[f].deps[i] \in DOMAIN fixtures  BY <2>1, <2>2
  <2> QED BY <2>3
<1>2. Reach(deps) = UNION {Reach({d}) : d \in deps}  BY <1>1, ReachUnion
<1>3. all \subseteq Reach({f})
  <2>1. f \in Reach({f}) /\ Closed(Reach({f})) /\ Reach({f}) \in SUBSET DOMAIN fixtures  BY <1>1, ReachIs
  <2>2. deps \subseteq Reach({f})  BY <2>1 DEF Closed
  <2>3. Reach(deps) \subseteq Reach({f})  BY <1>1, <2>1, <2>2, ReachIs
  <2> QED BY <1>2, <2>1, <2>3
<1>4. Closed(all)
  <2>1. Closed(Reach(deps)) /\ deps \subseteq Reach(deps)  BY <1>1, ReachIs
  <2>2. all = {f} \cup Reach(deps)  BY <1>2
  <2> QED BY <2>1, <2>2 DEF Closed
<1>5. Reach({f}) \subseteq all
  <2>1. all \in SUBSET DOMAIN fixtures  BY <1>1, <1>2, ReachIs
  <2> QED BY <1>1, <1>4, <2>1, ReachIs
<1>6. UNION {Reach({d}) : d \in deps} = UNION {Reach({fixtures[f].deps[i]}) : i \in DOMAIN fixtures[f].deps}
  OBVIOUS
<1> QED BY <1>3, <1>5, <1>6

(* The types of the declarations.                                          *)
LEMMA DeclaredType ==
    ASSUME Declared
    PROVE  /\ DOMAIN fixtures = 1..Len(fixtures) /\ Len(fixtures) \in Nat
           /\ \A f \in DOMAIN fixtures :
                /\ fixtures[f] = [scope |-> fixtures[f].scope, deps |-> fixtures[f].deps, ids |-> fixtures[f].ids]
                /\ fixtures[f].scope \in {"session", "module", "function", "call"}
                /\ fixtures[f].deps \in Seq(Nat) /\ fixtures[f].ids \in Seq(Seq(Nat))
                /\ DOMAIN fixtures[f].deps = 1..Len(fixtures[f].deps) /\ Len(fixtures[f].deps) \in Nat
                /\ DOMAIN fixtures[f].ids = 1..Len(fixtures[f].ids) /\ Len(fixtures[f].ids) \in Nat
<1>1. DOMAIN fixtures = 1..Len(fixtures) /\ Len(fixtures) \in Nat  BY LenProperties DEF Declared
<1>2. ASSUME NEW f \in DOMAIN fixtures
      PROVE  fixtures[f] \in [scope : Scopes, deps : Seq(Nat), ids : Seq(Seq(Nat))]
  BY <1>1, ElementOfSeq DEF Declared
<1>3. Scopes \subseteq {"session", "module", "function", "call"}  BY PlansAssumption DEF Rank
<1> QED BY <1>1, <1>2, <1>3, LenProperties

----------------------------------------------------------------------------
(* The lists that a step's ancestors are the union of.                     *)
Lists(anc, f) == Append([i \in DOMAIN fixtures[f].deps |-> anc[fixtures[f].deps[i]]], Own(f))

(* They are lists of fixtures, and of which.                               *)
LEMMA ListsAre ==
    ASSUME Declared, NEW f \in DOMAIN fixtures, NEW anc,
           \A d \in DOMAIN fixtures : d < f => anc[d] \in Seq(Nat)
    PROVE  /\ Lists(anc, f) \in Seq(Seq(Nat))
           /\ \A g : g \in Members(Lists(anc, f)) <=>
                      \/ \E i \in DOMAIN fixtures[f].deps : g \in ToSet(anc[fixtures[f].deps[i]])
                      \/ g = f /\ fixtures[f].ids # <<>>
<1> DEFINE below == [i \in DOMAIN fixtures[f].deps |-> anc[fixtures[f].deps[i]]]
           n == Len(fixtures[f].deps)
<1>1. f \in Nat /\ DOMAIN fixtures[f].deps = 1..n /\ n \in Nat  BY DeclaredType
<1>2. \A i \in 1..n : fixtures[f].deps[i] \in DOMAIN fixtures /\ fixtures[f].deps[i] < f
  <2>1. \A i \in 1..n : fixtures[f].deps[i] \in 1..(f - 1)  BY <1>1 DEF Declared
  <2>2. DOMAIN fixtures = 1..Len(fixtures) /\ Len(fixtures) \in Nat  BY DeclaredType
  <2> QED BY <2>1, <2>2
<1>3. below \in [1..n -> Seq(Nat)]  BY <1>1, <1>2
<1>4. below \in Seq(Seq(Nat)) /\ Len(below) = n
  <2> HIDE DEF below, n
  <2> QED BY <1>1, <1>3
<1>5. Own(f) \in Seq(Nat) /\ ToSet(Own(f)) = {g \in {f} : fixtures[g].ids # <<>>}
  <2>1. CASE fixtures[f].ids = <<>>  BY <2>1 DEF Own, ToSet
  <2>2. CASE fixtures[f].ids # <<>>
    <3>1. Own(f) = <<f>>  BY <2>2 DEF Own
    <3>2. ToSet(<<f>>) = {f} /\ <<f>> \in Seq(Nat)  BY <1>1 DEF ToSet
    <3> QED BY <2>2, <3>1, <3>2
  <2> QED BY <2>1, <2>2
<1> DEFINE l == Append(below, Own(f))
<1> HIDE DEF below, n
<1>6. /\ l \in Seq(Seq(Nat)) /\ Len(l) = n + 1
      /\ \A i \in 1..n : l[i] = below[i]
      /\ l[n + 1] = Own(f)
  BY <1>4, <1>5, AppendProperties
<1> HIDE DEF l
<1>7. DOMAIN l = 1..(n + 1)  BY <1>6, LenProperties
<1> DEFINE ofLists == UNION {ToSet(l[i]) : i \in 1..(n + 1)}
           ofBelow == UNION {ToSet(below[i]) : i \in 1..n}
<1>8. ofLists = ofBelow \cup ToSet(Own(f))
  <2>1. ASSUME NEW i \in 1..(n + 1), NEW x \in ToSet(l[i]) PROVE x \in ofBelow \cup ToSet(Own(f))
    <3>1. CASE i \in 1..n
      <4>1. ToSet(l[i]) = ToSet(below[i])  BY <3>1, <1>6
      <4> QED BY <3>1, <4>1, <2>1
    <3>2. CASE i = n + 1  BY <3>2, <2>1, <1>6
    <3> QED BY <3>1, <3>2, <1>1
  <2>2. ASSUME NEW i \in 1..n, NEW x \in ToSet(below[i]) PROVE x \in ofLists
    <3>1. i \in 1..(n + 1) /\ ToSet(l[i]) = ToSet(below[i])  BY <1>1, <1>6
    <3> QED BY <3>1, <2>2
  <2>3. ToSet(Own(f)) \subseteq ofLists
    <3>1. n + 1 \in 1..(n + 1) /\ ToSet(l[n + 1]) = ToSet(Own(f))  BY <1>1, <1>6
    <3> QED BY <3>1
  <2>4. ofLists \subseteq ofBelow \cup ToSet(Own(f))  BY <2>1
  <2>5. ofBelow \subseteq ofLists  BY <2>2
  <2> HIDE DEF ofLists, ofBelow
  <2> QED BY <2>3, <2>4, <2>5
<1>9. \A g : g \in ofBelow <=> \E i \in DOMAIN fixtures[f].deps : g \in ToSet(anc[fixtures[f].deps[i]])
  BY <1>1 DEF below
<1>10. Members(Lists(anc, f)) = ofLists
  <2>1. Lists(anc, f) = l  BY DEF Lists, l, below
  <2> QED BY <2>1, <1>7 DEF Members
<1>11. Lists(anc, f) \in Seq(Seq(Nat))  BY <1>6 DEF Lists, l, below
<1> HIDE DEF ofLists, ofBelow
<1> QED BY <1>5, <1>8, <1>9, <1>10, <1>11

(* A step varies with the parametrized fixtures that its own is built over. *)
LEMMA LineageCovers ==
    ASSUME Declared, NEW anc, Lineage(anc)
    PROVE  \A f \in DOMAIN fixtures : ToSet(anc[f]) = {g \in Reach({f}) : fixtures[g].ids # <<>>}
<1> DEFINE Axis(f) == {g \in Reach({f}) : fixtures[g].ids # <<>>}
           Bad == {f \in DOMAIN fixtures : ToSet(anc[f]) # Axis(f)}
<1> SUFFICES ASSUME Bad # {} PROVE FALSE  OBVIOUS
<1>1. Bad \in SUBSET Nat  BY DeclaredType
<1>2. PICK f \in Bad : \A g \in Bad : f <= g  BY <1>1, Least
<1>3. f \in DOMAIN fixtures /\ f \in Nat  BY <1>1
<1>4. \A i \in DOMAIN fixtures[f].deps : fixtures[f].deps[i] \in DOMAIN fixtures /\ fixtures[f].deps[i] \in 1..(f - 1)
  <2>1. \A i \in DOMAIN fixtures[f].deps : fixtures[f].deps[i] \in 1..(f - 1)  BY <1>3 DEF Declared
  <2>2. DOMAIN fixtures = 1..Len(fixtures) /\ Len(fixtures) \in Nat  BY DeclaredType
  <2> QED BY <2>1, <2>2, <1>3
<1>5. \A i \in DOMAIN fixtures[f].deps : ToSet(anc[fixtures[f].deps[i]]) = Axis(fixtures[f].deps[i])
  <2> SUFFICES ASSUME NEW i \in DOMAIN fixtures[f].deps, fixtures[f].deps[i] \in Bad PROVE FALSE
    BY <1>4
  <2>1. f <= fixtures[f].deps[i]  BY <1>2
  <2>2. fixtures[f].deps[i] \in 1..(f - 1)  BY <1>4
  <2> QED BY <2>1, <2>2, <1>3
<1>6. anc[f] = OrderedUnion(Lists(anc, f)) /\ \A d \in DOMAIN fixtures : anc[d] \in Seq(Nat)
  BY <1>3 DEF Lineage, Lists
<1>7. /\ Lists(anc, f) \in Seq(Seq(Nat))
      /\ \A g : g \in Members(Lists(anc, f)) <=>
                \/ \E i \in DOMAIN fixtures[f].deps : g \in ToSet(anc[fixtures[f].deps[i]])
                \/ g = f /\ fixtures[f].ids # <<>>
  BY <1>3, <1>6, ListsAre
<1>8. ToSet(anc[f]) = Members(Lists(anc, f))  BY <1>6, <1>7, OrderedUnionCovers
<1>9. Reach({f}) = {f} \cup UNION {Reach({fixtures[f].deps[i]}) : i \in DOMAIN fixtures[f].deps}
  BY <1>3, ReachOne
<1>10. \A g : g \in Reach({f}) <=>
             g = f \/ \E i \in DOMAIN fixtures[f].deps : g \in Reach({fixtures[f].deps[i]})
  BY <1>9
<1>11. \A g : g \in ToSet(anc[f]) <=> g \in Axis(f)
  <2> TAKE g
  <2>1. ASSUME NEW i \in DOMAIN fixtures[f].deps
        PROVE  g \in ToSet(anc[fixtures[f].deps[i]]) <=> g \in Reach({fixtures[f].deps[i]}) /\ fixtures[g].ids # <<>>
    BY <1>5
  <2> QED BY <2>1, <1>7, <1>8, <1>10
<1> QED BY <1>2, <1>11

(* So the ancestors that Anc gives are the parametrized fixtures below.    *)
LEMMA AncIs ==
    ASSUME Declared, \E anc : Lineage(anc)
    PROVE  /\ Lineage(Anc)
           /\ \A f \in DOMAIN fixtures :
                /\ Anc[f] \in Seq(Nat) /\ Anc[f] = OrderedUnion(Lists(Anc, f))
                /\ ToSet(Anc[f]) = {g \in Reach({f}) : fixtures[g].ids # <<>>}
<1>1. Lineage(Anc)  BY DEF Anc
<1> QED BY <1>1, LineageCovers DEF Lineage, Lists

----------------------------------------------------------------------------
(* Plans and calls.                                                        *)

(* What depends on the declarations alone stays as it is while they do.    *)
LEMMA Frame ==
    ASSUME fixtures' = fixtures
    PROVE  /\ \A f : Shareable(f)' <=> Shareable(f)
           /\ \A u : Needs(u)' = Needs(u) /\ Ahead(u)' = Ahead(u) /\ (Nested(u)' <=> Nested(u))
           /\ Anc' = Anc /\ \A anc : Lineage(anc)' <=> Lineage(anc)
           /\ \A plan, u : Planned(plan, u)' <=> Planned(plan, u)
           /\ \A plan : Inherited(plan)' <=> Inherited(plan)
           /\ \A plan, at, other : Apart(plan, at, other)' <=> Apart(plan, at, other)
           /\ \A plan, at : ApartWithin(plan, at)' <=> ApartWithin(plan, at)
<1>1. \A f : Shareable(f)' <=> Shareable(f)  BY DEF Shareable
<1>2. \A fs : Reach(fs)' = Reach(fs)  BY DEF Reach, Closed
<1>3. \A u : Needs(u)' = Needs(u) /\ Ahead(u)' = Ahead(u)  BY <1>2 DEF Needs, Ahead
<1>4. \A u : Nested(u)' <=> Nested(u)  BY <1>3 DEF Nested
<1>5. \A anc : Lineage(anc)' <=> Lineage(anc)  BY DEF Lineage, Own
<1>6. Anc' = Anc  BY <1>5 DEF Anc
<1>7. \A plan : Ordered(plan)' <=> Ordered(plan)  BY DEF Ordered
<1>8. \A plan : Shared(plan)' <=> Shared(plan)  BY <1>1 DEF Shared
<1>9. \A plan, ahead : AheadFirst(plan, ahead)' <=> AheadFirst(plan, ahead)  BY <1>1 DEF AheadFirst
<1>10. \A plan, at, other : Apart(plan, at, other)' <=> Apart(plan, at, other)  BY <1>1 DEF Apart
<1>11. \A plan, at : ApartWithin(plan, at)' <=> ApartWithin(plan, at)  BY <1>1 DEF ApartWithin
<1>12. \A plan : OnePlace(plan)' <=> OnePlace(plan)  BY <1>10, <1>11 DEF OnePlace
<1>13. \A plan, u : Planned(plan, u)' <=> Planned(plan, u)  BY <1>3, <1>7, <1>8, <1>9, <1>12 DEF Planned
<1>14. \A plan : Inherited(plan)' <=> Inherited(plan)  BY <1>6 DEF Inherited
<1> QED BY <1>1, <1>3, <1>4, <1>5, <1>6, <1>10, <1>11, <1>13, <1>14

(* The types of a plan.                                                    *)
LEMMA PlanType ==
    ASSUME NEW plan \in Steps
    PROVE  /\ DOMAIN plan = 1..Len(plan) /\ Len(plan) \in Nat
           /\ \A i \in DOMAIN plan :
                /\ plan[i].fixture \in 1..MaxFixtures /\ plan[i].args \in Seq(Nat) /\ plan[i].ancestors \in Seq(Nat)
                /\ DOMAIN plan[i].args = 1..Len(plan[i].args) /\ Len(plan[i].args) \in Nat
<1>1. DOMAIN plan = 1..Len(plan) /\ Len(plan) \in Nat  BY LenProperties DEF Steps
<1>2. \A i \in DOMAIN plan : plan[i] \in [fixture : 1..MaxFixtures, args : Seq(Nat), ancestors : Seq(Nat)]
  BY <1>1, ElementOfSeq DEF Steps
<1> QED BY <1>1, <1>2, LenProperties

(* The types of the calls under way.                                       *)
LEMMA FramesType ==
    ASSUME NEW frames \in Frames
    PROVE  /\ DOMAIN frames = 1..Len(frames) /\ Len(frames) \in Nat
           /\ frames # <<>> => Len(frames) >= 1 /\ 1 \in DOMAIN frames /\ Len(frames) \in DOMAIN frames
           /\ \A k \in DOMAIN frames :
                /\ frames[k].of \in 0..MaxFixtures /\ frames[k].args \in Seq(Nat)
                /\ frames[k] \in [of : 0..MaxFixtures, args : Seq(Nat)]
                /\ DOMAIN frames[k].args = 1..Len(frames[k].args) /\ Len(frames[k].args) \in Nat
<1>1. DOMAIN frames = 1..Len(frames) /\ Len(frames) \in Nat  BY LenProperties DEF Frames
<1>2. \A k \in DOMAIN frames : frames[k] \in [of : 0..MaxFixtures, args : Seq(Nat)]
  BY <1>1, ElementOfSeq DEF Frames
<1>3. frames # <<>> => Len(frames) >= 1
  <2>1. frames # <<>> => Len(frames) \in Nat \ {0}  BY EmptySeq DEF Frames
  <2> QED BY <2>1
<1> QED BY <1>1, <1>2, <1>3, LenProperties

(* Given fills one site of the innermost call and leaves the rest alone.   *)
LEMMA GivenIs ==
    ASSUME NEW frames \in Frames, frames # <<>>, NEW id \in Nat
    PROVE  /\ Given(frames, id) \in Frames /\ Len(Given(frames, id)) = Len(frames)
           /\ \A k \in DOMAIN frames : Given(frames, id)[k].of = frames[k].of
           /\ \A k \in DOMAIN frames : k # Len(frames) => Given(frames, id)[k] = frames[k]
           /\ Given(frames, id)[Len(frames)].args = Append(frames[Len(frames)].args, id)
           /\ Len(Given(frames, id)[Len(frames)].args) = Len(frames[Len(frames)].args) + 1
           /\ Given(frames, id)[Len(frames)].args[Len(frames[Len(frames)].args) + 1] = id
           /\ \A a \in DOMAIN frames[Len(frames)].args :
                 Given(frames, id)[Len(frames)].args[a] = frames[Len(frames)].args[a]
<1> DEFINE n == Len(frames)
           top == [frames[n] EXCEPT !.args = Append(@, id)]
<1>1. /\ DOMAIN frames = 1..n /\ n \in DOMAIN frames /\ n \in Nat
      /\ frames[n] \in [of : 0..MaxFixtures, args : Seq(Nat)]
      /\ frames[n].args \in Seq(Nat) /\ DOMAIN frames[n].args = 1..Len(frames[n].args)
  BY FramesType
<1>2. /\ Append(frames[n].args, id) \in Seq(Nat)
      /\ Len(Append(frames[n].args, id)) = Len(frames[n].args) + 1
      /\ \A a \in 1..Len(frames[n].args) : Append(frames[n].args, id)[a] = frames[n].args[a]
      /\ Append(frames[n].args, id)[Len(frames[n].args) + 1] = id
  BY <1>1, AppendProperties
<1>3. /\ top \in [of : 0..MaxFixtures, args : Seq(Nat)]
      /\ top.of = frames[n].of /\ top.args = Append(frames[n].args, id)
  BY <1>1, <1>2
<1>4. Given(frames, id) = [frames EXCEPT ![n] = top]  BY DEF Given
<1> HIDE DEF top
<1>5. /\ Given(frames, id) \in Frames /\ Len(Given(frames, id)) = n
      /\ \A k \in 1..n : Given(frames, id)[k] = IF k = n THEN top ELSE frames[k]
  BY <1>1, <1>3, <1>4, ExceptSeq DEF Frames
<1> QED BY <1>1, <1>2, <1>3, <1>5

(* The calls without the innermost.                                        *)
LEMMA FrontIs ==
    ASSUME NEW frames \in Frames, Len(frames) > 1
    PROVE  /\ Front(frames) \in Frames /\ Front(frames) # <<>> /\ Len(Front(frames)) = Len(frames) - 1
           /\ \A k \in 1..(Len(frames) - 1) : Front(frames)[k] = frames[k]
<1>1. /\ Len(frames) \in Nat /\ DOMAIN frames = 1..Len(frames)
      /\ \A k \in 1..Len(frames) : frames[k] \in [of : 0..MaxFixtures, args : Seq(Nat)]
  BY FramesType
<1>2. /\ SubSeq(frames, 1, Len(frames) - 1) \in Frames
      /\ Len(SubSeq(frames, 1, Len(frames) - 1)) = Len(frames) - 1
      /\ \A k \in 1..(Len(frames) - 1) : SubSeq(frames, 1, Len(frames) - 1)[k] = frames[k]
  <2> DEFINE m == Len(frames) - 1
  <2>1. 1 \in Int /\ m \in Int /\ m >= 1 /\ \A k \in 1..m : frames[k] \in [of : 0..MaxFixtures, args : Seq(Nat)]
    BY <1>1
  <2>2. /\ SubSeq(frames, 1, m) \in Seq([of : 0..MaxFixtures, args : Seq(Nat)])
        /\ Len(SubSeq(frames, 1, m)) = IF 1 <= m THEN m - 1 + 1 ELSE 0
        /\ \A k \in 1..(m - 1 + 1) : SubSeq(frames, 1, m)[k] = frames[1 + k - 1]
    BY <2>1, SubSeqProperties
  <2>3. \A k \in 1..m : k \in 1..(m - 1 + 1) /\ 1 + k - 1 = k  BY <2>1
  <2> QED BY <2>1, <2>2, <2>3 DEF Frames
<1>3. Front(frames) = SubSeq(frames, 1, Len(frames) - 1)  BY DEF Front
<1>4. SubSeq(frames, 1, Len(frames) - 1) # <<>>
  <2>1. Len(<<>>) = 0  OBVIOUS
  <2>2. Len(SubSeq(frames, 1, Len(frames) - 1)) # 0  BY <1>1, <1>2
  <2> QED BY <2>1, <2>2
<1> QED BY <1>2, <1>3, <1>4

(* Two sequences, one after the other.                                     *)
LEMMA ConcatIs ==
    ASSUME NEW S, NEW s \in Seq(S), NEW t \in Seq(S)
    PROVE  /\ s \o t \in Seq(S) /\ Len(s \o t) = Len(s) + Len(t) /\ Len(s) + Len(t) \in Nat
           /\ DOMAIN (s \o t) = 1..(Len(s) + Len(t))
           /\ \A a \in 1..(Len(s) + Len(t)) :
                /\ a <= Len(s) => a \in DOMAIN s /\ (s \o t)[a] = s[a] /\ (s \o t)[a] \in ToSet(s)
                /\ a > Len(s) => a - Len(s) \in DOMAIN t /\ (s \o t)[a] = t[a - Len(s)] /\ (s \o t)[a] \in ToSet(t)
<1>1. Len(s) \in Nat /\ DOMAIN s = 1..Len(s) /\ Len(t) \in Nat /\ DOMAIN t = 1..Len(t)  BY LenProperties
<1>2. /\ s \o t \in Seq(S) /\ Len(s \o t) = Len(s) + Len(t)
      /\ \A a \in 1..(Len(s) + Len(t)) : (s \o t)[a] = IF a <= Len(s) THEN s[a] ELSE t[a - Len(s)]
  BY ConcatProperties
<1>3. DOMAIN (s \o t) = 1..(Len(s) + Len(t))  BY <1>2, LenProperties
<1>4. ASSUME NEW a \in 1..(Len(s) + Len(t)), a <= Len(s)
      PROVE  a \in DOMAIN s /\ (s \o t)[a] = s[a] /\ (s \o t)[a] \in ToSet(s)
  <2>1. a \in DOMAIN s  BY <1>1, <1>4
  <2>2. (s \o t)[a] = s[a]  BY <1>2, <1>4
  <2> QED BY <2>1, <2>2 DEF ToSet
<1>5. ASSUME NEW a \in 1..(Len(s) + Len(t)), a > Len(s)
      PROVE  a - Len(s) \in DOMAIN t /\ (s \o t)[a] = t[a - Len(s)] /\ (s \o t)[a] \in ToSet(t)
  <2>1. a - Len(s) \in DOMAIN t /\ ~(a <= Len(s))  BY <1>1, <1>5
  <2>2. (s \o t)[a] = t[a - Len(s)]  BY <1>2, <2>1
  <2> QED BY <2>1, <2>2 DEF ToSet
<1> QED BY <1>1, <1>2, <1>3, <1>4, <1>5

(* The sites of what is needed are needed, and below it.                   *)
LEMMA SitesAre ==
    ASSUME Declared, Len(fixtures) = MaxFixtures, IsUse(use), NEW f \in Needs(use) \cup {0}
    PROVE  /\ Len(SitesOf(f)) \in Nat /\ DOMAIN SitesOf(f) = 1..Len(SitesOf(f))
           /\ \A a \in 1..Len(SitesOf(f)) :
                /\ SitesOf(f)[a] \in Needs(use) /\ SitesOf(f)[a] \in 1..MaxFixtures
                /\ f # 0 => SitesOf(f)[a] < f
                /\ f \in Ahead(use) => SitesOf(f)[a] \in Ahead(use)
                /\ f = 0 /\ a <= Len(use.implicit) => SitesOf(f)[a] \in Ahead(use)
           /\ f = 0 => Len(SitesOf(f)) = Len(use.implicit) + Len(use.roots)
<1>1. DOMAIN fixtures = 1..MaxFixtures /\ MaxFixtures \in Nat  BY DeclaredType
<1>2. /\ use.implicit \in Seq(1..MaxFixtures) /\ use.roots \in Seq(1..MaxFixtures)
      /\ Len(use.implicit) \in Nat /\ DOMAIN use.implicit = 1..Len(use.implicit)
      /\ Len(use.roots) \in Nat /\ DOMAIN use.roots = 1..Len(use.roots)
  BY LenProperties DEF IsUse
<1>3. ToSet(use.implicit) \in SUBSET DOMAIN fixtures /\ ToSet(use.roots) \in SUBSET DOMAIN fixtures
  BY <1>1, <1>2, FiniteMembers
<1>4. /\ ToSet(use.implicit) \cup ToSet(use.roots) \subseteq Needs(use)
      /\ Needs(use) \subseteq 1..MaxFixtures /\ Closed(Needs(use))
  BY <1>1, <1>3, ReachIs DEF Needs
<1>5. ToSet(use.implicit) \subseteq Ahead(use) /\ Ahead(use) \subseteq 1..MaxFixtures /\ Closed(Ahead(use))
  BY <1>1, <1>3, ReachIs DEF Ahead
<1>6. CASE f = 0
  <2>1. SitesOf(f) = use.implicit \o use.roots  BY <1>6 DEF SitesOf
  <2>2. /\ Len(SitesOf(f)) = Len(use.implicit) + Len(use.roots) /\ Len(SitesOf(f)) \in Nat
        /\ DOMAIN SitesOf(f) = 1..Len(SitesOf(f))
        /\ \A a \in 1..Len(SitesOf(f)) :
             /\ a <= Len(use.implicit) => SitesOf(f)[a] \in ToSet(use.implicit)
             /\ a > Len(use.implicit) => SitesOf(f)[a] \in ToSet(use.roots)
    <3> DEFINE n == Len(use.implicit) + Len(use.roots)
    <3>1. /\ Len(use.implicit \o use.roots) = n /\ n \in Nat /\ DOMAIN (use.implicit \o use.roots) = 1..n
          /\ \A a \in 1..n :
               /\ a <= Len(use.implicit) => (use.implicit \o use.roots)[a] \in ToSet(use.implicit)
               /\ a > Len(use.implicit) => (use.implicit \o use.roots)[a] \in ToSet(use.roots)
      <4> DEFINE s == use.implicit
                 t == use.roots
      <4>1. s \in Seq(1..MaxFixtures) /\ t \in Seq(1..MaxFixtures)  BY <1>2
      <4> HIDE DEF s, t
      <4>2. /\ Len(s \o t) = Len(s) + Len(t) /\ Len(s) + Len(t) \in Nat
            /\ DOMAIN (s \o t) = 1..(Len(s) + Len(t))
            /\ \A a \in 1..(Len(s) + Len(t)) :
                /\ a <= Len(s) => (s \o t)[a] \in ToSet(s)
                /\ a > Len(s) => (s \o t)[a] \in ToSet(t)
        BY <4>1, ConcatIs
      <4> QED BY <4>2 DEF s, t
    <3> HIDE DEF n
    <3>2. \A a \in 1..Len(SitesOf(f)) : a \in 1..n  BY <2>1, <3>1
    <3> QED BY <2>1, <3>1, <3>2 DEF n
  <2>3. f \notin Ahead(use)  BY <1>5, <1>6
  <2>4. ASSUME NEW a \in 1..Len(SitesOf(f))
        PROVE  /\ SitesOf(f)[a] \in Needs(use) /\ SitesOf(f)[a] \in 1..MaxFixtures
               /\ a <= Len(use.implicit) => SitesOf(f)[a] \in Ahead(use)
    <3>1. a <= Len(use.implicit) \/ a > Len(use.implicit)  BY <1>2, <2>2
    <3> QED BY <3>1, <2>2, <1>4, <1>5
  <2> QED BY <1>6, <2>2, <2>3, <2>4
<1>7. CASE f # 0
  <2>1. f \in Needs(use) /\ f \in 1..MaxFixtures /\ SitesOf(f) = fixtures[f].deps  BY <1>4, <1>7 DEF SitesOf
  <2>2. Len(fixtures[f].deps) \in Nat /\ DOMAIN fixtures[f].deps = 1..Len(fixtures[f].deps)
    BY <1>1, <2>1, DeclaredType
  <2>3. \A a \in 1..Len(fixtures[f].deps) : fixtures[f].deps[a] \in 1..(f - 1)
    BY <1>1, <2>1, <2>2 DEF Declared
  <2>4. \A a \in 1..Len(fixtures[f].deps) : fixtures[f].deps[a] \in Needs(use)
    BY <1>4, <2>1, <2>2 DEF Closed
  <2>5. f \in Ahead(use) => \A a \in 1..Len(fixtures[f].deps) : fixtures[f].deps[a] \in Ahead(use)
    BY <1>5, <2>2 DEF Closed
  <2>6. \A a \in 1..Len(fixtures[f].deps) : fixtures[f].deps[a] < f  BY <2>1, <2>3
  <2> QED BY <1>4, <1>7, <2>1, <2>2, <2>4, <2>5, <2>6
<1> QED BY <1>6, <1>7

(* If every one of fs has its step, so has all that they are built over.   *)
LEMMA Stepped ==
    ASSUME Declared, NEW plan \in Steps, Ordered(plan), NEW fs \in SUBSET DOMAIN fixtures,
           \A f \in fs : \E i \in DOMAIN plan : plan[i].fixture = f
    PROVE  \A f \in Reach(fs) : \E i \in DOMAIN plan : plan[i].fixture = f
<1> DEFINE done == {f \in DOMAIN fixtures : \E i \in DOMAIN plan : plan[i].fixture = f}
<1>1. fs \subseteq done /\ done \in SUBSET DOMAIN fixtures  OBVIOUS
<1>2. Closed(done)
  <2> SUFFICES ASSUME NEW f \in done, NEW a \in DOMAIN fixtures[f].deps PROVE fixtures[f].deps[a] \in done
    BY DEF Closed
  <2>1. PICK i \in DOMAIN plan : plan[i].fixture = f  OBVIOUS
  <2>2. DOMAIN plan = 1..Len(plan) /\ Len(plan) \in Nat /\ DOMAIN plan[i].args = 1..Len(plan[i].args)
    BY PlanType
  <2>3. DOMAIN fixtures[f].deps = 1..Len(fixtures[f].deps)  BY DeclaredType
  <2>4. a \in DOMAIN plan[i].args /\ plan[i].args[a] \in 1..(i - 1)
        /\ plan[plan[i].args[a]].fixture = fixtures[f].deps[a]
    BY <2>1, <2>2, <2>3 DEF Ordered
  <2>5. plan[i].args[a] \in DOMAIN plan  BY <2>2, <2>4
  <2>6. plan[plan[i].args[a]].fixture \in DOMAIN fixtures  BY <2>5 DEF Ordered
  <2> QED BY <2>4, <2>5, <2>6
<1> QED BY <1>1, <1>2, ReachIs

(* The ranks of the scopes are numbers.                                    *)
LEMMA RankIs ==
    ASSUME Declared
    PROVE  /\ \A f \in DOMAIN fixtures : Rank[fixtures[f].scope] \in Nat /\ Rank[fixtures[f].scope] >= 1
           /\ \A f \in DOMAIN fixtures \cup {0} : Rank[ScopeOf(f)] \in Nat
           /\ \A f \in DOMAIN fixtures : f # 0 /\ ScopeOf(f) = fixtures[f].scope
           /\ Rank[ScopeOf(0)] = 1
<1>1. \A f \in DOMAIN fixtures : f \in Nat /\ f # 0 /\ fixtures[f].scope \in {"session", "module", "function", "call"}
  BY DeclaredType
<1>2. \A s \in {"session", "module", "function", "call"} : Rank[s] \in Nat /\ Rank[s] >= 1  BY DEF Rank
<1>3. \A f \in DOMAIN fixtures : ScopeOf(f) = fixtures[f].scope  BY <1>1 DEF ScopeOf
<1>4. ScopeOf(0) = "function" /\ Rank["function"] = 1  BY DEF ScopeOf, Rank
<1> QED BY <1>1, <1>2, <1>3, <1>4

(* What the invariant says of a walk, taken apart.                         *)
LEMMA WalkTypes ==
    ASSUME Declared, Walking, Collected, stack # <<>>
    PROVE  /\ IsUse(use) /\ MaxFixtures \in Nat /\ Len(fixtures) = MaxFixtures /\ DOMAIN fixtures = 1..MaxFixtures
           /\ StepsOK(steps) /\ MemoOK(steps, memo) /\ StackOK(steps, memo, stack)
           /\ DOMAIN steps = 1..Len(steps) /\ Len(steps) \in Nat
           /\ DOMAIN stack = 1..Len(stack) /\ Len(stack) \in Nat /\ Len(stack) >= 1
           /\ 1 \in DOMAIN stack /\ Len(stack) \in DOMAIN stack
           /\ \A k \in DOMAIN stack :
                /\ stack[k].args \in Seq(Nat) /\ Len(stack[k].args) \in Nat
                /\ DOMAIN stack[k].args = 1..Len(stack[k].args)
                /\ stack[k].of \in Needs(use) \cup {0}
           /\ Len(use.implicit) \in Nat /\ Len(use.roots) \in Nat
<1>1. /\ Len(fixtures) = MaxFixtures /\ Len(collected) < Len(Tests) /\ use \in UsesOf[Tests[Len(collected) + 1]]
      /\ StepsOK(steps) /\ MemoOK(steps, memo) /\ StackOK(steps, memo, stack)
  BY DEF Walking
<1>2. IsUse(use)
  <2>1. Len(collected) \in Nat  BY LenProperties DEF Collected
  <2>2. Tests \in Seq(ToSet(Tests)) /\ Len(Tests) \in Nat  BY PlansAssumption, LenProperties
  <2>3. Tests[Len(collected) + 1] \in ToSet(Tests)
    <3>1. Len(collected) + 1 \in 1..Len(Tests)  BY <1>1, <2>1, <2>2
    <3> QED BY <2>2, <3>1, ElementOfSeq
  <2> QED BY <1>1, <2>3, PlansAssumption DEF IsUse
<1>3. DOMAIN fixtures = 1..MaxFixtures /\ MaxFixtures \in Nat  BY <1>1, DeclaredType
<1>4. DOMAIN steps = 1..Len(steps) /\ Len(steps) \in Nat  BY <1>1, PlanType DEF StepsOK
<1>5. /\ DOMAIN stack = 1..Len(stack) /\ Len(stack) \in Nat /\ Len(stack) >= 1
      /\ 1 \in DOMAIN stack /\ Len(stack) \in DOMAIN stack
      /\ \A k \in DOMAIN stack :
           /\ stack[k].args \in Seq(Nat) /\ Len(stack[k].args) \in Nat
           /\ DOMAIN stack[k].args = 1..Len(stack[k].args)
  BY <1>1, FramesType DEF StackOK
<1>6. \A k \in DOMAIN stack : stack[k].of \in Needs(use) \cup {0}
  <2> SUFFICES ASSUME NEW k \in DOMAIN stack PROVE stack[k].of \in Needs(use) \cup {0}  OBVIOUS
  <2>1. CASE k = 1  BY <1>1, <2>1 DEF StackOK, Descends
  <2>2. CASE k # 1
    <3>1. k \in 2..Len(stack)  BY <2>2, <1>5
    <3> QED BY <1>1, <3>1 DEF StackOK, Descends
  <2> QED BY <2>1, <2>2
<1>7. Len(use.implicit) \in Nat /\ Len(use.roots) \in Nat  BY <1>2, LenProperties DEF IsUse
<1> QED BY <1>1, <1>2, <1>3, <1>4, <1>5, <1>6, <1>7

(* The site that the innermost call is at.                                 *)
LEMMA SourceIs ==
    ASSUME Declared, Walking, Collected, Pending
    PROVE  /\ stack # <<>> /\ Top.of \in Needs(use) \cup {0}
           /\ Len(Top.args) + 1 \in 1..Len(SitesOf(Top.of)) /\ Len(Top.args) \in Nat /\ Len(SitesOf(Top.of)) \in Nat
           /\ Source \in Needs(use) /\ Source \in 1..MaxFixtures
           /\ Top.of # 0 => Source < Top.of
           /\ Len(stack[1].args) < Len(use.implicit) => Source \in Ahead(use)
<1>1. stack # <<>> /\ Len(Top.args) < Len(SitesOf(Top.of))  BY DEF Pending
<1>2. Top.of \in Needs(use) \cup {0} /\ Len(Top.args) \in Nat  BY <1>1, WalkTypes DEF Top
<1>3. IsUse(use) /\ Len(fixtures) = MaxFixtures  BY <1>1, WalkTypes
<1>4. Len(SitesOf(Top.of)) \in Nat  BY <1>2, <1>3, SitesAre
<1>5. Len(Top.args) + 1 \in 1..Len(SitesOf(Top.of))  BY <1>1, <1>2, <1>4
<1>6. /\ Source \in Needs(use) /\ Source \in 1..MaxFixtures
      /\ Top.of # 0 => Source < Top.of
      /\ Top.of \in Ahead(use) => Source \in Ahead(use)
      /\ Top.of = 0 /\ Len(Top.args) + 1 <= Len(use.implicit) => Source \in Ahead(use)
  BY <1>2, <1>3, <1>5, SitesAre DEF Source
<1>7. ASSUME Len(stack[1].args) < Len(use.implicit) PROVE Source \in Ahead(use)
  <2>1. Len(stack) \in Nat /\ Len(stack) >= 1 /\ StackOK(steps, memo, stack) /\ Len(use.implicit) \in Nat  BY <1>1, WalkTypes
  <2> DEFINE n == Len(stack)
  <2>0. n \in Nat /\ n >= 1  BY <2>1
  <2>2. CASE Len(stack) = 1
    <3>1. Top.of = 0 /\ Len(Top.args) = Len(stack[1].args)  BY <2>1, <2>2 DEF Top, StackOK, Descends
    <3> QED BY <1>2, <1>6, <1>7, <2>1, <3>1
  <2>3. CASE Len(stack) # 1
    <3>1. n # 1  BY <2>3
    <3> HIDE DEF n
    <3>3. n \in 2..n  BY <2>0, <3>1
    <3>4. Len(stack) \in 2..Len(stack)  BY <3>3 DEF n
    <3>2. Top.of \in Ahead(use)  BY <1>7, <2>1, <3>4 DEF StackOK, Phase, Top
    <3> QED BY <1>6, <3>2
  <2> QED BY <2>2, <2>3
<1> QED BY <1>1, <1>2, <1>4, <1>5, <1>6, <1>7

(* A call that is given a step for the site it is at stays a call in order, *)
(* whether the step is new or shared.                                       *)
LEMMA GivenKeeps ==
    ASSUME Len(use.implicit) \in Nat, NEW plan \in Steps, NEW shared, NEW calls, StackOK(plan, shared, calls),
           NEW id \in DOMAIN plan, AtSite(calls[Len(calls)], plan[id].fixture),
           \A k \in DOMAIN calls : \A a \in DOMAIN calls[k].args : calls[k].args[a] = id => Shareable(plan[id].fixture),
           \A i \in DOMAIN plan : \A a \in DOMAIN plan[i].args : plan[i].args[a] = id => Shareable(plan[id].fixture)
    PROVE  StackOK(plan, shared, Given(calls, id))
<1> DEFINE n    == Len(calls)
           next == Len(calls[n].args) + 1
           new  == Given(calls, id)
<1>1. calls \in Frames /\ calls # <<>> /\ id \in Nat  BY PlanType DEF StackOK
<1>2. /\ DOMAIN calls = 1..n /\ n \in Nat /\ n >= 1 /\ n \in DOMAIN calls
      /\ \A k \in DOMAIN calls : DOMAIN calls[k].args = 1..Len(calls[k].args) /\ Len(calls[k].args) \in Nat
  BY <1>1, FramesType
<1>3. /\ new \in Frames /\ Len(new) = n
      /\ \A k \in DOMAIN calls : new[k].of = calls[k].of
      /\ \A k \in DOMAIN calls : k # n => new[k] = calls[k]
      /\ Len(new[n].args) = next /\ new[n].args[next] = id
      /\ \A a \in DOMAIN calls[n].args : new[n].args[a] = calls[n].args[a]
  BY <1>1, GivenIs
<1>4. /\ DOMAIN new = 1..n /\ new # <<>>
      /\ \A k \in DOMAIN new : DOMAIN new[k].args = 1..Len(new[k].args) /\ Len(new[k].args) \in Nat
  <2>1. Len(<<>>) = 0  OBVIOUS
  <2> HIDE DEF new, n
  <2> QED BY <2>1, <1>2, <1>3, FramesType
<1> HIDE DEF new
<1>5. ASSUME NEW k \in 1..n, NEW a \in DOMAIN new[k].args
      PROVE  \/ a \in DOMAIN calls[k].args /\ new[k].args[a] = calls[k].args[a]
             \/ k = n /\ a = next /\ new[k].args[a] = id
  <2>1. CASE k # n  BY <2>1, <1>2, <1>3
  <2>2. CASE k = n
    <3>1. a \in 1..next /\ next \in Nat /\ DOMAIN calls[k].args = 1..(next - 1)  BY <2>2, <1>2, <1>3, <1>4
    <3>2. a = next \/ a \in DOMAIN calls[k].args  BY <3>1
    <3> QED BY <2>2, <3>2, <1>2, <1>3
  <2> QED BY <2>1, <2>2
<1>6. Descends(shared, new)
  <2>1. new[1].of = 0  BY <1>2, <1>3 DEF StackOK, Descends
  <2>2. \A k \in 2..n : k \in DOMAIN calls  BY <1>2
  <2>3. \A k \in 2..Len(new) :
          /\ new[k].of \in 1..MaxFixtures /\ new[k].of \in Needs(use)
          /\ Shareable(new[k].of) => shared[new[k].of] = 0
    BY <2>2, <1>3 DEF StackOK, Descends
  <2>4. \A k \in 2..Len(new) : \A l \in (k + 1)..Len(new) : new[l].of < new[k].of
    <3> SUFFICES ASSUME NEW k \in 2..n, NEW l \in (k + 1)..n PROVE new[l].of < new[k].of  BY <1>3
    <3>1. k \in DOMAIN calls /\ l \in DOMAIN calls  BY <1>2
    <3>2. calls[l].of < calls[k].of  BY DEF StackOK, Descends
    <3> QED BY <3>1, <3>2, <1>3
  <2>5. \A k \in 1..(Len(new) - 1) : AtSite(new[k], new[k + 1].of)
    <3> SUFFICES ASSUME NEW k \in 1..(n - 1) PROVE AtSite(new[k], new[k + 1].of)  BY <1>3
    <3>1. k \in 1..n /\ k + 1 \in 1..n /\ k # n
      <4> HIDE DEF n
      <4> QED BY <1>2
    <3>2. AtSite(calls[k], calls[k + 1].of)  BY DEF StackOK, Descends
    <3> QED BY <3>1, <3>2, <1>2, <1>3
  <2> QED BY <2>1, <2>3, <2>4, <2>5 DEF Descends
<1>7. CallsApart(plan, new)
  <2>1. ASSUME NEW k \in 1..n, NEW a \in DOMAIN new[k].args, NEW l \in 1..n, NEW b \in DOMAIN new[l].args,
               <<k, a>> # <<l, b>>, new[k].args[a] = new[l].args[b]
        PROVE  Shareable(plan[new[k].args[a]].fixture)
    <3>1. CASE a \in DOMAIN calls[k].args /\ new[k].args[a] = calls[k].args[a]
      <4>1. CASE b \in DOMAIN calls[l].args /\ new[l].args[b] = calls[l].args[b]
        <5>1. CASE k = l
          <6>1. a # b /\ ApartWithin(plan, calls[k].args)  BY <2>1, <5>1, <1>2 DEF StackOK, CallsApart
          <6> QED BY <6>1, <5>1, <4>1, <3>1, <2>1 DEF ApartWithin
        <5>2. CASE k # l
          <6>1. Apart(plan, calls[k].args, calls[l].args)  BY <5>2, <1>2 DEF StackOK, CallsApart
          <6> QED BY <6>1, <4>1, <3>1, <2>1 DEF Apart
        <5> QED BY <5>1, <5>2
      <4>2. CASE new[l].args[b] = id  BY <4>2, <3>1, <2>1, <1>2
      <4> QED BY <4>1, <4>2, <1>5
    <3>2. CASE k = n /\ a = next /\ new[k].args[a] = id
      <4>1. CASE b \in DOMAIN calls[l].args /\ new[l].args[b] = calls[l].args[b]  BY <4>1, <3>2, <2>1, <1>2
      <4>2. CASE l = n /\ b = next  BY <4>2, <3>2, <2>1
      <4> QED BY <4>1, <4>2, <1>5
    <3> QED BY <3>1, <3>2, <1>5
  <2>2. \A k \in DOMAIN new : ApartWithin(plan, new[k].args)  BY <2>1, <1>4 DEF ApartWithin
  <2>3. \A k, l \in DOMAIN new : k # l => Apart(plan, new[k].args, new[l].args)  BY <2>1, <1>4 DEF Apart
  <2>4. ASSUME NEW k \in 1..n, NEW i \in DOMAIN plan, NEW a \in DOMAIN new[k].args, NEW b \in DOMAIN plan[i].args,
               new[k].args[a] = plan[i].args[b]
        PROVE  Shareable(plan[new[k].args[a]].fixture)
    <3>1. CASE a \in DOMAIN calls[k].args /\ new[k].args[a] = calls[k].args[a]
      <4>1. Apart(plan, calls[k].args, plan[i].args)  BY <1>2 DEF StackOK, CallsApart
      <4> QED BY <4>1, <3>1, <2>4 DEF Apart
    <3>2. CASE new[k].args[a] = id  BY <3>2, <2>4
    <3> QED BY <3>1, <3>2, <1>5
  <2>5. \A k \in DOMAIN new : \A i \in DOMAIN plan : Apart(plan, new[k].args, plan[i].args)
    BY <2>4, <1>4 DEF Apart
  <2> QED BY <2>2, <2>3, <2>5 DEF CallsApart
<1>8. Phase(plan, new)
  <2> SUFFICES ASSUME Len(new[1].args) < Len(use.implicit)
               PROVE  /\ \A k \in 2..Len(new) : new[k].of \in Ahead(use)
                      /\ \A i \in DOMAIN plan : plan[i].fixture \in Ahead(use)
    BY DEF Phase
  <2>1. CASE n = 1
    <3>1. Len(new[1].args) = Len(calls[1].args) + 1 /\ Len(calls[1].args) \in Nat  BY <2>1, <1>2, <1>3
    <3>2. Len(calls[1].args) < Len(use.implicit)  BY <3>1
    <3>3. \A i \in DOMAIN plan : plan[i].fixture \in Ahead(use)  BY <3>2 DEF StackOK, Phase
    <3> QED BY <2>1, <3>3, <1>3
  <2>2. CASE n # 1
    <3>1. new[1] = calls[1]  BY <2>2, <1>2, <1>3
    <3>2. /\ \A k \in 2..n : calls[k].of \in Ahead(use)
          /\ \A i \in DOMAIN plan : plan[i].fixture \in Ahead(use)
      BY <3>1 DEF StackOK, Phase
    <3>3. \A k \in 2..n : k \in DOMAIN calls  BY <1>2
    <3> QED BY <3>2, <3>3, <1>3
  <2> QED BY <2>1, <2>2
<1>9. \A k \in DOMAIN new : Filled(plan, new[k].of, new[k].args)
  <2> SUFFICES ASSUME NEW k \in 1..n PROVE Filled(plan, calls[k].of, new[k].args)  BY <1>2, <1>3, <1>4
  <2>1. Filled(plan, calls[k].of, calls[k].args)  BY <1>2 DEF StackOK
  <2>2. Len(new[k].args) <= Len(SitesOf(calls[k].of))
    <3>1. CASE k = n  BY <3>1, <1>3 DEF AtSite
    <3>2. CASE k # n  BY <3>2, <2>1, <1>2, <1>3 DEF Filled
    <3> QED BY <3>1, <3>2
  <2>3. ASSUME NEW a \in DOMAIN new[k].args
        PROVE  /\ new[k].args[a] \in DOMAIN plan
               /\ plan[new[k].args[a]].fixture = SitesOf(calls[k].of)[a]
               /\ Rank[fixtures[SitesOf(calls[k].of)[a]].scope] >= Rank[ScopeOf(calls[k].of)]
    <3>1. CASE a \in DOMAIN calls[k].args /\ new[k].args[a] = calls[k].args[a]  BY <3>1, <2>1 DEF Filled
    <3>2. CASE k = n /\ a = next /\ new[k].args[a] = id  BY <3>2 DEF AtSite
    <3> QED BY <3>1, <3>2, <1>5
  <2> QED BY <2>2, <2>3 DEF Filled
<1>10. StackOK(plan, shared, new)  BY <1>3, <1>4, <1>6, <1>7, <1>8, <1>9 DEF StackOK
<1> QED BY <1>10 DEF new

----------------------------------------------------------------------------
(* The end of a call.                                                      *)

(* The plan and the memo once the innermost call has ended.                *)
StepOf(call)  == [fixture |-> call.of, args |-> call.args, ancestors |-> Ancestors(call.args, call.of)]
NewSteps      == Append(steps, StepOf(Top))
NewMemo       == IF Shareable(Top.of) THEN [memo EXCEPT ![Top.of] = Len(steps) + 1] ELSE memo
CanLeave      == Declared /\ (\E anc : Lineage(anc)) /\ Walking /\ Collected /\ Len(stack) > 1 /\ ~Pending

(* The call that ends has all it is built over.                            *)
LEMMA Leaving ==
    ASSUME CanLeave
    PROVE  /\ stack # <<>> /\ Len(stack) \in DOMAIN stack /\ Len(stack) \in 2..Len(stack) /\ Len(stack) \in Nat
           /\ Top.of \in 1..MaxFixtures /\ Top.of \in DOMAIN fixtures /\ Top.of \in Needs(use) /\ Top.of # 0
           /\ Shareable(Top.of) => memo[Top.of] = 0
           /\ Top.args \in Seq(Nat) /\ Len(Top.args) = Len(fixtures[Top.of].deps)
           /\ DOMAIN Top.args = DOMAIN fixtures[Top.of].deps
           /\ \A a \in DOMAIN Top.args :
                /\ Top.args[a] \in DOMAIN steps
                /\ steps[Top.args[a]].fixture = fixtures[Top.of].deps[a]
                /\ Rank[fixtures[fixtures[Top.of].deps[a]].scope] >= Rank[fixtures[Top.of].scope]
<1>1. stack # <<>>
  <2>1. Len(<<>>) = 0  OBVIOUS
  <2> QED BY <2>1 DEF CanLeave
<1>2. /\ IsUse(use) /\ MaxFixtures \in Nat /\ Len(fixtures) = MaxFixtures /\ DOMAIN fixtures = 1..MaxFixtures
      /\ StackOK(steps, memo, stack) /\ Len(stack) \in Nat /\ Len(stack) \in DOMAIN stack
      /\ Top.args \in Seq(Nat) /\ Len(Top.args) \in Nat /\ DOMAIN Top.args = 1..Len(Top.args)
  BY <1>1, WalkTypes DEF CanLeave, Top
<1> DEFINE n == Len(stack)
<1>3. n \in 2..n
  <2>1. n \in Nat /\ n > 1  BY <1>2 DEF CanLeave
  <2> HIDE DEF n
  <2> QED BY <2>1
<1>4. /\ Top.of \in 1..MaxFixtures /\ Top.of \in Needs(use)
      /\ Shareable(Top.of) => memo[Top.of] = 0
  BY <1>2, <1>3 DEF StackOK, Descends, Top
<1>5. Top.of # 0 /\ SitesOf(Top.of) = fixtures[Top.of].deps /\ ScopeOf(Top.of) = fixtures[Top.of].scope
  BY <1>2, <1>4 DEF SitesOf, ScopeOf
<1>6. /\ Len(fixtures[Top.of].deps) \in Nat
      /\ DOMAIN fixtures[Top.of].deps = 1..Len(fixtures[Top.of].deps)
  BY <1>2, <1>4, DeclaredType DEF CanLeave
<1>7. Filled(steps, Top.of, Top.args)  BY <1>2 DEF StackOK, Top
<1>8. Len(Top.args) = Len(fixtures[Top.of].deps)
  <2>1. ~(Len(Top.args) < Len(fixtures[Top.of].deps))  BY <1>1, <1>5 DEF CanLeave, Pending
  <2>2. Len(Top.args) <= Len(fixtures[Top.of].deps)  BY <1>5, <1>7 DEF Filled
  <2> QED BY <2>1, <2>2, <1>2, <1>6
<1>9. DOMAIN Top.args = DOMAIN fixtures[Top.of].deps  BY <1>2, <1>6, <1>8
<1>10. \A a \in DOMAIN Top.args :
         /\ Top.args[a] \in DOMAIN steps
         /\ steps[Top.args[a]].fixture = fixtures[Top.of].deps[a]
         /\ Rank[fixtures[fixtures[Top.of].deps[a]].scope] >= Rank[fixtures[Top.of].scope]
  BY <1>5, <1>7 DEF Filled
<1> QED BY <1>1, <1>2, <1>3, <1>4, <1>5, <1>8, <1>9, <1>10

(* Its ancestors are those of its fixture in every plan.                   *)
LEMMA LeavingAncestors ==
    ASSUME CanLeave
    PROVE  Ancestors(Top.args, Top.of) = Anc[Top.of] /\ Anc[Top.of] \in Seq(Nat)
<1> DEFINE f    == Top.of
           ofSteps == [i \in DOMAIN Top.args |-> steps[Top.args[i]].ancestors]
           ofDeps  == [i \in DOMAIN fixtures[f].deps |-> Anc[fixtures[f].deps[i]]]
<1>1. Inherited(steps)
  <2>1. StepsOK(steps)  BY Leaving, WalkTypes DEF CanLeave
  <2> QED BY <2>1 DEF StepsOK
<1>2. \A i \in DOMAIN Top.args : steps[Top.args[i]].ancestors = Anc[fixtures[f].deps[i]]
  BY <1>1, Leaving DEF Inherited
<1>3. ofSteps = ofDeps  BY <1>2, Leaving
<1>4. Ancestors(Top.args, f) = OrderedUnion(Append(ofSteps, Own(f)))  BY DEF Ancestors, Own
<1>5. Lists(Anc, f) = Append(ofDeps, Own(f))  BY DEF Lists
<1>6. Anc[f] \in Seq(Nat) /\ Anc[f] = OrderedUnion(Lists(Anc, f))  BY Leaving, AncIs DEF CanLeave
<1> HIDE DEF ofSteps, ofDeps
<1> QED BY <1>3, <1>4, <1>5, <1>6

(* The plan gains a step at its end, and no other changes.                 *)
LEMMA NewStepsAre ==
    ASSUME CanLeave
    PROVE  /\ NewSteps \in Steps /\ Len(NewSteps) = Len(steps) + 1 /\ Len(steps) \in Nat
           /\ DOMAIN NewSteps = 1..(Len(steps) + 1) /\ DOMAIN steps = 1..Len(steps)
           /\ \A i \in DOMAIN steps : i \in DOMAIN NewSteps /\ NewSteps[i] = steps[i]
           /\ NewSteps[Len(steps) + 1].fixture = Top.of /\ NewSteps[Len(steps) + 1].args = Top.args
           /\ NewSteps[Len(steps) + 1].ancestors = Anc[Top.of]
<1>1. StepOf(Top) \in [fixture : 1..MaxFixtures, args : Seq(Nat), ancestors : Seq(Nat)]
  BY Leaving, LeavingAncestors DEF StepOf
<1>2. StepsOK(steps) /\ DOMAIN steps = 1..Len(steps) /\ Len(steps) \in Nat  BY Leaving, WalkTypes DEF CanLeave
<1>3. steps \in Seq([fixture : 1..MaxFixtures, args : Seq(Nat), ancestors : Seq(Nat)])  BY <1>2 DEF StepsOK, Steps
<1>4. /\ NewSteps \in Steps /\ Len(NewSteps) = Len(steps) + 1
      /\ \A i \in 1..Len(steps) : NewSteps[i] = steps[i]
      /\ NewSteps[Len(steps) + 1] = StepOf(Top)
  BY <1>1, <1>3, AppendProperties DEF NewSteps, Steps
<1>5. DOMAIN NewSteps = 1..(Len(steps) + 1)  BY <1>4, PlanType
<1>6. \A i \in 1..Len(steps) : i \in 1..(Len(steps) + 1)  BY <1>2
<1>7. /\ StepOf(Top).fixture = Top.of /\ StepOf(Top).args = Top.args
      /\ StepOf(Top).ancestors = Anc[Top.of]
  BY LeavingAncestors DEF StepOf
<1> QED BY <1>2, <1>4, <1>5, <1>6, <1>7

(* What the test only uses is walked first: when one of it is still without *)
(* a step, all steps are for it.                                            *)
LEMMA AheadIsFirst ==
    ASSUME CanLeave, Top.of \in Ahead(use), Shareable(Top.of)
    PROVE  \A i \in DOMAIN steps : steps[i].fixture \in Ahead(use)
<1>1. /\ IsUse(use) /\ MaxFixtures \in Nat /\ Len(fixtures) = MaxFixtures /\ DOMAIN fixtures = 1..MaxFixtures
      /\ StepsOK(steps) /\ MemoOK(steps, memo) /\ StackOK(steps, memo, stack)
      /\ 1 \in DOMAIN stack /\ DOMAIN stack[1].args = 1..Len(stack[1].args) /\ Len(stack[1].args) \in Nat
      /\ DOMAIN steps = 1..Len(steps)
  BY Leaving, WalkTypes DEF CanLeave
<1>2. CASE Len(stack[1].args) < Len(use.implicit)  BY <1>1, <1>2 DEF StackOK, Phase
<1>3. CASE ~(Len(stack[1].args) < Len(use.implicit))
  <2> DEFINE s == use.implicit
             t == use.roots
             given == stack[1].args
  <2>1. /\ s \in Seq(1..MaxFixtures) /\ t \in Seq(1..MaxFixtures)
        /\ Len(s) \in Nat /\ Len(t) \in Nat /\ DOMAIN s = 1..Len(s)
    BY <1>1, LenProperties DEF IsUse
  <2>2. /\ Filled(steps, 0, given)
    BY <1>1 DEF StackOK, Descends
  <2>3. SitesOf(0) = s \o t  BY DEF SitesOf
  <2>4. DOMAIN given = 1..Len(given) /\ Len(given) \in Nat /\ ~(Len(given) < Len(s))  BY <1>1, <1>3
  <2>5. \A a \in DOMAIN given : given[a] \in DOMAIN steps /\ steps[given[a]].fixture = (s \o t)[a]
    BY <2>2, <2>3 DEF Filled
  <2>6. ToSet(s) \subseteq 1..MaxFixtures  BY <2>1, FiniteMembers
  <2>7. Ahead(use) = Reach(ToSet(s))  BY DEF Ahead
  <2> HIDE DEF s, t, given
  <2>8. \A f \in ToSet(s) : \E i \in DOMAIN steps : steps[i].fixture = f
    <3> SUFFICES ASSUME NEW a \in 1..Len(s) PROVE \E i \in DOMAIN steps : steps[i].fixture = s[a]
      BY <2>1 DEF ToSet
    <3>1. a \in DOMAIN given /\ a \in 1..(Len(s) + Len(t)) /\ a <= Len(s)  BY <2>1, <2>4
    <3>2. (s \o t)[a] = s[a]  BY <2>1, <3>1, ConcatIs
    <3> QED BY <2>5, <3>1, <3>2
  <2>9. \A f \in Ahead(use) : \E i \in DOMAIN steps : steps[i].fixture = f
    <3>1. steps \in Steps /\ Ordered(steps) /\ Declared  BY <1>1 DEF StepsOK, Planned, CanLeave
    <3>2. ToSet(s) \in SUBSET DOMAIN fixtures  BY <1>1, <2>6
    <3> QED BY <2>7, <2>8, <3>1, <3>2, Stepped
  <2>10. PICK i \in DOMAIN steps : steps[i].fixture = Top.of  BY <2>9
  <2>11. memo[Top.of] = i  BY <2>10, <1>1 DEF MemoOK
  <2>12. memo[Top.of] = 0 /\ i \in 1..Len(steps)  BY <1>1, Leaving
  <2> QED BY <2>11, <2>12
<1> QED BY <1>2, <1>3

(* The longer plan is in order: the step is above all it is built over,    *)
(* shared if it can be, and inherits from them.                            *)
LEMMA NewStepsOK ==
    ASSUME CanLeave
    PROVE  StepsOK(NewSteps)
<1> DEFINE id  == Len(steps) + 1
           new == NewSteps
           f   == Top.of
<1>1. /\ StepsOK(steps) /\ MemoOK(steps, memo) /\ StackOK(steps, memo, stack) /\ steps \in Steps
      /\ Planned(steps, use) /\ Inherited(steps)
      /\ DOMAIN steps = 1..Len(steps) /\ Len(steps) \in Nat
      /\ Ordered(steps) /\ Shared(steps) /\ AheadFirst(steps, Ahead(use)) /\ OnePlace(steps)
  BY Leaving, WalkTypes DEF CanLeave, StepsOK, Planned
<1>2. /\ new \in Steps /\ DOMAIN new = 1..id /\ Len(steps) \in Nat
      /\ \A i \in DOMAIN steps : new[i] = steps[i]
      /\ new[id].fixture = f /\ new[id].args = Top.args /\ new[id].ancestors = Anc[f]
  BY NewStepsAre
<1>3. \A i \in DOMAIN new : (i \in DOMAIN steps /\ i < id) \/ i = id
  <2> HIDE DEF new
  <2> QED BY <1>1, <1>2
<1>4. id \in DOMAIN new /\ \A i \in DOMAIN steps : i \in DOMAIN new /\ i < id
  <2> HIDE DEF new
  <2> QED BY <1>1, <1>2
<1> HIDE DEF new
<1>5. \A i \in DOMAIN steps : \A a \in DOMAIN steps[i].args : steps[i].args[a] \in DOMAIN steps
  <2> SUFFICES ASSUME NEW i \in DOMAIN steps, NEW a \in DOMAIN steps[i].args
               PROVE  steps[i].args[a] \in DOMAIN steps
    OBVIOUS
  <2>1. steps[i].args[a] \in 1..(i - 1)  BY <1>1 DEF Ordered
  <2> QED BY <2>1, <1>1
<1>6. \A a \in DOMAIN Top.args : Top.args[a] \in DOMAIN steps  BY Leaving
<1>7. Ordered(new)
  <2> SUFFICES ASSUME NEW i \in DOMAIN new
               PROVE  /\ new[i].fixture \in DOMAIN fixtures
                      /\ new[i].args \in Seq(Nat) /\ Len(new[i].args) = Len(fixtures[new[i].fixture].deps)
                      /\ \A a \in DOMAIN new[i].args :
                           /\ new[i].args[a] \in 1..(i - 1)
                           /\ new[new[i].args[a]].fixture = fixtures[new[i].fixture].deps[a]
                           /\ Rank[fixtures[fixtures[new[i].fixture].deps[a]].scope]
                                >= Rank[fixtures[new[i].fixture].scope]
    BY DEF Ordered
  <2>1. CASE i \in DOMAIN steps
    <3>1. /\ steps[i].fixture \in DOMAIN fixtures
          /\ steps[i].args \in Seq(Nat) /\ Len(steps[i].args) = Len(fixtures[steps[i].fixture].deps)
          /\ \A a \in DOMAIN steps[i].args :
               /\ steps[i].args[a] \in 1..(i - 1)
               /\ steps[steps[i].args[a]].fixture = fixtures[steps[i].fixture].deps[a]
               /\ Rank[fixtures[fixtures[steps[i].fixture].deps[a]].scope] >= Rank[fixtures[steps[i].fixture].scope]
      BY <2>1, <1>1 DEF Ordered
    <3>2. new[i] = steps[i]  BY <2>1, <1>2
    <3>3. \A a \in DOMAIN steps[i].args : new[steps[i].args[a]] = steps[steps[i].args[a]]  BY <2>1, <1>2, <1>5
    <3> QED BY <3>1, <3>2, <3>3
  <2>2. CASE i = id
    <3>1. \A a \in DOMAIN Top.args : Top.args[a] \in 1..(id - 1)  BY <1>1, <1>6
    <3> QED BY <2>2, <3>1, <1>2, <1>6, Leaving
  <2> QED BY <2>1, <2>2, <1>3
<1>8. Shared(new)
  <2>1. ASSUME NEW i \in DOMAIN steps, steps[i].fixture = f PROVE ~Shareable(f)
    <3>1. Shareable(f) => memo[f] = i /\ memo[f] = 0  BY <2>1, <1>1, Leaving DEF MemoOK
    <3> QED BY <3>1, <1>1
  <2> SUFFICES ASSUME NEW i \in DOMAIN new, NEW j \in DOMAIN new, i # j, new[i].fixture = new[j].fixture
               PROVE  ~Shareable(new[i].fixture)
    BY DEF Shared
  <2>2. CASE i \in DOMAIN steps /\ j \in DOMAIN steps  BY <2>2, <1>1, <1>2 DEF Shared
  <2>3. CASE i = id \/ j = id  BY <2>1, <2>3, <1>2, <1>3
  <2> QED BY <2>2, <2>3, <1>3
<1>9. AheadFirst(new, Ahead(use))
  <2> SUFFICES ASSUME NEW i \in DOMAIN new, NEW j \in DOMAIN new,
                      new[i].fixture \in Ahead(use), Shareable(new[i].fixture), new[j].fixture \notin Ahead(use)
               PROVE  i < j
    BY DEF AheadFirst
  <2>1. CASE i \in DOMAIN steps /\ j \in DOMAIN steps  BY <2>1, <1>1, <1>2 DEF AheadFirst
  <2>2. CASE i = id  BY <2>2, <1>2, <1>3, AheadIsFirst
  <2>3. CASE i \in DOMAIN steps /\ j = id  BY <2>3, <1>4
  <2> QED BY <2>1, <2>2, <2>3, <1>3
<1>10. OnePlace(new)
  <2>1. /\ ApartWithin(steps, Top.args)
        /\ \A i \in DOMAIN steps : Apart(steps, Top.args, steps[i].args)
    BY <1>1, Leaving DEF StackOK, CallsApart, Top
  <2>2. ApartWithin(new, new[id].args)  BY <2>1, <1>2, <1>6 DEF ApartWithin
  <2>3. \A i \in DOMAIN steps : ApartWithin(new, new[i].args)  BY <1>1, <1>2, <1>5 DEF ApartWithin, OnePlace
  <2>4. \A j \in DOMAIN steps : Apart(new, new[id].args, new[j].args)  BY <2>1, <1>2, <1>6 DEF Apart
  <2>5. \A i \in DOMAIN steps : Apart(new, new[i].args, new[id].args)
    <3> SUFFICES ASSUME NEW i \in DOMAIN steps, NEW a \in DOMAIN new[i].args, NEW b \in DOMAIN new[id].args,
                        new[i].args[a] = new[id].args[b]
                 PROVE  Shareable(new[new[i].args[a]].fixture)
      BY DEF Apart
    <3> QED BY <2>4 DEF Apart
  <2>6. \A i, j \in DOMAIN steps : i # j => Apart(new, new[i].args, new[j].args)
    <3> SUFFICES ASSUME NEW i \in DOMAIN steps, NEW j \in DOMAIN steps, i # j
                 PROVE  Apart(new, new[i].args, new[j].args)
      OBVIOUS
    <3>1. Apart(steps, steps[i].args, steps[j].args)  BY <1>1 DEF OnePlace
    <3> QED BY <3>1, <1>2, <1>5 DEF Apart
  <2>7. ASSUME NEW i \in DOMAIN new
        PROVE  /\ ApartWithin(new, new[i].args)
               /\ \A j \in DOMAIN new : i # j => Apart(new, new[i].args, new[j].args)
    <3>1. CASE i \in DOMAIN steps  BY <3>1, <2>3, <2>5, <2>6, <1>3
    <3>2. CASE i = id  BY <3>2, <2>2, <2>4, <1>3
    <3> QED BY <3>1, <3>2, <1>3
  <2> QED BY <2>7 DEF OnePlace
<1>11. \A i \in DOMAIN new : new[i].fixture \in Needs(use)
  BY <1>1, <1>2, <1>3, Leaving DEF Planned
<1>12. Inherited(new)  BY <1>1, <1>2, <1>3 DEF Inherited
<1>13. StepsOK(new)  BY <1>2, <1>7, <1>8, <1>9, <1>10, <1>11, <1>12 DEF StepsOK, Planned
<1> QED BY <1>13 DEF new

(* The memo still knows every step that is for sharing, and no other.      *)
LEMMA NewMemoOK ==
    ASSUME CanLeave
    PROVE  MemoOK(NewSteps, NewMemo)
<1> DEFINE id  == Len(steps) + 1
           f   == Top.of
<1>1. /\ MemoOK(steps, memo) /\ DOMAIN steps = 1..Len(steps) /\ Len(steps) \in Nat /\ steps \in Steps
  BY Leaving, WalkTypes DEF CanLeave, StepsOK
<1>2. /\ DOMAIN NewSteps = 1..id
      /\ \A i \in DOMAIN steps : i \in DOMAIN NewSteps /\ NewSteps[i] = steps[i]
      /\ NewSteps[id].fixture = f
  BY NewStepsAre
<1>3. f \in 1..MaxFixtures /\ memo \in [1..MaxFixtures -> Nat] /\ id \in Nat /\ id \in DOMAIN NewSteps
  BY <1>1, <1>2, Leaving DEF MemoOK
<1>4. \A i \in DOMAIN NewSteps : i \in DOMAIN steps \/ i = id  BY <1>1, <1>2
<1>5. \A i \in DOMAIN steps : steps[i].fixture \in 1..MaxFixtures  BY <1>1, PlanType
<1>6. CASE Shareable(f)
  <2>1. NewMemo = [memo EXCEPT ![f] = id]  BY <1>6 DEF NewMemo
  <2>2. \A i \in DOMAIN steps : steps[i].fixture # f
    <3> SUFFICES ASSUME NEW i \in DOMAIN steps, steps[i].fixture = f PROVE FALSE  OBVIOUS
    <3>1. memo[f] = i /\ memo[f] = 0  BY <1>1, <1>6, Leaving DEF MemoOK
    <3> QED BY <3>1, <1>1
  <2>3. NewMemo \in [1..MaxFixtures -> Nat] /\ NewMemo[f] = id
        /\ \A g \in 1..MaxFixtures : g # f => NewMemo[g] = memo[g]
    BY <2>1, <1>3
  <2>4. \A g \in 1..MaxFixtures : NewMemo[g] # 0 =>
          NewMemo[g] \in DOMAIN NewSteps /\ NewSteps[NewMemo[g]].fixture = g /\ Shareable(g)
    <3> SUFFICES ASSUME NEW g \in 1..MaxFixtures, NewMemo[g] # 0
                 PROVE  NewMemo[g] \in DOMAIN NewSteps /\ NewSteps[NewMemo[g]].fixture = g /\ Shareable(g)
      OBVIOUS
    <3>1. CASE g = f  BY <3>1, <2>3, <1>2, <1>3, <1>6
    <3>2. CASE g # f  BY <3>2, <2>3, <1>1, <1>2 DEF MemoOK
    <3> QED BY <3>1, <3>2
  <2>5. \A i \in DOMAIN NewSteps : Shareable(NewSteps[i].fixture) => NewMemo[NewSteps[i].fixture] = i
    <3> SUFFICES ASSUME NEW i \in DOMAIN NewSteps, Shareable(NewSteps[i].fixture)
                 PROVE  NewMemo[NewSteps[i].fixture] = i
      OBVIOUS
    <3>1. CASE i = id  BY <3>1, <2>3, <1>2
    <3>2. CASE i \in DOMAIN steps  BY <3>2, <2>2, <2>3, <1>1, <1>2, <1>5 DEF MemoOK
    <3> QED BY <3>1, <3>2, <1>4
  <2> QED BY <2>3, <2>4, <2>5 DEF MemoOK
<1>7. CASE ~Shareable(f)
  <2>1. NewMemo = memo  BY <1>7 DEF NewMemo
  <2>2. \A g \in 1..MaxFixtures : memo[g] # 0 =>
          memo[g] \in DOMAIN NewSteps /\ NewSteps[memo[g]].fixture = g /\ Shareable(g)
    BY <1>1, <1>2 DEF MemoOK
  <2>3. \A i \in DOMAIN NewSteps : Shareable(NewSteps[i].fixture) => memo[NewSteps[i].fixture] = i
    BY <1>1, <1>2, <1>4, <1>7 DEF MemoOK
  <2> QED BY <2>1, <2>2, <2>3, <1>3 DEF MemoOK
<1> QED BY <1>6, <1>7

(* The outer calls are as they were, and the innermost of them is at a site *)
(* for the new step, which no other site was given.                        *)
LEMMA NewStackOK ==
    ASSUME CanLeave
    PROVE  StackOK(NewSteps, NewMemo, Given(Front(stack), Len(steps) + 1))
<1> DEFINE id  == Len(steps) + 1
           f   == Top.of
           n   == Len(stack)
           calls == Front(stack)
<1>1. /\ StackOK(steps, memo, stack) /\ stack \in Frames /\ n \in Nat /\ DOMAIN stack = 1..n
      /\ DOMAIN steps = 1..Len(steps) /\ Len(steps) \in Nat /\ MemoOK(steps, memo)
      /\ Len(use.implicit) \in Nat /\ n > 1 /\ StepsOK(steps)
  BY Leaving, WalkTypes DEF CanLeave, StackOK
<1>2. /\ calls \in Frames /\ calls # <<>> /\ Len(calls) = n - 1
      /\ \A k \in 1..(n - 1) : calls[k] = stack[k]
  BY <1>1, FrontIs
<1>3. DOMAIN calls = 1..(n - 1)  BY <1>2, FramesType
<1>4. /\ DOMAIN NewSteps = 1..id /\ NewSteps \in Steps
      /\ \A i \in DOMAIN steps : i \in DOMAIN NewSteps /\ NewSteps[i] = steps[i]
      /\ NewSteps[id].fixture = f /\ NewSteps[id].args = Top.args
  BY NewStepsAre
<1>5. Top = stack[n]  BY DEF Top
<1> HIDE DEF calls, n
<1>6. \A k \in 1..(n - 1) : k \in DOMAIN stack /\ k # n  BY <1>1
<1>7. \A i \in DOMAIN NewSteps : i \in DOMAIN steps \/ i = id  BY <1>1, <1>4
<1>8. \A k \in DOMAIN stack : \A a \in DOMAIN stack[k].args : stack[k].args[a] \in DOMAIN steps
  BY <1>1 DEF StackOK, Filled
<1>9. \A i \in DOMAIN steps : \A a \in DOMAIN steps[i].args : steps[i].args[a] \in DOMAIN steps
  <2> SUFFICES ASSUME NEW i \in DOMAIN steps, NEW a \in DOMAIN steps[i].args
               PROVE  steps[i].args[a] \in DOMAIN steps
    OBVIOUS
  <2>1. steps[i].args[a] \in 1..(i - 1)  BY <1>1 DEF StepsOK, Planned, Ordered
  <2> QED BY <2>1, <1>1
<1>10. Descends(memo, stack)  BY <1>1 DEF StackOK
<1>11. Descends(NewMemo, calls)
  <2>1. calls[1].of = 0
    <3>1. 1 \in 1..(n - 1)  BY <1>1 DEF n
    <3> QED BY <3>1, <1>2, <1>10 DEF Descends
  <2>2. \A k \in 2..(n - 1) : k \in 1..(n - 1) /\ k \in 2..n /\ n \in (k + 1)..n  BY <1>1
  <2>3. ASSUME NEW k \in 2..(n - 1)
        PROVE  /\ calls[k].of \in 1..MaxFixtures /\ calls[k].of \in Needs(use)
               /\ Shareable(calls[k].of) => NewMemo[calls[k].of] = 0
    <3>1. /\ stack[k].of \in 1..MaxFixtures /\ stack[k].of \in Needs(use)
          /\ Shareable(stack[k].of) => memo[stack[k].of] = 0
          /\ stack[n].of < stack[k].of
      BY <2>2, <1>10 DEF Descends, n
    <3>2. stack[k].of # f  BY <3>1, <1>5, Leaving
    <3>3. NewMemo[stack[k].of] = memo[stack[k].of]
      BY <3>1, <3>2, <1>1 DEF NewMemo, MemoOK
    <3> QED BY <3>1, <3>3, <2>2, <1>2
  <2>4. ASSUME NEW k \in 2..(n - 1), NEW l \in (k + 1)..(n - 1) PROVE calls[l].of < calls[k].of
    <3>1. k \in 2..n /\ l \in (k + 1)..n /\ k \in 1..(n - 1) /\ l \in 1..(n - 1)  BY <1>1
    <3>2. stack[l].of < stack[k].of  BY <3>1, <1>10 DEF Descends, n
    <3> QED BY <3>1, <3>2, <1>2
  <2>5. ASSUME NEW k \in 1..(n - 1 - 1) PROVE AtSite(calls[k], calls[k + 1].of)
    <3>1. k \in 1..(n - 1) /\ k + 1 \in 1..(n - 1)  BY <1>1
    <3>2. AtSite(stack[k], stack[k + 1].of)  BY <3>1, <1>10 DEF Descends, n
    <3> QED BY <3>1, <3>2, <1>2
  <2> QED BY <2>1, <2>3, <2>4, <2>5, <1>2 DEF Descends
<1>12. CallsApart(NewSteps, calls)
  <2> SUFFICES ASSUME NEW k \in 1..(n - 1)
               PROVE  /\ ApartWithin(NewSteps, stack[k].args)
                      /\ \A l \in 1..(n - 1) : k # l => Apart(NewSteps, stack[k].args, stack[l].args)
                      /\ \A i \in DOMAIN NewSteps : Apart(NewSteps, stack[k].args, NewSteps[i].args)
    BY <1>2, <1>3 DEF CallsApart
  <2>1. /\ ApartWithin(steps, stack[k].args)
        /\ \A l \in DOMAIN stack : k # l => Apart(steps, stack[k].args, stack[l].args)
        /\ \A i \in DOMAIN steps : Apart(steps, stack[k].args, steps[i].args)
    BY <1>1, <1>6 DEF StackOK, CallsApart
  <2>2. ApartWithin(NewSteps, stack[k].args)  BY <2>1, <1>4, <1>6, <1>8 DEF ApartWithin
  <2>3. \A l \in DOMAIN stack : k # l => Apart(NewSteps, stack[k].args, stack[l].args)
    BY <2>1, <1>4, <1>6, <1>8 DEF Apart
  <2>4. n \in DOMAIN stack  BY <1>1
  <2>5. Apart(NewSteps, stack[k].args, NewSteps[id].args)  BY <2>3, <2>4, <1>4, <1>5, <1>6
  <2>6. \A i \in DOMAIN steps : Apart(NewSteps, stack[k].args, NewSteps[i].args)
    BY <2>1, <1>4, <1>6, <1>8 DEF Apart
  <2> QED BY <2>2, <2>3, <2>5, <2>6, <1>6, <1>7
<1>13. Phase(NewSteps, calls)
  <2> SUFFICES ASSUME Len(calls[1].args) < Len(use.implicit)
               PROVE  /\ \A k \in 2..(n - 1) : calls[k].of \in Ahead(use)
                      /\ \A i \in DOMAIN NewSteps : NewSteps[i].fixture \in Ahead(use)
    BY <1>2 DEF Phase
  <2>1. 1 \in 1..(n - 1)  BY <1>1 DEF n
  <2>2. Phase(steps, stack) /\ calls[1] = stack[1]  BY <1>1, <1>2, <2>1 DEF StackOK
  <2>3. /\ \A k \in 2..n : stack[k].of \in Ahead(use)
        /\ \A i \in DOMAIN steps : steps[i].fixture \in Ahead(use)
    BY <2>2 DEF Phase, n
  <2>4. \A k \in 2..(n - 1) : k \in 2..n /\ k \in 1..(n - 1)  BY <1>1
  <2>5. n \in 2..n  BY <1>1 DEF n
  <2> QED BY <2>3, <2>4, <2>5, <1>2, <1>4, <1>5, <1>7
<1>14. \A k \in DOMAIN calls : Filled(NewSteps, calls[k].of, calls[k].args)
  <2> SUFFICES ASSUME NEW k \in 1..(n - 1) PROVE Filled(NewSteps, stack[k].of, stack[k].args)
    BY <1>2, <1>3
  <2>1. Filled(steps, stack[k].of, stack[k].args)  BY <1>1, <1>6 DEF StackOK
  <2> QED BY <2>1, <1>4 DEF Filled
<1>15. StackOK(NewSteps, NewMemo, calls)  BY <1>2, <1>11, <1>12, <1>13, <1>14 DEF StackOK
<1>16. AtSite(calls[Len(calls)], NewSteps[id].fixture)
  <2>1. n - 1 \in 1..(n - 1) /\ n - 1 + 1 = n  BY <1>1 DEF n
  <2>2. AtSite(stack[n - 1], stack[n].of)  BY <2>1, <1>10 DEF Descends, n
  <2> QED BY <2>1, <2>2, <1>2, <1>4, <1>5
<1>17. id \in DOMAIN NewSteps /\ id \notin DOMAIN steps  BY <1>1, <1>4
<1>18. \A k \in DOMAIN calls : \A a \in DOMAIN calls[k].args : calls[k].args[a] # id
  BY <1>2, <1>3, <1>6, <1>8, <1>17
<1>19. \A i \in DOMAIN NewSteps : \A a \in DOMAIN NewSteps[i].args : NewSteps[i].args[a] # id
  <2> SUFFICES ASSUME NEW i \in DOMAIN NewSteps, NEW a \in DOMAIN NewSteps[i].args PROVE NewSteps[i].args[a] # id
    OBVIOUS
  <2>1. CASE i \in DOMAIN steps  BY <2>1, <1>4, <1>9, <1>17
  <2>2. CASE i = id  BY <2>2, <1>4, <1>17, Leaving
  <2> QED BY <2>1, <2>2, <1>7
<1>20. StackOK(NewSteps, NewMemo, Given(calls, id))
  BY <1>1, <1>4, <1>15, <1>16, <1>17, <1>18, <1>19, GivenKeeps
<1> QED BY <1>20 DEF calls

----------------------------------------------------------------------------
(* The steps of a walk.                                                    *)

(* So do finished plans and the records made of them.                      *)
LEMMA FrameRecords ==
    ASSUME fixtures' = fixtures
    PROVE  /\ \A plan, u, at : Finished(plan, u, at)' <=> Finished(plan, u, at)
           /\ \A t, u, plan, at : RecordsOf(t, u, plan, at)' = RecordsOf(t, u, plan, at)
           /\ \A u : Axes(u)' = Axes(u)
<1>1. \A plan, u, at : Finished(plan, u, at)' <=> Finished(plan, u, at)
  <2> TAKE plan, u, at
  <2>1. (plan \in Steps)' <=> plan \in Steps  BY DEF Steps
  <2>2. Planned(plan, u)' <=> Planned(plan, u)  BY Frame
  <2>3. Inherited(plan)' <=> Inherited(plan)  BY Frame
  <2>4. ApartWithin(plan, at)' <=> ApartWithin(plan, at)  BY Frame
  <2>5. \A other : Apart(plan, at, other)' <=> Apart(plan, at, other)  BY Frame
  <2> QED BY <2>1, <2>2, <2>3, <2>4, <2>5 DEF Finished
<1>2. \A axes : Combos(axes)' = Combos(axes)  BY DEF Combos
<1>3. \A plan, chosen : Specialised(plan, chosen)' = Specialised(plan, chosen)  BY DEF Specialised
<1>4. \A ancestors, chosen : CaseId(ancestors, chosen)' = CaseId(ancestors, chosen)  BY DEF CaseId
<1>5. \A t, u, plan, at, case, chosen :
        RecordOf(t, u, plan, at, case, chosen)' = RecordOf(t, u, plan, at, case, chosen)
  BY <1>3, <1>4 DEF RecordOf
<1>6. \A t, u, plan, at : RecordsOf(t, u, plan, at)' = RecordsOf(t, u, plan, at)
  BY <1>2, <1>5 DEF RecordsOf
<1>7. \A u : Axes(u)' = Axes(u)  BY Frame DEF Axes
<1> QED BY <1>1, <1>6, <1>7

(* And what is said of a walk, while its test stays the same.              *)
LEMMA FrameWalk ==
    ASSUME fixtures' = fixtures, use' = use
    PROVE  /\ \A plan : StepsOK(plan)' <=> StepsOK(plan)
           /\ \A plan, shared : MemoOK(plan, shared)' <=> MemoOK(plan, shared)
           /\ \A plan, shared, calls : StackOK(plan, shared, calls)' <=> StackOK(plan, shared, calls)
<1>1. \A plan : StepsOK(plan)' <=> StepsOK(plan)  BY Frame DEF StepsOK
<1>2. \A plan, shared : MemoOK(plan, shared)' <=> MemoOK(plan, shared)  BY Frame DEF MemoOK
<1>3. \A f : SitesOf(f)' = SitesOf(f)  BY DEF SitesOf
<1>4. \A f : ScopeOf(f)' = ScopeOf(f)  BY DEF ScopeOf
<1>5. \A plan, f, args : Filled(plan, f, args)' <=> Filled(plan, f, args)  BY <1>3, <1>4 DEF Filled
<1>6. \A call, d : AtSite(call, d)' <=> AtSite(call, d)  BY <1>3, <1>4 DEF AtSite
<1>7. Needs(use)' = Needs(use) /\ Ahead(use)' = Ahead(use)  BY DEF Needs, Ahead, Reach, Closed
<1>8. \A shared, calls : Descends(shared, calls)' <=> Descends(shared, calls)  BY <1>6, <1>7, Frame DEF Descends
<1>9. \A plan, calls : CallsApart(plan, calls)' <=> CallsApart(plan, calls)  BY Frame DEF CallsApart
<1>10. \A plan, calls : Phase(plan, calls)' <=> Phase(plan, calls)  BY <1>7 DEF Phase
<1>11. \A plan, shared, calls : StackOK(plan, shared, calls)' <=> StackOK(plan, shared, calls)
  BY <1>5, <1>8, <1>9, <1>10 DEF StackOK
<1> QED BY <1>1, <1>2, <1>11

(* While nothing is declared or collected, only the walk is at stake.      *)
LEMMA Still ==
    ASSUME IInv, fixtures' = fixtures, collected' = collected, records' = records
    PROVE  Declared' /\ (\E anc : Lineage(anc))' /\ Collected'
<1>1. Declared'  BY DEF IInv, Declared
<1>2. (\E anc : Lineage(anc))'  BY Frame DEF IInv
<1>3. Collected'
  <2>1. \A k : Mine(k)' = Mine(k)  BY DEF Mine
  <2> QED BY <2>1, Frame, FrameRecords DEF IInv, Collected
<1> QED BY <1>1, <1>2, <1>3

(* A walk that has begun goes on, with nothing but the walk changed.       *)
LEMMA Onward ==
    ASSUME IInv, stack # <<>>, UNCHANGED <<fixtures, collected, records, use>>,
           StepsOK(steps'), MemoOK(steps', memo'), StackOK(steps', memo', stack')
    PROVE  IInv'
<1>1. Declared' /\ (\E anc : Lineage(anc))' /\ Collected'  BY Still
<1>2. Walking'
  <2>1. /\ Len(fixtures) = MaxFixtures /\ Len(collected) < Len(Tests)
        /\ use \in UsesOf[Tests[Len(collected) + 1]]
    BY DEF IInv, Walking
  <2>2. StepsOK(steps)' /\ MemoOK(steps, memo)' /\ StackOK(steps, memo, stack)'  
    <3>1. fixtures' = fixtures /\ use' = use  OBVIOUS
    <3>2. StepsOK(steps)' <=> StepsOK(steps')  BY <3>1, FrameWalk
    <3>3. MemoOK(steps, memo)' <=> MemoOK(steps', memo')  BY <3>1, FrameWalk
    <3>4. StackOK(steps, memo, stack)' <=> StackOK(steps', memo', stack')  BY <3>1, FrameWalk
    <3> QED BY <3>2, <3>3, <3>4
  <2> QED BY <2>1, <2>2 DEF Walking
<1> QED BY <1>1, <1>2 DEF IInv

(* The innermost call is at a site that may have its source.               *)
LEMMA Accepted ==
    ASSUME IInv, Pending, ~Refused(Source, Top.of)
    PROVE  AtSite(Top, Source)
<1>1. /\ Source \in 1..MaxFixtures /\ Top.of \in Needs(use) \cup {0}
      /\ Len(Top.args) + 1 \in 1..Len(SitesOf(Top.of)) /\ Len(SitesOf(Top.of)) \in Nat
  BY SourceIs DEF IInv
<1>2. /\ IsUse(use) /\ DOMAIN fixtures = 1..MaxFixtures /\ MaxFixtures \in Nat
  BY WalkTypes DEF IInv, Pending
<1>3. Top.of \in DOMAIN fixtures \cup {0}
  <2>1. Needs(use) \subseteq DOMAIN fixtures
    <3>1. ToSet(use.implicit) \in SUBSET DOMAIN fixtures /\ ToSet(use.roots) \in SUBSET DOMAIN fixtures
      BY <1>2, FiniteMembers DEF IsUse
    <3>2. ToSet(use.implicit) \cup ToSet(use.roots) \in SUBSET DOMAIN fixtures  BY <3>1
    <3> QED BY <3>2, ReachIs DEF Needs, IInv
  <2> QED BY <1>1, <2>1
<1>4. Rank[fixtures[Source].scope] \in Nat /\ Rank[ScopeOf(Top.of)] \in Nat  BY <1>1, <1>2, <1>3, RankIs DEF IInv
<1>5. Rank[fixtures[Source].scope] >= Rank[ScopeOf(Top.of)]  BY <1>4 DEF Refused
<1>6. Len(Top.args) + 1 <= Len(SitesOf(Top.of))  BY <1>1
<1> QED BY <1>5, <1>6 DEF AtSite, Source

(* A site is given the step that others share.                             *)
LEMMA ShareKeeps ==
    ASSUME IInv, Share
    PROVE  IInv'
<1> DEFINE id == memo[Source]
<1>1. /\ Pending /\ ~Refused(Source, Top.of) /\ Shareable(Source) /\ id # 0
      /\ stack' = Given(stack, id)
      /\ UNCHANGED <<fixtures, collected, records, use, steps, memo>>
  BY DEF Share
<1>2. stack # <<>>  BY <1>1 DEF Pending
<1>3. /\ StepsOK(steps) /\ MemoOK(steps, memo) /\ StackOK(steps, memo, stack) /\ Len(use.implicit) \in Nat
      /\ steps \in Steps
  BY <1>2, WalkTypes DEF IInv, StepsOK
<1>4. Source \in 1..MaxFixtures  BY <1>1, SourceIs DEF IInv
<1>5. id \in DOMAIN steps /\ steps[id].fixture = Source  BY <1>1, <1>3, <1>4 DEF MemoOK
<1>6. AtSite(stack[Len(stack)], steps[id].fixture)  BY <1>1, <1>5, Accepted DEF Top
<1>7. Shareable(steps[id].fixture)  BY <1>1, <1>5
<1>8. StackOK(steps, memo, Given(stack, id))  BY <1>3, <1>5, <1>6, <1>7, GivenKeeps
<1> QED BY <1>1, <1>2, <1>3, <1>8, Onward

(* A call begins: what it is for has no step to share, and is below every  *)
(* call under way.                                                         *)
LEMMA EnterKeeps ==
    ASSUME IInv, Enter
    PROVE  IInv'
<1> DEFINE n    == Len(stack)
           call == [of |-> Source, args |-> <<>>]
           new  == Append(stack, call)
<1>1. /\ Pending /\ ~Refused(Source, Top.of) /\ ~(Shareable(Source) /\ memo[Source] # 0)
      /\ stack' = new
      /\ UNCHANGED <<fixtures, collected, records, use, steps, memo>>
  BY DEF Enter
<1>2. stack # <<>>  BY <1>1 DEF Pending
<1>3. /\ StepsOK(steps) /\ MemoOK(steps, memo) /\ StackOK(steps, memo, stack) /\ stack \in Frames
      /\ n \in Nat /\ DOMAIN stack = 1..n /\ n >= 1 /\ n \in DOMAIN stack
      /\ Descends(memo, stack) /\ CallsApart(steps, stack) /\ Phase(steps, stack)
      /\ \A k \in DOMAIN stack : stack[k].args \in Seq(Nat)
  BY <1>2, WalkTypes DEF IInv, StackOK
<1>4. /\ Source \in 1..MaxFixtures /\ Source \in Needs(use)
      /\ Top.of # 0 => Source < Top.of
      /\ Len(stack[1].args) < Len(use.implicit) => Source \in Ahead(use)
      /\ Len(SitesOf(Top.of)) \in Nat
      /\ MaxFixtures \in Nat
  BY <1>1, SourceIs, PlansAssumption DEF IInv
<1>5. call \in [of : 0..MaxFixtures, args : Seq(Nat)] /\ call.of = Source /\ call.args = <<>>  BY <1>4
<1> HIDE DEF call
<1>6. /\ new \in Frames /\ Len(new) = n + 1 /\ DOMAIN new = 1..(n + 1)
      /\ \A k \in 1..n : new[k] = stack[k]
      /\ new[n + 1] = call
  <2>1. stack \in Seq([of : 0..MaxFixtures, args : Seq(Nat)])  BY <1>3 DEF Frames
  <2>2. /\ new \in Frames /\ Len(new) = n + 1
        /\ \A k \in 1..n : new[k] = stack[k]
        /\ new[n + 1] = call
    BY <2>1, <1>5, AppendProperties DEF Frames
  <2> QED BY <2>2, FramesType
<1> HIDE DEF new, n
<1>7. new # <<>>
  <2>1. Len(<<>>) = 0  OBVIOUS
  <2> QED BY <2>1, <1>3, <1>6
<1>8. \A k \in 1..(n + 1) : k \in 1..n \/ k = n + 1  BY <1>3
<1>9. \A k \in 2..(n + 1) : k \in 2..n \/ k = n + 1  BY <1>3
<1>10. Descends(memo, new)
  <2>1. 1 \in 1..n /\ \A k \in 2..n : k \in 1..n  BY <1>3
  <2>2. new[1].of = 0  BY <1>3, <1>6, <2>1 DEF Descends
  <2>3. ASSUME NEW k \in 2..(n + 1)
        PROVE  /\ new[k].of \in 1..MaxFixtures /\ new[k].of \in Needs(use)
               /\ Shareable(new[k].of) => memo[new[k].of] = 0
    <3>1. CASE k \in 2..n  BY <3>1, <2>1, <1>3, <1>6 DEF Descends, n
    <3>2. CASE k = n + 1  BY <3>2, <1>1, <1>4, <1>5, <1>6
    <3> QED BY <3>1, <3>2, <1>9
  <2>4. ASSUME NEW k \in 2..(n + 1), NEW l \in (k + 1)..(n + 1) PROVE new[l].of < new[k].of
    <3>1. k \in 2..n  BY <1>3
    <3>2. CASE l \in (k + 1)..n
      <4>1. stack[l].of < stack[k].of /\ l \in 1..n  BY <3>1, <3>2, <1>3 DEF Descends, n
      <4> QED BY <4>1, <3>1, <2>1, <1>6
    <3>3. CASE l = n + 1
      <4>1. stack[k].of \in 1..MaxFixtures /\ Source < Top.of => Source < stack[k].of
        <5>1. Top.of = stack[n].of  BY DEF Top, n
        <5>2. k = n \/ n \in (k + 1)..n  BY <3>1, <1>3
        <5>3. k = n \/ stack[n].of < stack[k].of  BY <5>2, <3>1, <1>3 DEF Descends, n
        <5>4. stack[k].of \in 1..MaxFixtures /\ stack[n].of \in 0..MaxFixtures
          BY <3>1, <1>3, FramesType DEF Descends, n
        <5> QED BY <5>1, <5>3, <5>4, <1>4
      <4>2. Top.of # 0
        <5>1. n \in 2..n  BY <3>1, <1>3
        <5>2. stack[n].of \in 1..MaxFixtures  BY <5>1, <1>3 DEF Descends, n
        <5> QED BY <5>2, <1>4 DEF Top, n
      <4>3. stack[k].of \in 1..MaxFixtures  BY <3>1, <1>3 DEF Descends, n
      <4> QED BY <4>1, <4>2, <4>3, <3>1, <3>3, <2>1, <1>4, <1>5, <1>6
    <3>4. l \in (k + 1)..n \/ l = n + 1  BY <1>3, <3>1
    <3> QED BY <3>2, <3>3, <3>4
  <2>5. ASSUME NEW k \in 1..n PROVE AtSite(new[k], new[k + 1].of)
    <3>1. CASE k = n
      <4>1. AtSite(Top, Source)  BY <1>1, Accepted
      <4> QED BY <4>1, <3>1, <1>3, <1>5, <1>6 DEF Top, n
    <3>2. CASE k # n
      <4>1. k \in 1..(n - 1) /\ k + 1 \in 1..n  BY <3>2, <1>3
      <4>2. AtSite(stack[k], stack[k + 1].of)  BY <4>1, <1>3 DEF Descends, n
      <4> QED BY <4>1, <4>2, <1>6
    <3> QED BY <3>1, <3>2
  <2>6. \A k \in 1..(Len(new) - 1) : k \in 1..n  BY <1>3, <1>6
  <2> QED BY <2>2, <2>3, <2>4, <2>5, <2>6, <1>6 DEF Descends
<1>11. CallsApart(steps, new)
  <2>1. DOMAIN new[n + 1].args = {}  BY <1>5, <1>6
  <2>2. \A k \in 1..n : ApartWithin(steps, new[k].args)  BY <1>3, <1>6 DEF CallsApart
  <2>3. ApartWithin(steps, new[n + 1].args)  BY <2>1 DEF ApartWithin
  <2>4. ASSUME NEW k \in 1..(n + 1), NEW l \in 1..(n + 1), k # l PROVE Apart(steps, new[k].args, new[l].args)
    <3>1. CASE k \in 1..n /\ l \in 1..n  BY <3>1, <2>4, <1>3, <1>6 DEF CallsApart
    <3>2. CASE k = n + 1 \/ l = n + 1  BY <3>2, <2>1 DEF Apart
    <3> QED BY <3>1, <3>2, <1>8
  <2>5. ASSUME NEW k \in 1..(n + 1), NEW i \in DOMAIN steps PROVE Apart(steps, new[k].args, steps[i].args)
    <3>1. CASE k \in 1..n  BY <3>1, <1>3, <1>6 DEF CallsApart
    <3>2. CASE k = n + 1  BY <3>2, <2>1 DEF Apart
    <3> QED BY <3>1, <3>2, <1>8
  <2> QED BY <2>2, <2>3, <2>4, <2>5, <1>6, <1>8 DEF CallsApart
<1>12. Phase(steps, new)
  <2> SUFFICES ASSUME Len(new[1].args) < Len(use.implicit)
               PROVE  /\ \A k \in 2..(n + 1) : new[k].of \in Ahead(use)
                      /\ \A i \in DOMAIN steps : steps[i].fixture \in Ahead(use)
    BY <1>6 DEF Phase
  <2>1. 1 \in 1..n /\ \A k \in 2..n : k \in 1..n  BY <1>3
  <2>2. Len(stack[1].args) < Len(use.implicit)  BY <2>1, <1>6
  <2>3. /\ \A k \in 2..n : stack[k].of \in Ahead(use)
        /\ \A i \in DOMAIN steps : steps[i].fixture \in Ahead(use)
    BY <2>2, <1>3 DEF Phase, n
  <2> QED BY <2>1, <2>2, <2>3, <1>4, <1>5, <1>6, <1>9
<1>13. \A k \in DOMAIN new : Filled(steps, new[k].of, new[k].args)
  <2>1. \A k \in 1..n : Filled(steps, new[k].of, new[k].args)  BY <1>3, <1>6 DEF StackOK
  <2>2. Filled(steps, new[n + 1].of, new[n + 1].args)
    <3>1. IsUse(use) /\ Len(fixtures) = MaxFixtures  BY <1>2, WalkTypes DEF IInv
    <3>2. Len(SitesOf(Source)) \in Nat  BY <3>1, <1>4, SitesAre DEF IInv
    <3>3. Len(<<>>) = 0 /\ DOMAIN <<>> = {}  OBVIOUS
    <3> QED BY <3>2, <3>3, <1>5, <1>6 DEF Filled
  <2> QED BY <2>1, <2>2, <1>6, <1>8
<1>14. StackOK(steps, memo, new)  BY <1>6, <1>7, <1>10, <1>11, <1>12, <1>13 DEF StackOK
<1> QED BY <1>1, <1>2, <1>3, <1>14, Onward

(* A call ends in its step, which goes to the site it was made for.        *)
LEMMA LeaveKeeps ==
    ASSUME IInv, Leave
    PROVE  IInv'
<1>1. CanLeave /\ stack # <<>>
  <2>1. CanLeave  BY DEF CanLeave, IInv, Leave
  <2> QED BY <2>1, Leaving
<1>2. /\ steps' = NewSteps /\ memo' = NewMemo /\ stack' = Given(Front(stack), Len(steps) + 1)
      /\ UNCHANGED <<fixtures, collected, records, use>>
  BY DEF Leave, NewSteps, NewMemo, StepOf
<1> QED BY <1>1, <1>2, NewStepsOK, NewMemoOK, NewStackOK, Onward

----------------------------------------------------------------------------
(* The beginning and the end of a walk.                                    *)

(* A walk begins with nothing visited.                                     *)
LEMMA PlanKeeps ==
    ASSUME IInv, Plan
    PROVE  IInv'
<1> DEFINE call == [of |-> 0, args |-> <<>>]
           k    == Len(collected) + 1
<1>1. PICK u \in UsesOf[Tests[k]] : Walk(u, <<call>>)  BY DEF Plan
<1>2. /\ Len(fixtures) = MaxFixtures /\ Len(collected) < Len(Tests)
      /\ fixtures' = fixtures /\ collected' = collected /\ records' = records
      /\ use' = u /\ steps' = <<>> /\ memo' = NoMemo /\ stack' = <<call>>
  BY <1>1 DEF Plan, Walk
<1>3. /\ u.implicit \in Seq(1..MaxFixtures) /\ u.roots \in Seq(1..MaxFixtures)
      /\ MaxFixtures \in Nat
  <2>1. Len(collected) \in Nat  BY LenProperties DEF IInv, Collected
  <2>2. Tests \in Seq(ToSet(Tests)) /\ Len(Tests) \in Nat  BY PlansAssumption, LenProperties
  <2>3. k \in 1..Len(Tests)  BY <1>2, <2>1, <2>2
  <2>4. Tests[k] \in ToSet(Tests)  BY <2>2, <2>3, ElementOfSeq
  <2> QED BY <2>4, PlansAssumption
<1>4. Declared' /\ (\E anc : Lineage(anc))' /\ Collected'  BY <1>2, Still
<1>5. DOMAIN <<>> = {} /\ Len(<<>>) = 0  OBVIOUS
<1>6. StepsOK(<<>>)'
  <2>1. (<<>> \in Steps)'  BY DEF Steps
  <2>2. Ordered(<<>>)' /\ Shared(<<>>)' /\ OnePlace(<<>>)'  BY <1>5 DEF Ordered, Shared, OnePlace
  <2>3. AheadFirst(<<>>, Ahead(use))'  BY <1>5 DEF AheadFirst
  <2>4. Inherited(<<>>)'  BY <1>5 DEF Inherited
  <2> QED BY <2>1, <2>2, <2>3, <2>4, <1>5 DEF StepsOK, Planned
<1>7. MemoOK(<<>>, NoMemo)'
  <2>1. NoMemo \in [1..MaxFixtures -> Nat] /\ \A f \in 1..MaxFixtures : NoMemo[f] = 0  BY DEF NoMemo
  <2>2. (NoMemo \in [1..MaxFixtures -> Nat])' /\ (\A f \in 1..MaxFixtures : NoMemo[f] = 0)'  BY DEF NoMemo
  <2> QED BY <2>2, <1>5 DEF MemoOK
<1>8. call \in [of : 0..MaxFixtures, args : Seq(Nat)] /\ call.of = 0 /\ call.args = <<>>  BY <1>3
<1> DEFINE calls == <<call>>
<1> HIDE DEF call
<1>9. calls \in Frames /\ calls # <<>> /\ Len(calls) = 1 /\ DOMAIN calls = {1} /\ calls[1] = call
  <2>1. Len(calls) = 1 /\ calls[1] = call /\ calls # <<>>  OBVIOUS
  <2>2. calls \in Frames  BY <1>8 DEF Frames
  <2>3. DOMAIN calls = 1..1  BY <2>1, <2>2, FramesType
  <2> QED BY <2>1, <2>2, <2>3
<1>10. (calls \in Frames)' /\ calls # <<>>  BY <1>9 DEF Frames
<1> HIDE DEF calls
<1>11. StackOK(<<>>, NoMemo, calls)'
  <2>1. Descends(NoMemo, calls)'  BY <1>8, <1>9 DEF Descends
  <2>2. CallsApart(<<>>, calls)'
    <3>1. ApartWithin(<<>>, <<>>)'  BY <1>5 DEF ApartWithin
    <3>2. \A k1, l1 \in DOMAIN calls : k1 = l1  BY <1>9
    <3> QED BY <3>1, <3>2, <1>5, <1>8, <1>9 DEF CallsApart
  <2>3. Phase(<<>>, calls)'  BY <1>5, <1>9 DEF Phase
  <2>4. \A k1 \in DOMAIN calls : Filled(<<>>, calls[k1].of, calls[k1].args)'
    <3>1. SitesOf(0)' = u.implicit \o u.roots  BY <1>2 DEF SitesOf
    <3>2. Len(SitesOf(0)') \in Nat
      <4> DEFINE s == u.implicit
                 t == u.roots
      <4>1. s \in Seq(1..MaxFixtures) /\ t \in Seq(1..MaxFixtures)  BY <1>3
      <4> HIDE DEF s, t
      <4>2. Len(s \o t) \in Nat  BY <4>1, ConcatIs
      <4> QED BY <3>1, <4>2 DEF s, t
    <3>3. Filled(<<>>, 0, <<>>)'
      <4>1. 0 <= Len(SitesOf(0)')  BY <3>2
      <4> QED BY <4>1, <1>5 DEF Filled
    <3> QED BY <3>3, <1>8, <1>9
  <2> QED BY <1>10, <2>1, <2>2, <2>3, <2>4 DEF StackOK
<1>12. Walking'
  <2>1. StepsOK(steps)' /\ MemoOK(steps, memo)' /\ StackOK(steps, memo, stack)'
    BY <1>2, <1>6, <1>7, <1>11 DEF calls
  <2> QED BY <2>1, <1>2 DEF Walking
<1> QED BY <1>4, <1>12 DEF IInv

(* A test's walk ends, in an error or in its records.                      *)
LEMMA Collecting ==
    ASSUME IInv, stack # <<>>, NEW ok \in BOOLEAN, ok <=> Nested(use), NEW new,
           ok => \E plan, at : /\ Finished(plan, use, at)
                               /\ new = RecordsOf(Tests[Len(collected) + 1], use, plan, at),
           ~ok => new = {},
           fixtures' = fixtures, collected' = Append(collected, [use |-> use, ok |-> ok]),
           records' = records \cup new, stack' = <<>>
    PROVE  IInv'
<1>0. PICK n : n = Len(collected)  OBVIOUS
<1> DEFINE entry == [use |-> use, ok |-> ok]
<1>1. Declared'  BY DEF IInv, Declared
<1>2. (\E anc : Lineage(anc))'  BY Frame DEF IInv
<1>3. Walking'  BY DEF Walking
<1>4. /\ collected \in Seq([use : UNION {UsesOf[t] : t \in ToSet(Tests)}, ok : BOOLEAN])
      /\ n \in Nat /\ DOMAIN collected = 1..n
      /\ Len(fixtures) = MaxFixtures /\ n < Len(Tests) /\ use \in UsesOf[Tests[n + 1]]
  BY <1>0, LenProperties DEF IInv, Collected, Walking
<1>5. Tests \in Seq(ToSet(Tests)) /\ Len(Tests) \in Nat /\ DOMAIN Tests = 1..Len(Tests)
  BY PlansAssumption, LenProperties
<1>6. n + 1 \in DOMAIN Tests /\ Tests[n + 1] \in ToSet(Tests)  BY <1>4, <1>5, ElementOfSeq
<1>7. /\ entry \in [use : UNION {UsesOf[t] : t \in ToSet(Tests)}, ok : BOOLEAN]
      /\ entry.use = use /\ entry.ok = ok
  BY <1>4, <1>6
<1> HIDE DEF entry
<1>8. /\ collected' \in Seq([use : UNION {UsesOf[t] : t \in ToSet(Tests)}, ok : BOOLEAN])
      /\ Len(collected') = n + 1
      /\ \A k \in 1..n : collected'[k] = collected[k]
      /\ collected'[n + 1] = entry
  <2>1. collected' = Append(collected, entry)  BY DEF entry
  <2> QED BY <2>1, <1>0, <1>4, <1>7, AppendProperties
<1>9. DOMAIN collected' = 1..(n + 1)  BY <1>8, LenProperties
<1>10. \A k \in 1..(n + 1) : k \in 1..n \/ k = n + 1  BY <1>4
<1>11. \A r \in new : r.test = Tests[n + 1] /\ ok
  <2> SUFFICES ASSUME NEW r \in new PROVE r.test = Tests[n + 1] /\ ok  OBVIOUS
  <2>1. ok  OBVIOUS
  <2>2. PICK plan, at : new = RecordsOf(Tests[n + 1], use, plan, at)  BY <2>1, <1>0
  <2>3. \A case, chosen : RecordOf(Tests[n + 1], use, plan, at, case, chosen).test = Tests[n + 1]  BY DEF RecordOf
  <2> QED BY <2>1, <2>2, <2>3 DEF RecordsOf
<1>12. \A k \in 1..n : k \in DOMAIN Tests /\ Tests[k] # Tests[n + 1]
  <2>1. \A k \in 1..n : k \in 1..Len(Tests) /\ k # n + 1  BY <1>4, <1>5
  <2> QED BY <2>1, <1>5, <1>6, PlansAssumption
<1>13. \A r \in records : \E k \in 1..n : collected[k].ok /\ r.test = Tests[k]  BY <1>4 DEF IInv, Collected
<1>14. \A k \in 1..n : Mine(k)' = Mine(k)  BY <1>11, <1>12 DEF Mine
<1>15. Mine(n + 1)' = new  
  <2>1. Mine(n + 1)' = {r \in records \cup new : r.test = Tests[n + 1]}  BY DEF Mine
  <2>2. \A r \in records : r.test # Tests[n + 1]  BY <1>12, <1>13
  <2> QED BY <2>1, <2>2, <1>11
<1> DEFINE Good(k) ==
             /\ collected'[k].use \in UsesOf[Tests[k]]
             /\ collected'[k].ok <=> Nested(collected'[k].use)
             /\ collected'[k].ok => \E plan, at :
                  /\ Finished(plan, collected'[k].use, at)
                  /\ Mine(k)' = RecordsOf(Tests[k], collected'[k].use, plan, at)
<1>16. ASSUME NEW k \in 1..n PROVE Good(k)
  <2>1. /\ collected[k].use \in UsesOf[Tests[k]]
        /\ collected[k].ok <=> Nested(collected[k].use)
        /\ collected[k].ok => \E plan, at : /\ Finished(plan, collected[k].use, at)
                                           /\ Mine(k) = RecordsOf(Tests[k], collected[k].use, plan, at)
    BY <1>4 DEF IInv, Collected
  <2>2. collected'[k] = collected[k] /\ Mine(k)' = Mine(k)  BY <1>8, <1>14
  <2> QED BY <2>1, <2>2
<1>17. Good(n + 1)
  <2>1. collected'[n + 1].use = use /\ collected'[n + 1].ok = ok  BY <1>7, <1>8
  <2>2. Mine(n + 1)' = new  BY <1>15
  <2> QED BY <2>1, <2>2, <1>0, <1>4
<1>18. \A k \in 1..(n + 1) : Good(k)
  <2> HIDE DEF Good
  <2> QED BY <1>10, <1>16, <1>17
<1>19. \A r \in records' : \E k \in 1..(n + 1) : collected'[k].ok /\ r.test = Tests[k]
  <2> SUFFICES ASSUME NEW r \in records' PROVE \E k \in 1..(n + 1) : collected'[k].ok /\ r.test = Tests[k]
    OBVIOUS
  <2>1. CASE r \in records
    <3>1. PICK k \in 1..n : collected[k].ok /\ r.test = Tests[k]  BY <2>1, <1>13
    <3>2. k \in 1..(n + 1) /\ collected'[k] = collected[k]  BY <1>4, <1>8
    <3> QED BY <3>1, <3>2
  <2>2. CASE r \in new
    <3>1. n + 1 \in 1..(n + 1)  BY <1>4
    <3> QED BY <2>2, <3>1, <1>7, <1>8, <1>11
  <2> QED BY <2>1, <2>2
<1>20. ASSUME NEW k \in 1..(n + 1)
       PROVE  /\ collected'[k].use \in UsesOf[Tests[k]]
              /\ collected'[k].ok <=> Nested(collected[k].use)'
              /\ collected'[k].ok => \E plan, at :
                   /\ Finished(plan, collected[k].use, at)'
                   /\ Mine(k)' = RecordsOf(Tests[k], collected[k].use, plan, at)'
  <2>1. Good(k)  BY <1>18
  <2>2. Nested(collected[k].use)' <=> Nested(collected'[k].use)  BY Frame
  <2>3. \A plan, at : Finished(plan, collected[k].use, at)' <=> Finished(plan, collected'[k].use, at)
    BY FrameRecords
  <2>4. \A plan, at : RecordsOf(Tests[k], collected[k].use, plan, at)'
                        = RecordsOf(Tests[k], collected'[k].use, plan, at)
    BY FrameRecords
  <2> QED BY <2>1, <2>2, <2>3, <2>4
<1>21. Collected'
  <2>1. Len(collected') <= Len(Tests)  BY <1>4, <1>5, <1>8
  <2> QED BY <2>1, <1>4, <1>8, <1>9, <1>19, <1>20 DEF Collected
<1> QED BY <1>1, <1>2, <1>3, <1>21 DEF IInv

(* A walk is given up exactly for a graph that cannot be had.              *)
LEMMA RefuseKeeps ==
    ASSUME IInv, Refuse
    PROVE  IInv'
<1>1. /\ Pending /\ Refused(Source, Top.of) /\ stack # <<>>
      /\ collected' = Append(collected, [use |-> use, ok |-> FALSE])
      /\ stack' = <<>> /\ fixtures' = fixtures /\ records' = records
  BY DEF Refuse, Walk, Pending
<1>2. ~Nested(use)
  <2>1. /\ Source \in 1..MaxFixtures /\ Top.of \in Needs(use) \cup {0}
        /\ Len(Top.args) + 1 \in 1..Len(SitesOf(Top.of))
    BY <1>1, SourceIs DEF IInv
  <2>2. /\ IsUse(use) /\ DOMAIN fixtures = 1..MaxFixtures /\ Len(fixtures) = MaxFixtures /\ MaxFixtures \in Nat
    BY <1>1, WalkTypes DEF IInv
  <2>3. Needs(use) \subseteq DOMAIN fixtures
    <3>1. ToSet(use.implicit) \in SUBSET DOMAIN fixtures /\ ToSet(use.roots) \in SUBSET DOMAIN fixtures
      BY <2>2, FiniteMembers DEF IsUse
    <3>2. ToSet(use.implicit) \cup ToSet(use.roots) \in SUBSET DOMAIN fixtures  BY <3>1
    <3> QED BY <3>2, ReachIs DEF Needs, IInv
  <2>4. /\ Rank[fixtures[Source].scope] \in Nat /\ Rank[fixtures[Source].scope] >= 1
        /\ Rank[ScopeOf(Top.of)] \in Nat /\ Rank[ScopeOf(0)] = 1
    <3>1. Top.of \in DOMAIN fixtures \cup {0}  BY <2>1, <2>3
    <3> QED BY <2>1, <2>2, <3>1, RankIs DEF IInv
  <2>5. Rank[fixtures[Source].scope] < Rank[ScopeOf(Top.of)]  BY <1>1 DEF Refused
  <2>6. Top.of # 0  BY <2>4, <2>5
  <2>7. Top.of \in Needs(use) /\ Top.of \in DOMAIN fixtures  BY <2>1, <2>3, <2>6
  <2>8. SitesOf(Top.of) = fixtures[Top.of].deps /\ ScopeOf(Top.of) = fixtures[Top.of].scope
    BY <2>6 DEF SitesOf, ScopeOf
  <2>9. Source \in ToSet(fixtures[Top.of].deps)
    <3>1. DOMAIN fixtures[Top.of].deps = 1..Len(fixtures[Top.of].deps)  BY <2>7, DeclaredType DEF IInv
    <3> QED BY <2>1, <2>8, <3>1 DEF ToSet, Source
  <2>10. ~(Rank[fixtures[Source].scope] >= Rank[fixtures[Top.of].scope])  BY <2>4, <2>5, <2>8
  <2> QED BY <2>7, <2>9, <2>10 DEF Nested
<1>3. records' = records \cup {}  BY <1>1
<1> QED BY <1>1, <1>2, <1>3, Collecting

(* At its end the walk has the whole graph, and no fixture of it depends on *)
(* a narrower one.                                                          *)
LEMMA WalkIsFinished ==
    ASSUME IInv, Len(stack) = 1, ~Pending
    PROVE  Finished(steps, use, Top.args)
<1> DEFINE s == use.implicit
           t == use.roots
<1>1. stack # <<>>
  <2>1. Len(<<>>) = 0  OBVIOUS
  <2> QED BY <2>1
<1>2. /\ IsUse(use) /\ DOMAIN fixtures = 1..MaxFixtures /\ Len(fixtures) = MaxFixtures
      /\ StepsOK(steps) /\ StackOK(steps, memo, stack) /\ 1 \in DOMAIN stack
      /\ Top.args \in Seq(Nat) /\ Len(Top.args) \in Nat /\ DOMAIN Top.args = 1..Len(Top.args)
      /\ Len(s) \in Nat /\ Len(t) \in Nat
  BY <1>1, WalkTypes DEF IInv, Top
<1>3. Top = stack[1] /\ Top.of = 0 /\ SitesOf(Top.of) = s \o t  BY <1>2 DEF Top, StackOK, Descends, SitesOf
<1>4. Filled(steps, 0, Top.args)  BY <1>2, <1>3 DEF StackOK
<1>5. Len(Top.args) = Len(s) + Len(t)
  <2>1. Len(s \o t) = Len(s) + Len(t)
    <3>1. s \in Seq(1..MaxFixtures) /\ t \in Seq(1..MaxFixtures)  BY <1>2 DEF IsUse
    <3> HIDE DEF s, t
    <3> QED BY <3>1, ConcatIs
  <2>2. Len(Top.args) <= Len(s) + Len(t)  BY <1>3, <1>4, <2>1 DEF Filled
  <2>3. ~(Len(Top.args) < Len(s) + Len(t))  BY <1>1, <1>3, <2>1 DEF Pending
  <2> DEFINE x == Len(Top.args)
             y == Len(s) + Len(t)
  <2>6. x \in Nat  BY <1>2
  <2>7. y \in Nat
    <3>1. Len(s) \in Nat /\ Len(t) \in Nat  BY <1>2
    <3> HIDE DEF s, t
    <3> QED BY <3>1
  <2>4. x \in Nat /\ y \in Nat /\ x <= y /\ ~(x < y)
    <3> HIDE DEF s, t
    <3> QED BY <2>2, <2>3, <2>6, <2>7
  <2> HIDE DEF x, y
  <2>5. x = y  BY <2>4
  <2> QED BY <2>5 DEF x, y
<1>6. \A a \in DOMAIN Top.args : Top.args[a] \in DOMAIN steps /\ steps[Top.args[a]].fixture = (s \o t)[a]
  BY <1>3, <1>4 DEF Filled
<1>7. ApartWithin(steps, Top.args) /\ \A i \in DOMAIN steps : Apart(steps, Top.args, steps[i].args)
  BY <1>2, <1>3 DEF StackOK, CallsApart
<1>8. steps \in Steps /\ Planned(steps, use) /\ Inherited(steps)  BY <1>2 DEF StepsOK
<1> QED BY <1>2, <1>5, <1>6, <1>7, <1>8 DEF Finished

(* A finished plan has the whole graph.                                    *)
LEMMA FinishedHasAll ==
    ASSUME Declared, NEW plan, NEW u, NEW at, Finished(plan, u, at), IsUse(u), Len(fixtures) = MaxFixtures
    PROVE  /\ \A f \in Needs(u) : \E i \in DOMAIN plan : plan[i].fixture = f
           /\ Needs(u) \subseteq DOMAIN fixtures
<1> DEFINE s == u.implicit
           t == u.roots
           fs == ToSet(s) \cup ToSet(t)
<1>1. /\ s \in Seq(1..MaxFixtures) /\ t \in Seq(1..MaxFixtures)
      /\ Len(s) \in Nat /\ DOMAIN s = 1..Len(s) /\ Len(t) \in Nat /\ DOMAIN t = 1..Len(t)
  BY LenProperties DEF IsUse
<1>2. /\ plan \in Steps /\ Ordered(plan)
      /\ at \in Seq(Nat) /\ Len(at) = Len(s) + Len(t)
      /\ \A a \in DOMAIN at : at[a] \in DOMAIN plan /\ plan[at[a]].fixture = (s \o t)[a]
  BY DEF Finished, Planned
<1>3. DOMAIN at = 1..(Len(s) + Len(t))  BY <1>2, LenProperties
<1>4. Needs(u) = Reach(fs)  BY DEF Needs
<1>5. DOMAIN fixtures = 1..MaxFixtures  BY DeclaredType
<1> HIDE DEF s, t
<1>6. fs \in SUBSET DOMAIN fixtures
  <2>1. ToSet(s) \subseteq 1..MaxFixtures /\ ToSet(t) \subseteq 1..MaxFixtures  BY <1>1, FiniteMembers
  <2> QED BY <2>1, <1>5
<1>7. \A f \in fs : \E i \in DOMAIN plan : plan[i].fixture = f
  <2>1. ASSUME NEW a \in 1..Len(s) PROVE \E i \in DOMAIN plan : plan[i].fixture = s[a]
    <3>1. a \in 1..(Len(s) + Len(t)) /\ a <= Len(s)  BY <1>1
    <3>2. (s \o t)[a] = s[a]  BY <1>1, <3>1, ConcatIs
    <3> QED BY <1>2, <1>3, <3>1, <3>2
  <2>2. ASSUME NEW a \in 1..Len(t) PROVE \E i \in DOMAIN plan : plan[i].fixture = t[a]
    <3> DEFINE b == Len(s) + a
    <3>1. b \in 1..(Len(s) + Len(t)) /\ b > Len(s) /\ b - Len(s) = a  BY <1>1
    <3> HIDE DEF b
    <3>2. (s \o t)[b] = t[b - Len(s)]  BY <1>1, <3>1, ConcatIs
    <3> QED BY <1>2, <1>3, <3>1, <3>2
  <2> QED BY <2>1, <2>2, <1>1 DEF ToSet
<1>8. \A f \in Reach(fs) : \E i \in DOMAIN plan : plan[i].fixture = f  BY <1>2, <1>6, <1>7, Stepped
<1>9. Reach(fs) \subseteq DOMAIN fixtures  BY <1>6, ReachIs
<1> QED BY <1>4, <1>8, <1>9

(* So a graph that has a finished plan can be had.                         *)
LEMMA FinishedIsNested ==
    ASSUME Declared, NEW plan, NEW u, NEW at, Finished(plan, u, at), IsUse(u), Len(fixtures) = MaxFixtures
    PROVE  Nested(u)
<1> SUFFICES ASSUME NEW f \in Needs(u), NEW d \in ToSet(fixtures[f].deps)
             PROVE  Rank[fixtures[d].scope] >= Rank[fixtures[f].scope]
  BY DEF Nested
<1>1. PICK i \in DOMAIN plan : plan[i].fixture = f  BY FinishedHasAll
<1>2. f \in DOMAIN fixtures  BY FinishedHasAll
<1>3. PICK a \in DOMAIN fixtures[f].deps : d = fixtures[f].deps[a]  BY DEF ToSet
<1>4. plan \in Steps /\ Ordered(plan)  BY DEF Finished, Planned
<1>5. a \in DOMAIN plan[i].args
  <2>1. Len(plan[i].args) = Len(fixtures[f].deps)  BY <1>1, <1>4 DEF Ordered
  <2>2. DOMAIN plan[i].args = 1..Len(plan[i].args)  BY <1>4, PlanType
  <2>3. DOMAIN fixtures[f].deps = 1..Len(fixtures[f].deps)  BY <1>2, DeclaredType
  <2> QED BY <1>3, <2>1, <2>2, <2>3
<1> QED BY <1>1, <1>3, <1>4, <1>5 DEF Ordered

(* A walk that is over leaves a finished plan, and the records made of it. *)
LEMMA ExpandKeeps ==
    ASSUME IInv, Expand
    PROVE  IInv'
<1>1. /\ Len(stack) = 1 /\ ~Pending
      /\ collected' = Append(collected, [use |-> use, ok |-> TRUE])
      /\ records' = records \cup RecordsOf(Tests[Len(collected) + 1], use, steps, Top.args)
      /\ stack' = <<>> /\ fixtures' = fixtures
  BY DEF Expand, Walk
<1>2. stack # <<>>
  <2>1. Len(<<>>) = 0  OBVIOUS
  <2> QED BY <2>1, <1>1
<1>3. Finished(steps, use, Top.args)  BY <1>1, WalkIsFinished
<1>4. IsUse(use) /\ Len(fixtures) = MaxFixtures  BY <1>2, WalkTypes DEF IInv
<1>5. Nested(use)  BY <1>3, <1>4, FinishedIsNested DEF IInv
<1> DEFINE new == RecordsOf(Tests[Len(collected) + 1], use, steps, Top.args)
<1>6. \E plan, at : Finished(plan, use, at) /\ new = RecordsOf(Tests[Len(collected) + 1], use, plan, at)
  BY <1>3
<1> HIDE DEF new
<1> QED BY <1>1, <1>2, <1>5, <1>6, Collecting DEF new

----------------------------------------------------------------------------
(* The invariant.                                                          *)

(* The new fixture's ancestors follow from those of the fixtures below it. *)
LEMMA LineageGrows ==
    ASSUME Declared, NEW anc, Lineage(anc), Declared',
           Len(fixtures') = Len(fixtures) + 1, \A f \in DOMAIN fixtures : fixtures'[f] = fixtures[f]
    PROVE  (\E longer : Lineage(longer))'
<1>0. PICK n : n = Len(fixtures)  OBVIOUS
<1>1. /\ DOMAIN fixtures = 1..n /\ n \in Nat
      /\ fixtures' \in Seq([scope : Scopes, deps : Seq(Nat), ids : Seq(Seq(Nat))])
  BY <1>0, DeclaredType DEF Declared
<1>2. DOMAIN fixtures' = 1..(n + 1) /\ Len(fixtures') = n + 1  BY <1>0, <1>1, LenProperties
<1> DEFINE f     == n + 1
           deps  == fixtures'[f].deps
           below == [i \in DOMAIN deps |-> anc[deps[i]]]
           own   == IF fixtures'[f].ids = <<>> THEN <<>> ELSE <<f>>
           mine  == OrderedUnion(Append(below, own))
           longer == [g \in 1..(n + 1) |-> IF g = f THEN mine ELSE anc[g]]
<1>3. f \in DOMAIN fixtures' /\ f \in Nat /\ \A g \in 1..(n + 1) : g \in 1..n \/ g = f  BY <1>1, <1>2
<1>4. deps \in Seq(Nat) /\ DOMAIN deps = 1..Len(deps) /\ Len(deps) \in Nat
  <2>1. fixtures'[f] \in [scope : Scopes, deps : Seq(Nat), ids : Seq(Seq(Nat))]
    BY <1>1, <1>2, <1>3, ElementOfSeq
  <2> QED BY <2>1, LenProperties
<1>5. \A g \in DOMAIN fixtures' : \A i \in DOMAIN fixtures'[g].deps : fixtures'[g].deps[i] \in 1..(g - 1)
  BY DEF Declared
<1>6. \A i \in DOMAIN deps : deps[i] \in 1..n
  <2>1. \A i \in DOMAIN deps : deps[i] \in 1..(f - 1)  BY <1>3, <1>5
  <2>2. f - 1 = n  BY <1>1
  <2> QED BY <2>1, <2>2
<1>7. anc \in [1..n -> Seq(Nat)]  BY <1>1 DEF Lineage
<1>8. mine \in Seq(Nat)
  <2> DEFINE m == Len(deps)
  <2>1. below \in [1..m -> Seq(Nat)] /\ m \in Nat  BY <1>4, <1>6, <1>7
  <2>2. below \in Seq(Seq(Nat))
    <3> HIDE DEF below, m
    <3> QED BY <2>1
  <2>3. own \in Seq(Nat)
    <3>1. <<>> \in Seq(Nat) /\ <<f>> \in Seq(Nat)  BY <1>3
    <3> QED BY <3>1
  <2> HIDE DEF below, own
  <2>4. Append(below, own) \in Seq(Seq(Nat))  BY <2>2, <2>3, AppendProperties
  <2> QED BY <2>4, OrderedUnionCovers
<1> HIDE DEF mine
<1>9. longer \in [1..(n + 1) -> Seq(Nat)]  BY <1>3, <1>7, <1>8
<1>10. longer[f] = mine /\ \A g \in 1..n : longer[g] = anc[g]
  <2>1. \A g \in 1..n : g \in 1..(n + 1) /\ g # f  BY <1>1
  <2>2. f \in 1..(n + 1)  BY <1>1
  <2> QED BY <2>1, <2>2
<1> HIDE DEF longer
<1> DEFINE listsOf(g) == Append([i \in DOMAIN fixtures'[g].deps |-> longer[fixtures'[g].deps[i]]], 
                                IF fixtures'[g].ids = <<>> THEN <<>> ELSE <<g>>)
<1>11. ASSUME NEW g \in DOMAIN fixtures' PROVE longer[g] = OrderedUnion(listsOf(g))
  <2>1. CASE g = f
    <3>1. [i \in DOMAIN fixtures'[g].deps |-> longer[fixtures'[g].deps[i]]] = below  BY <2>1, <1>6, <1>10
    <3> HIDE DEF below
    <3> QED BY <2>1, <3>1, <1>10 DEF mine
  <2>2. CASE g \in 1..n
    <3>1. fixtures'[g] = fixtures[g]  BY <2>2, <1>1
    <3>2. \A i \in DOMAIN fixtures[g].deps : fixtures[g].deps[i] \in 1..n
      <4>1. \A i \in DOMAIN fixtures[g].deps : fixtures[g].deps[i] \in 1..(g - 1)  BY <2>2, <1>1 DEF Declared
      <4> QED BY <4>1, <2>2, <1>1
    <3>3. [i \in DOMAIN fixtures'[g].deps |-> longer[fixtures'[g].deps[i]]]
            = [i \in DOMAIN fixtures[g].deps |-> anc[fixtures[g].deps[i]]]
      BY <3>1, <3>2, <1>10
    <3>4. anc[g] = OrderedUnion(Append([i \in DOMAIN fixtures[g].deps |-> anc[fixtures[g].deps[i]]], Own(g)))
      BY <2>2, <1>1 DEF Lineage
    <3>5. Own(g) = IF fixtures'[g].ids = <<>> THEN <<>> ELSE <<g>>  BY <3>1 DEF Own
    <3> QED BY <2>2, <3>3, <3>4, <3>5, <1>10
  <2> QED BY <2>1, <2>2, <1>2, <1>3
<1>12. \A g : Own(g)' = IF fixtures'[g].ids = <<>> THEN <<>> ELSE <<g>>  BY DEF Own
<1>13. PICK l : l = longer  OBVIOUS
<1>14. Lineage(l)'
  <2>1. l \in [DOMAIN fixtures' -> Seq(Nat)]  BY <1>2, <1>9, <1>13
  <2>2. \A g \in DOMAIN fixtures' :
          l[g] = OrderedUnion(Append([i \in DOMAIN fixtures'[g].deps |-> l[fixtures'[g].deps[i]]],
                                     IF fixtures'[g].ids = <<>> THEN <<>> ELSE <<g>>))
    BY <1>11, <1>13
  <2> QED BY <2>1, <2>2, <1>12 DEF Lineage
<1> QED BY <1>14

(* A declaration is over what was declared before.                         *)
LEMMA DeclareKeeps ==
    ASSUME IInv, Declare
    PROVE  IInv'
<1>1. PICK scope \in Scopes, deps \in Sites, ids \in IdLists :
        /\ \A i \in DOMAIN deps : deps[i] \in DOMAIN fixtures
        /\ fixtures' = Append(fixtures, [scope |-> scope, deps |-> deps, ids |-> Dedupe(ids)])
  BY DEF Declare
<1> DEFINE new == [scope |-> scope, deps |-> deps, ids |-> Dedupe(ids)]
<1>2. /\ collected = <<>> /\ Len(fixtures) < MaxFixtures /\ MaxFixtures \in Nat
      /\ collected' = collected /\ records' = records /\ stack' = stack /\ steps' = steps
  BY PlansAssumption DEF Declare, walk
<1>3. /\ DOMAIN fixtures = 1..Len(fixtures) /\ Len(fixtures) \in Nat
      /\ fixtures \in Seq([scope : Scopes, deps : Seq(Nat), ids : Seq(Seq(Nat))])
  BY DeclaredType DEF IInv, Declared
<1>4. /\ Dedupe(ids) \in Seq(Seq(Nat))
      /\ \A i, j \in DOMAIN Dedupe(ids) : Dedupe(ids)[i] = Dedupe(ids)[j] => i = j
  BY PlansAssumption, DedupeIs
<1>5. /\ new \in [scope : Scopes, deps : Seq(Nat), ids : Seq(Seq(Nat))]
      /\ new.deps = deps /\ new.ids = Dedupe(ids)
  BY <1>4, PlansAssumption
<1> HIDE DEF new
<1>6. /\ fixtures' \in Seq([scope : Scopes, deps : Seq(Nat), ids : Seq(Seq(Nat))])
      /\ Len(fixtures') = Len(fixtures) + 1
      /\ \A f \in 1..Len(fixtures) : fixtures'[f] = fixtures[f]
      /\ fixtures'[Len(fixtures) + 1] = new
  <2>1. fixtures' = Append(fixtures, new)  BY <1>1 DEF new
  <2> QED BY <2>1, <1>3, <1>5, AppendProperties
<1>7. DOMAIN fixtures' = 1..(Len(fixtures) + 1)  BY <1>6, LenProperties
<1>8. \A f \in DOMAIN fixtures' : f \in DOMAIN fixtures \/ f = Len(fixtures) + 1  BY <1>3, <1>7
<1>9. Declared'
  <2>1. \A f \in DOMAIN fixtures' : \A i \in DOMAIN fixtures'[f].deps : fixtures'[f].deps[i] \in 1..(f - 1)
    <3> SUFFICES ASSUME NEW f \in DOMAIN fixtures', NEW i \in DOMAIN fixtures'[f].deps
                 PROVE  fixtures'[f].deps[i] \in 1..(f - 1)
      OBVIOUS
    <3>1. CASE f \in DOMAIN fixtures  BY <3>1, <1>3, <1>6 DEF IInv, Declared
    <3>2. CASE f = Len(fixtures) + 1  
      <4>1. deps[i] \in 1..Len(fixtures)  BY <3>2, <1>1, <1>3, <1>5, <1>6
      <4>2. Len(fixtures) + 1 - 1 = Len(fixtures)  BY <1>3
      <4> QED BY <3>2, <4>1, <4>2, <1>5, <1>6
    <3> QED BY <3>1, <3>2, <1>8
  <2>2. \A f \in DOMAIN fixtures' : \A i, j \in DOMAIN fixtures'[f].ids :
          fixtures'[f].ids[i] = fixtures'[f].ids[j] => i = j
    <3> SUFFICES ASSUME NEW f \in DOMAIN fixtures'
                 PROVE  \A i, j \in DOMAIN fixtures'[f].ids : fixtures'[f].ids[i] = fixtures'[f].ids[j] => i = j
      OBVIOUS
    <3>1. CASE f \in DOMAIN fixtures  BY <3>1, <1>3, <1>6 DEF IInv, Declared
    <3>2. CASE f = Len(fixtures) + 1  BY <3>2, <1>4, <1>5, <1>6
    <3> QED BY <3>1, <3>2, <1>8
  <2>3. Len(fixtures') <= MaxFixtures  BY <1>2, <1>3, <1>6
  <2> QED BY <2>1, <2>2, <2>3, <1>6 DEF Declared
<1>10. (\E anc : Lineage(anc))'
  <2>1. PICK anc : Lineage(anc)  BY DEF IInv
  <2>2. Declared /\ Len(fixtures') = Len(fixtures) + 1 /\ \A f \in DOMAIN fixtures : fixtures'[f] = fixtures[f]
    BY <1>3, <1>6 DEF IInv
  <2> QED BY <2>1, <2>2, <1>9, LineageGrows
<1>11. Walking'
  <2> DEFINE n == Len(fixtures)
  <2>2. n < MaxFixtures /\ n \in Nat /\ MaxFixtures \in Nat  BY <1>2, <1>3
  <2>3. n # MaxFixtures
    <3> HIDE DEF n
    <3> QED BY <2>2
  <2>0. Len(fixtures) # MaxFixtures  BY <2>3
  <2>1. stack = <<>>  BY <2>0 DEF IInv, Walking
  <2> QED BY <2>1, <1>2 DEF Walking
<1>12. Collected'
  <2>1. DOMAIN <<>> = {} /\ Len(<<>>) = 0  OBVIOUS
  <2>2. records = {}  BY <2>1, <1>2 DEF IInv, Collected
  <2>3. Len(Tests) \in Nat  BY PlansAssumption, LenProperties
  <2>4. (\A k \in DOMAIN collected : FALSE)'  BY <2>1, <1>2
  <2>5. 0 <= Len(Tests)  BY <2>3
  <2>6. collected' = <<>> /\ records' = {}  BY <2>2, <1>2
  <2> QED BY <2>1, <2>4, <2>5, <2>6 DEF Collected
<1> QED BY <1>9, <1>10, <1>11, <1>12 DEF IInv

(* At first nothing is declared.                                           *)
LEMMA InitKeeps ==
    ASSUME Init
    PROVE  IInv
<1>1. DOMAIN <<>> = {} /\ Len(<<>>) = 0  OBVIOUS
<1>2. MaxFixtures \in Nat /\ Len(Tests) \in Nat  BY PlansAssumption, LenProperties
<1>3. Declared  BY <1>1, <1>2 DEF Init, Declared
<1>4. \E anc : Lineage(anc)
  <2>1. Lineage([f \in {} |-> <<>>])  BY <1>1 DEF Lineage, Init
  <2> QED BY <2>1
<1>5. Walking  BY DEF Init, Walking
<1>6. Collected  BY <1>1, <1>2 DEF Init, Collected
<1> QED BY <1>3, <1>4, <1>5, <1>6 DEF IInv

(* In every run the walk under way and all plans finished so far are as    *)
(* plan_for means them to be.                                              *)
THEOREM Invariance == Spec => []IInv
<1>1. Init => IInv  BY InitKeeps
<1>2. IInv /\ [Next]_vars => IInv'
  <2> SUFFICES ASSUME IInv, [Next]_vars PROVE IInv'  OBVIOUS
  <2>1. CASE Declare  BY <2>1, DeclareKeeps
  <2>2. CASE Plan  BY <2>2, PlanKeeps
  <2>3. CASE Refuse  BY <2>3, RefuseKeeps
  <2>4. CASE Share  BY <2>4, ShareKeeps
  <2>5. CASE Enter  BY <2>5, EnterKeeps
  <2>6. CASE Leave  BY <2>6, LeaveKeeps
  <2>7. CASE Expand  BY <2>7, ExpandKeeps
  <2>8. CASE UNCHANGED vars
    <3>1. fixtures' = fixtures /\ collected' = collected /\ records' = records /\ stack' = stack
          /\ use' = use /\ steps' = steps /\ memo' = memo
      BY <2>8 DEF vars, walk
    <3>2. CASE stack = <<>>
      <4>1. Declared' /\ (\E anc : Lineage(anc))' /\ Collected'  BY <3>1, Still
      <4>2. Walking'  BY <3>1, <3>2 DEF Walking
      <4> QED BY <4>1, <4>2 DEF IInv
    <3>3. CASE stack # <<>>
      <4>1. StepsOK(steps) /\ MemoOK(steps, memo) /\ StackOK(steps, memo, stack)  BY <3>3 DEF IInv, Walking
      <4> QED BY <3>1, <3>3, <4>1, Onward
    <3> QED BY <3>2, <3>3
  <2> QED BY <2>1, <2>2, <2>3, <2>4, <2>5, <2>6, <2>7, <2>8 DEF Next
<1> QED BY <1>1, <1>2, PTL DEF Spec

----------------------------------------------------------------------------
(* What the records are made of.                                           *)

(* What a record of t is, made of a finished plan.                         *)
IsRecordOf(r, u, plan, at, case, chosen) ==
    /\ Finished(plan, u, at) /\ IsUse(u) /\ Nested(u)
    /\ case \in Cases(u) /\ chosen \in Combos(ToSet(Varies(plan, at)))
    /\ r = RecordOf(r.test, u, plan, at, case, chosen)

(* A test is collected once.                                               *)
LEMMA TestsApart ==
    ASSUME IInv, NEW k \in DOMAIN collected
    PROVE  /\ Tests[k] \in ToSet(Tests) /\ IsUse(collected[k].use) /\ Len(fixtures) = MaxFixtures
           /\ \A m \in DOMAIN collected : Tests[m] = Tests[k] => m = k
<1>1. /\ DOMAIN collected = 1..Len(collected) /\ Len(collected) \in Nat /\ Len(collected) <= Len(Tests)
      /\ collected[k].use \in UsesOf[Tests[k]]
  BY LenProperties DEF IInv, Collected
<1>2. Tests \in Seq(ToSet(Tests)) /\ Len(Tests) \in Nat /\ DOMAIN Tests = 1..Len(Tests)
  BY PlansAssumption, LenProperties
<1>3. \A m \in DOMAIN collected : m \in DOMAIN Tests  BY <1>1, <1>2
<1>4. Tests[k] \in ToSet(Tests)  BY <1>2, <1>3, ElementOfSeq
<1>5. IsUse(collected[k].use)  BY <1>1, <1>4, PlansAssumption DEF IsUse
<1>6. Len(fixtures) = MaxFixtures
  <2>1. collected # <<>>  
    <3>1. DOMAIN <<>> = {}  OBVIOUS
    <3> QED BY <3>1
  <2> QED BY <2>1 DEF IInv, Collected
<1>7. \A m \in DOMAIN collected : Tests[m] = Tests[k] => m = k  BY <1>3, PlansAssumption
<1> QED BY <1>4, <1>5, <1>6, <1>7

(* Every record is made of the finished plan of its test.                  *)
LEMMA RecordIs ==
    ASSUME IInv, NEW r \in records
    PROVE  \E k \in DOMAIN collected :
             /\ collected[k].ok /\ r.test = Tests[k] /\ UseOf(r) = collected[k].use
             /\ Len(fixtures) = MaxFixtures
             /\ \E plan, at, case, chosen : IsRecordOf(r, UseOf(r), plan, at, case, chosen)
<1>1. PICK k \in DOMAIN collected : collected[k].ok /\ r.test = Tests[k]  BY DEF IInv, Collected
<1>2. UseOf(r) = collected[k].use
  <2>1. \A m \in DOMAIN collected : Tests[m] = r.test => m = k  BY <1>1, TestsApart
  <2>2. (CHOOSE m \in DOMAIN collected : Tests[m] = r.test) = k  BY <1>1, <2>1
  <2> QED BY <2>2 DEF UseOf
<1>3. PICK plan, at : /\ Finished(plan, collected[k].use, at)
                      /\ Mine(k) = RecordsOf(Tests[k], collected[k].use, plan, at)
  BY <1>1 DEF IInv, Collected
<1>4. r \in Mine(k)  BY <1>1 DEF Mine
<1>5. PICK case \in Cases(collected[k].use), chosen \in Combos(ToSet(Varies(plan, at))) :
        r = RecordOf(Tests[k], collected[k].use, plan, at, case, chosen)
  BY <1>3, <1>4 DEF RecordsOf
<1>6. Nested(collected[k].use)  BY <1>1 DEF IInv, Collected
<1>7. IsRecordOf(r, UseOf(r), plan, at, case, chosen)  BY <1>1, <1>2, <1>3, <1>5, <1>6, TestsApart DEF IsRecordOf
<1> QED BY <1>1, <1>2, <1>7, TestsApart

(* What the fields of such a record hold.                                  *)
LEMMA RecordFields ==
    ASSUME NEW r, NEW u, NEW plan, NEW at, NEW case, NEW chosen, IsRecordOf(r, u, plan, at, case, chosen)
    PROVE  /\ DOMAIN r.steps = DOMAIN plan /\ DOMAIN plan = 1..Len(plan) /\ Len(plan) \in Nat
           /\ Len(r.steps) = Len(plan) /\ plan \in Steps
           /\ \A i \in DOMAIN plan :
                /\ FixtureAt(r, i) = plan[i].fixture /\ r.steps[i].fixture = plan[i].fixture
                /\ r.steps[i].args = plan[i].args
                /\ r.steps[i].case = Case(plan[i], chosen)
                /\ r.steps[i].param = IF fixtures[plan[i].fixture].ids = <<>> THEN NoParam ELSE chosen[plan[i].fixture]
           /\ DOMAIN r.roots = DOMAIN u.roots
           /\ \A j \in DOMAIN u.roots : r.roots[j] = at[Len(u.implicit) + j]
           /\ r.case = case
           /\ r.id = IF case = NoParam THEN CaseId(Varies(plan, at), chosen)
                     ELSE Append(CaseId(Varies(plan, at), chosen), Dedupe(u.cases)[case])
<1>1. plan \in Steps /\ r = RecordOf(r.test, u, plan, at, case, chosen)  BY DEF IsRecordOf, Finished
<1>2. /\ r.steps = Specialised(plan, chosen)
      /\ r.roots = [j \in DOMAIN u.roots |-> at[Len(u.implicit) + j]]
      /\ r.case = case
      /\ r.id = IF case = NoParam THEN CaseId(Varies(plan, at), chosen)
                ELSE Append(CaseId(Varies(plan, at), chosen), Dedupe(u.cases)[case])
  <2>1. \A t : LET x == RecordOf(t, u, plan, at, case, chosen)
               IN /\ x.steps = Specialised(plan, chosen)
                  /\ x.roots = [j \in DOMAIN u.roots |-> at[Len(u.implicit) + j]]
                  /\ x.case = case
                  /\ x.id = IF case = NoParam THEN CaseId(Varies(plan, at), chosen)
                            ELSE Append(CaseId(Varies(plan, at), chosen), Dedupe(u.cases)[case])
    BY DEF RecordOf
  <2> QED BY <2>1, <1>1
<1>3. DOMAIN plan = 1..Len(plan) /\ Len(plan) \in Nat  BY <1>1, PlanType
<1>4. /\ DOMAIN r.steps = DOMAIN plan
      /\ \A i \in DOMAIN plan :
           /\ FixtureAt(r, i) = plan[i].fixture /\ r.steps[i].fixture = plan[i].fixture
           /\ r.steps[i].args = plan[i].args
           /\ r.steps[i].case = Case(plan[i], chosen)
           /\ r.steps[i].param = IF fixtures[plan[i].fixture].ids = <<>> THEN NoParam ELSE chosen[plan[i].fixture]
  <2>1. /\ DOMAIN r.steps = DOMAIN plan
        /\ \A i \in DOMAIN plan :
             /\ r.steps[i].fixture = plan[i].fixture
             /\ r.steps[i].args = plan[i].args
             /\ r.steps[i].case = Case(plan[i], chosen)
             /\ r.steps[i].param = IF fixtures[plan[i].fixture].ids = <<>> THEN NoParam ELSE chosen[plan[i].fixture]
    BY <1>2 DEF Specialised
  <2> QED BY <2>1 DEF FixtureAt
<1>5. Len(r.steps) = Len(plan)
  <2> DEFINE n == Len(plan)
             s == r.steps
             S == {s[i] : i \in 1..n}
  <2>1. s = [i \in DOMAIN plan |-> s[i]]  BY <1>2 DEF Specialised
  <2>2. s \in [1..n -> S] /\ n \in Nat  BY <2>1, <1>3, <1>4
  <2> HIDE DEF s, S, n
  <2>3. Len(s) = n  BY <2>2
  <2> QED BY <2>3 DEF s, n
<1> QED BY <1>1, <1>2, <1>3, <1>4, <1>5

(* The parametrized fixtures a finished plan varies with are those that are *)
(* needed.                                                                  *)
LEMMA VariesIs ==
    ASSUME Declared, \E anc : Lineage(anc), NEW u, NEW plan, NEW at, Finished(plan, u, at), IsUse(u),
           Len(fixtures) = MaxFixtures
    PROVE  Varies(plan, at) \in Seq(Nat) /\ ToSet(Varies(plan, at)) = Axes(u)
<1> DEFINE s  == u.implicit
           t  == u.roots
           fs == ToSet(s) \cup ToSet(t)
           n  == Len(s) + Len(t)
           lists == [i \in DOMAIN at |-> plan[at[i]].ancestors]
<1>1. /\ s \in Seq(1..MaxFixtures) /\ t \in Seq(1..MaxFixtures)
      /\ Len(s) \in Nat /\ DOMAIN s = 1..Len(s) /\ Len(t) \in Nat /\ DOMAIN t = 1..Len(t)
  BY LenProperties DEF IsUse
<1>2. /\ plan \in Steps /\ Inherited(plan)
      /\ at \in Seq(Nat) /\ Len(at) = n
      /\ \A a \in DOMAIN at : at[a] \in DOMAIN plan /\ plan[at[a]].fixture = (s \o t)[a]
  BY DEF Finished
<1>3. DOMAIN at = 1..n  BY <1>2, LenProperties
<1>4. Axes(u) = {f \in Reach(fs) : fixtures[f].ids # <<>>}  BY DEF Axes, Needs
<1>5. DOMAIN fixtures = 1..MaxFixtures /\ MaxFixtures \in Nat  BY DeclaredType
<1>6. n \in Nat
  <2> HIDE DEF s, t
  <2> QED BY <1>1
<1> HIDE DEF s, t, n
<1>7. fs \in SUBSET DOMAIN fixtures
  <2>1. ToSet(s) \subseteq 1..MaxFixtures /\ ToSet(t) \subseteq 1..MaxFixtures  BY <1>1, FiniteMembers
  <2> QED BY <2>1, <1>5
<1>8. \A a \in 1..n : plan[at[a]].ancestors = Anc[(s \o t)[a]] /\ (s \o t)[a] \in fs
  <2> SUFFICES ASSUME NEW a \in 1..n
               PROVE  plan[at[a]].ancestors = Anc[(s \o t)[a]] /\ (s \o t)[a] \in fs
    OBVIOUS
  <2>1. at[a] \in DOMAIN plan /\ plan[at[a]].fixture = (s \o t)[a]  BY <1>2, <1>3
  <2>2. plan[at[a]].ancestors = Anc[(s \o t)[a]]  BY <2>1, <1>2 DEF Inherited
  <2>3. a \in 1..(Len(s) + Len(t)) /\ (a <= Len(s) \/ a > Len(s))  BY <1>1 DEF n
  <2>4. (s \o t)[a] \in ToSet(s) \/ (s \o t)[a] \in ToSet(t)  BY <1>1, <2>3, ConcatIs
  <2> QED BY <2>2, <2>4
<1>9. \A f \in fs : \E a \in 1..n : (s \o t)[a] = f
  <2>1. ASSUME NEW b \in 1..Len(s) PROVE \E a \in 1..n : (s \o t)[a] = s[b]
    <3>1. b \in 1..(Len(s) + Len(t)) /\ b <= Len(s)  BY <1>1
    <3>2. (s \o t)[b] = s[b]  BY <1>1, <3>1, ConcatIs
    <3> QED BY <3>1, <3>2 DEF n
  <2>2. ASSUME NEW b \in 1..Len(t) PROVE \E a \in 1..n : (s \o t)[a] = t[b]
    <3> DEFINE a == Len(s) + b
    <3>1. a \in 1..(Len(s) + Len(t)) /\ a > Len(s) /\ a - Len(s) = b  BY <1>1
    <3> HIDE DEF a
    <3>2. (s \o t)[a] = t[a - Len(s)]  BY <1>1, <3>1, ConcatIs
    <3> QED BY <3>1, <3>2 DEF n
  <2> QED BY <2>1, <2>2, <1>1 DEF ToSet
<1>10. \A f \in fs : Anc[f] \in Seq(Nat) /\ ToSet(Anc[f]) = {g \in Reach({f}) : fixtures[g].ids # <<>>}
  BY <1>7, AncIs
<1>11. /\ lists \in [1..n -> Seq(Nat)] /\ lists = [a \in 1..n |-> Anc[(s \o t)[a]]]
  BY <1>3, <1>8, <1>10
<1>12. \A a \in 1..n : lists[a] = Anc[(s \o t)[a]]  BY <1>11
<1>13. Varies(plan, at) = OrderedUnion(lists)  BY DEF Varies
<1> HIDE DEF lists
<1>14. lists \in Seq(Seq(Nat)) /\ DOMAIN lists = 1..n
  <2>1. lists \in [1..n -> Seq(Nat)]  BY <1>11
  <2> QED BY <2>1, <1>6
<1>15. Varies(plan, at) \in Seq(Nat) /\ ToSet(Varies(plan, at)) = Members(lists)
  BY <1>13, <1>14, OrderedUnionCovers
<1>16. Members(lists) = UNION {ToSet(lists[a]) : a \in 1..n}  BY <1>14 DEF Members
<1>17. Reach(fs) = UNION {Reach({f}) : f \in fs}  BY <1>7, ReachUnion
<1> HIDE DEF fs
<1>18. \A g : g \in Members(lists) <=> g \in Axes(u)
  <2> TAKE g
  <2>1. ASSUME g \in Members(lists) PROVE g \in Axes(u)
    <3>1. PICK a \in 1..n : g \in ToSet(lists[a])  BY <2>1, <1>16
    <3>2. (s \o t)[a] \in fs /\ g \in ToSet(Anc[(s \o t)[a]])  BY <3>1, <1>8, <1>12
    <3>3. g \in Reach({(s \o t)[a]}) /\ fixtures[g].ids # <<>>  BY <3>2, <1>10
    <3> QED BY <3>2, <3>3, <1>4, <1>17
  <2>2. ASSUME g \in Axes(u) PROVE g \in Members(lists)
    <3>1. PICK f \in fs : g \in Reach({f}) /\ fixtures[g].ids # <<>>  BY <2>2, <1>4, <1>17
    <3>2. PICK a \in 1..n : (s \o t)[a] = f  BY <1>9
    <3>3. g \in ToSet(lists[a])  BY <3>1, <3>2, <1>10, <1>12
    <3> QED BY <3>3, <1>16
  <2> QED BY <2>1, <2>2
<1>19. Members(lists) = Axes(u)  BY <1>18
<1> QED BY <1>15, <1>19

----------------------------------------------------------------------------
(* The plans are those that the store takes.                               *)

(* What a finished plan's test is given, in the order it asks for it.      *)
LEMMA RootsAre ==
    ASSUME NEW r, NEW u, NEW plan, NEW at, NEW case, NEW chosen, IsRecordOf(r, u, plan, at, case, chosen)
    PROVE  /\ DOMAIN r.roots = DOMAIN u.roots
           /\ \A j \in DOMAIN u.roots :
                /\ Len(u.implicit) + j \in DOMAIN at /\ r.roots[j] = at[Len(u.implicit) + j]
                /\ r.roots[j] \in DOMAIN plan /\ plan[r.roots[j]].fixture = u.roots[j]
           /\ Len(u.implicit) \in Nat /\ DOMAIN u.roots = 1..Len(u.roots) /\ Len(u.roots) \in Nat
<1> DEFINE s == u.implicit
           t == u.roots
<1>1. /\ s \in Seq(1..MaxFixtures) /\ t \in Seq(1..MaxFixtures)
      /\ Len(s) \in Nat /\ DOMAIN s = 1..Len(s) /\ Len(t) \in Nat /\ DOMAIN t = 1..Len(t)
  BY LenProperties DEF IsRecordOf, IsUse
<1>2. /\ at \in Seq(Nat) /\ Len(at) = Len(s) + Len(t)
      /\ \A a \in DOMAIN at : at[a] \in DOMAIN plan /\ plan[at[a]].fixture = (s \o t)[a]
  BY DEF IsRecordOf, Finished
<1>3. DOMAIN at = 1..(Len(s) + Len(t))  BY <1>2, LenProperties
<1>4. DOMAIN r.roots = DOMAIN t /\ \A j \in DOMAIN t : r.roots[j] = at[Len(s) + j]  BY RecordFields
<1>6. ASSUME NEW j \in DOMAIN t
      PROVE  /\ Len(s) + j \in DOMAIN at /\ r.roots[j] = at[Len(s) + j]
             /\ r.roots[j] \in DOMAIN plan /\ plan[r.roots[j]].fixture = t[j]
  <2> HIDE DEF s, t
  <2> DEFINE a == Len(s) + j
  <2>1. a \in 1..(Len(s) + Len(t)) /\ a > Len(s) /\ a - Len(s) = j  BY <1>1
  <2> HIDE DEF a
  <2>2. (s \o t)[a] = t[a - Len(s)]  BY <1>1, <2>1, ConcatIs
  <2>3. r.roots[j] = at[a]  BY <1>4 DEF a
  <2>4. a \in DOMAIN at  BY <1>3, <2>1
  <2> QED BY <2>1, <2>2, <2>3, <2>4, <1>2 DEF a
<1>7. DOMAIN r.roots = DOMAIN t  BY <1>4
<1> QED BY <1>1, <1>6, <1>7

(* A record has a plan that the store can run.                             *)
LEMMA RecordFits ==
    ASSUME IInv, NEW r \in records
    PROVE  LET ahead == Ahead(UseOf(r))
           IN /\ {FixtureAt(r, i) : i \in DOMAIN r.steps} = Needs(UseOf(r))
              /\ Named(r, 0) = UseOf(r).roots
              /\ \A i \in DOMAIN r.steps :
                   /\ Named(r, i) = fixtures[FixtureAt(r, i)].deps
                   /\ \A j \in ToSet(r.steps[i].args) : j < i
              /\ \A i, j \in DOMAIN r.steps :
                   /\ i # j /\ FixtureAt(r, i) = FixtureAt(r, j) => ~Shareable(FixtureAt(r, i))
                   /\ FixtureAt(r, i) \in ahead /\ Shareable(FixtureAt(r, i)) /\ FixtureAt(r, j) \notin ahead
                        => i < j
              /\ \A i, j \in 0..Len(r.steps) : \A a \in DOMAIN ArgsAt(r, i), b \in DOMAIN ArgsAt(r, j) :
                   ArgsAt(r, i)[a] = ArgsAt(r, j)[b] /\ <<i, a>> # <<j, b>> =>
                      Shareable(FixtureAt(r, ArgsAt(r, i)[a]))
<1>1. PICK plan, at, case, chosen : IsRecordOf(r, UseOf(r), plan, at, case, chosen)  BY RecordIs
<1>2. Len(fixtures) = MaxFixtures  BY RecordIs
<1>3. PICK u : u = UseOf(r)  OBVIOUS
<1>4. IsRecordOf(r, u, plan, at, case, chosen) /\ Finished(plan, u, at) /\ IsUse(u) /\ Declared
  BY <1>1, <1>3 DEF IsRecordOf, IInv
<1>5. /\ plan \in Steps /\ Ordered(plan) /\ Shared(plan) /\ AheadFirst(plan, Ahead(u)) /\ OnePlace(plan)
      /\ \A i \in DOMAIN plan : plan[i].fixture \in Needs(u)
      /\ ApartWithin(plan, at) /\ \A i \in DOMAIN plan : Apart(plan, at, plan[i].args)
  BY <1>4 DEF Finished, Planned
<1>6. /\ DOMAIN r.steps = DOMAIN plan /\ DOMAIN plan = 1..Len(plan) /\ Len(plan) \in Nat
      /\ Len(r.steps) = Len(plan)
      /\ \A i \in DOMAIN plan : FixtureAt(r, i) = plan[i].fixture /\ r.steps[i].args = plan[i].args
  <2>1. IsRecordOf(r, u, plan, at, case, chosen)  BY <1>4
  <2>2. DOMAIN r.steps = DOMAIN plan /\ DOMAIN plan = 1..Len(plan) /\ Len(plan) \in Nat  BY <2>1, RecordFields
  <2>3. Len(r.steps) = Len(plan)  BY <2>1, RecordFields
  <2>4. \A i \in DOMAIN plan : FixtureAt(r, i) = plan[i].fixture  BY <2>1, RecordFields
  <2>5. \A i \in DOMAIN plan : r.steps[i].args = plan[i].args  BY <2>1, RecordFields
  <2> QED BY <2>2, <2>3, <2>4, <2>5
<1>7. {FixtureAt(r, i) : i \in DOMAIN r.steps} = Needs(u)
  <2>1. \A f \in Needs(u) : \E i \in DOMAIN plan : plan[i].fixture = f  BY <1>2, <1>4, FinishedHasAll
  <2>2. \A f : f \in {FixtureAt(r, i) : i \in DOMAIN r.steps} <=> f \in Needs(u)  BY <2>1, <1>5, <1>6
  <2> QED BY <2>2
<1>8. 0 \notin DOMAIN plan  BY <1>6
<1>9. ArgsAt(r, 0) = r.roots /\ \A i \in DOMAIN plan : ArgsAt(r, i) = plan[i].args  BY <1>6, <1>8 DEF ArgsAt
<1>10. \A i \in DOMAIN plan : \A a \in DOMAIN plan[i].args : plan[i].args[a] \in DOMAIN plan /\ plan[i].args[a] < i
  <2> SUFFICES ASSUME NEW i \in DOMAIN plan, NEW a \in DOMAIN plan[i].args
               PROVE  plan[i].args[a] \in DOMAIN plan /\ plan[i].args[a] < i
    OBVIOUS
  <2>1. plan[i].args[a] \in 1..(i - 1)  BY <1>5 DEF Ordered
  <2> QED BY <2>1, <1>6
<1>11. /\ DOMAIN r.roots = DOMAIN u.roots
       /\ \A j \in DOMAIN u.roots :
            /\ Len(u.implicit) + j \in DOMAIN at /\ r.roots[j] = at[Len(u.implicit) + j]
            /\ r.roots[j] \in DOMAIN plan /\ plan[r.roots[j]].fixture = u.roots[j]
       /\ Len(u.implicit) \in Nat /\ DOMAIN u.roots = 1..Len(u.roots) /\ Len(u.roots) \in Nat
  BY <1>4, RootsAre
<1>12. Named(r, 0) = u.roots
  <2>1. Named(r, 0) = [j \in DOMAIN u.roots |-> FixtureAt(r, r.roots[j])]  BY <1>9, <1>11 DEF Named
  <2>2. \A j \in DOMAIN u.roots : FixtureAt(r, r.roots[j]) = u.roots[j]  BY <1>6, <1>11
  <2>3. u.roots = [j \in DOMAIN u.roots |-> u.roots[j]]
    <3> DEFINE t == u.roots
    <3>1. t \in Seq(1..MaxFixtures)  BY <1>4 DEF IsUse
    <3> HIDE DEF t
    <3>2. t = [j \in DOMAIN t |-> t[j]]  BY <3>1
    <3> QED BY <3>2 DEF t
  <2> QED BY <2>1, <2>2, <2>3, <1>11
<1>13. ASSUME NEW i \in DOMAIN plan
       PROVE  /\ Named(r, i) = fixtures[FixtureAt(r, i)].deps
              /\ \A j \in ToSet(r.steps[i].args) : j < i
  <2>1. \A a \in DOMAIN plan[i].args : FixtureAt(r, plan[i].args[a]) = fixtures[plan[i].fixture].deps[a]
    BY <1>5, <1>6, <1>10 DEF Ordered
  <2>2. Named(r, i) = [a \in DOMAIN plan[i].args |-> FixtureAt(r, plan[i].args[a])]  BY <1>9 DEF Named
  <2>3. DOMAIN plan[i].args = DOMAIN fixtures[plan[i].fixture].deps
    <3>1. Len(plan[i].args) = Len(fixtures[plan[i].fixture].deps) /\ plan[i].fixture \in DOMAIN fixtures
      BY <1>5 DEF Ordered
    <3>2. DOMAIN plan[i].args = 1..Len(plan[i].args)  BY <1>5, PlanType
    <3>3. DOMAIN fixtures[plan[i].fixture].deps = 1..Len(fixtures[plan[i].fixture].deps)
      BY <3>1, <1>4, DeclaredType
    <3> QED BY <3>1, <3>2, <3>3
  <2>4. fixtures[plan[i].fixture].deps
          = [a \in DOMAIN fixtures[plan[i].fixture].deps |-> fixtures[plan[i].fixture].deps[a]]
    <3> DEFINE deps == fixtures[plan[i].fixture].deps
    <3>1. plan[i].fixture \in DOMAIN fixtures  BY <1>5 DEF Ordered
    <3>2. deps \in Seq(Nat) /\ DOMAIN deps = 1..Len(deps)  BY <3>1, <1>4, DeclaredType
    <3> HIDE DEF deps
    <3>3. deps = [a \in DOMAIN deps |-> deps[a]]  BY <3>2
    <3> QED BY <3>3 DEF deps
  <2>5. Named(r, i) = fixtures[plan[i].fixture].deps  BY <2>1, <2>2, <2>3, <2>4
  <2>6. \A j \in ToSet(r.steps[i].args) : j < i  BY <1>6, <1>10 DEF ToSet
  <2> QED BY <2>5, <2>6, <1>6
<1>14. ASSUME NEW i \in DOMAIN plan, NEW j \in DOMAIN plan
       PROVE  /\ i # j /\ FixtureAt(r, i) = FixtureAt(r, j) => ~Shareable(FixtureAt(r, i))
              /\ FixtureAt(r, i) \in Ahead(u) /\ Shareable(FixtureAt(r, i)) /\ FixtureAt(r, j) \notin Ahead(u)
                   => i < j
  BY <1>5, <1>6 DEF Shared, AheadFirst
<1>15. ASSUME NEW i \in 0..Len(plan), NEW j \in 0..Len(plan),
              NEW a \in DOMAIN ArgsAt(r, i), NEW b \in DOMAIN ArgsAt(r, j),
              ArgsAt(r, i)[a] = ArgsAt(r, j)[b], <<i, a>> # <<j, b>>
       PROVE  Shareable(FixtureAt(r, ArgsAt(r, i)[a]))
  <2>1. \A k \in 0..Len(plan) : k = 0 \/ k \in DOMAIN plan  BY <1>6
  <2> DEFINE x == Len(u.implicit)
  <2>2. CASE i = 0 /\ j = 0
    <3>1. a # b /\ a \in DOMAIN u.roots /\ b \in DOMAIN u.roots  BY <2>2, <1>9, <1>11, <1>15
    <3>2. /\ x + a \in DOMAIN at /\ x + b \in DOMAIN at
          /\ r.roots[a] = at[x + a] /\ r.roots[b] = at[x + b] /\ r.roots[a] \in DOMAIN plan
      BY <3>1, <1>11
    <3>3. x + a # x + b
      <4>1. a \in Nat /\ b \in Nat /\ x \in Nat  BY <3>1, <1>11
      <4> HIDE DEF x
      <4> QED BY <3>1, <4>1
    <3>4. at[x + a] = at[x + b]  BY <2>2, <3>2, <1>9, <1>15
    <3>5. Shareable(plan[at[x + a]].fixture)  BY <3>2, <3>3, <3>4, <1>5 DEF ApartWithin
    <3> QED BY <2>2, <3>2, <3>5, <1>6, <1>9
  <2>3. CASE i = 0 /\ j \in DOMAIN plan
    <3>1. a \in DOMAIN u.roots /\ b \in DOMAIN plan[j].args  BY <2>3, <1>9, <1>11
    <3>2. x + a \in DOMAIN at /\ r.roots[a] = at[x + a] /\ r.roots[a] \in DOMAIN plan  BY <3>1, <1>11
    <3>3. at[x + a] = plan[j].args[b]  BY <2>3, <3>2, <1>9, <1>15
    <3>4. Shareable(plan[at[x + a]].fixture)  BY <2>3, <3>1, <3>2, <3>3, <1>5 DEF Apart
    <3> QED BY <2>3, <3>2, <3>4, <1>6, <1>9
  <2>4. CASE i \in DOMAIN plan /\ j = 0
    <3>1. b \in DOMAIN u.roots /\ a \in DOMAIN plan[i].args  BY <2>4, <1>9, <1>11
    <3>2. x + b \in DOMAIN at /\ r.roots[b] = at[x + b] /\ r.roots[b] \in DOMAIN plan  BY <3>1, <1>11
    <3>3. at[x + b] = plan[i].args[a]  BY <2>4, <3>2, <1>9, <1>15
    <3>4. Shareable(plan[at[x + b]].fixture)  BY <2>4, <3>1, <3>2, <3>3, <1>5 DEF Apart
    <3> QED BY <2>4, <3>1, <3>2, <3>3, <3>4, <1>6, <1>9
  <2>5. CASE i \in DOMAIN plan /\ j \in DOMAIN plan
    <3>1. a \in DOMAIN plan[i].args /\ b \in DOMAIN plan[j].args /\ plan[i].args[a] = plan[j].args[b]
      BY <2>5, <1>9, <1>15
    <3>2. plan[i].args[a] \in DOMAIN plan  BY <2>5, <3>1, <1>10
    <3>3. CASE i = j
      <4>1. a # b  BY <3>3, <1>15
      <4>2. ApartWithin(plan, plan[i].args)  BY <2>5, <1>5 DEF OnePlace
      <4>3. Shareable(plan[plan[i].args[a]].fixture)  BY <3>1, <3>3, <4>1, <4>2 DEF ApartWithin
      <4> QED BY <4>3, <3>2, <2>5, <1>6, <1>9
    <3>4. CASE i # j
      <4>1. Apart(plan, plan[i].args, plan[j].args)  BY <2>5, <3>4, <1>5 DEF OnePlace
      <4>2. Shareable(plan[plan[i].args[a]].fixture)  BY <3>1, <4>1 DEF Apart
      <4> QED BY <4>2, <3>2, <2>5, <1>6, <1>9
    <3> QED BY <3>3, <3>4
  <2> QED BY <2>1, <2>2, <2>3, <2>4, <2>5
<1> QED BY <1>3, <1>6, <1>7, <1>12, <1>13, <1>14, <1>15

(* Every plan is one that ScopeStore takes, and a test is turned away      *)
(* exactly if its graph cannot be had (FitForTheStore).                    *)
THEOREM Fits == Spec => []FitForTheStore
<1>1. IInv => FitForTheStore
  <2> SUFFICES ASSUME IInv PROVE FitForTheStore  OBVIOUS
  <2>1. \A k \in DOMAIN collected : collected[k].ok <=> Nested(collected[k].use)  BY DEF IInv, Collected
  <2> QED BY <2>1, RecordFits DEF FitForTheStore
<1> QED BY <1>1, Invariance, PTL

----------------------------------------------------------------------------
(* Every case once.                                                        *)

(* An id says which case of each fixture it is for.                        *)
LEMMA CaseIdIs ==
    ASSUME Declared, NEW ancestors \in Seq(Nat), ToSet(ancestors) \subseteq DOMAIN fixtures,
           NEW axes, axes = ToSet(ancestors), NEW chosen \in Combos(axes), NEW other \in Combos(axes)
    PROVE  /\ CaseId(ancestors, chosen) \in Seq(Seq(Nat))
           /\ CaseId(ancestors, chosen) = CaseId(ancestors, other) => chosen = other
<1> DEFINE n  == Len(ancestors)
           id == CaseId(ancestors, chosen)
<1>1. DOMAIN ancestors = 1..n /\ n \in Nat  BY LenProperties
<1>2. \A c \in Combos(axes) : /\ c = [f \in axes |-> c[f]] /\ DOMAIN c = axes
                              /\ \A f \in axes : c[f] \in DOMAIN fixtures[f].ids
  BY DEF Combos
<1>3. \A i \in 1..n : ancestors[i] \in axes /\ ancestors[i] \in DOMAIN fixtures  BY <1>1 DEF ToSet
<1>4. \A i \in 1..n : fixtures[ancestors[i]].ids[chosen[ancestors[i]]] \in Seq(Nat)
  <2> SUFFICES ASSUME NEW i \in 1..n PROVE fixtures[ancestors[i]].ids[chosen[ancestors[i]]] \in Seq(Nat)  OBVIOUS
  <2>1. chosen[ancestors[i]] \in DOMAIN fixtures[ancestors[i]].ids  BY <1>2, <1>3
  <2>2. fixtures[ancestors[i]].ids \in Seq(Seq(Nat))
        /\ DOMAIN fixtures[ancestors[i]].ids = 1..Len(fixtures[ancestors[i]].ids)
    BY <1>3, DeclaredType
  <2> QED BY <2>1, <2>2, ElementOfSeq
<1>5. id \in [1..n -> Seq(Nat)]  BY <1>1, <1>4 DEF CaseId
<1>6. id \in Seq(Seq(Nat))
  <2> HIDE DEF id, n
  <2> QED BY <1>1, <1>5
<1>7. ASSUME CaseId(ancestors, chosen) = CaseId(ancestors, other) PROVE chosen = other
  <2>1. \A i \in 1..n : fixtures[ancestors[i]].ids[chosen[ancestors[i]]] = fixtures[ancestors[i]].ids[other[ancestors[i]]]
    <3> SUFFICES ASSUME NEW i \in 1..n
                 PROVE  fixtures[ancestors[i]].ids[chosen[ancestors[i]]] = fixtures[ancestors[i]].ids[other[ancestors[i]]]
      OBVIOUS
    <3>1. \A c : CaseId(ancestors, c)[i] = fixtures[ancestors[i]].ids[c[ancestors[i]]]  BY <1>1 DEF CaseId
    <3> QED BY <3>1, <1>7
  <2>2. \A f \in axes : chosen[f] = other[f]
    <3> SUFFICES ASSUME NEW f \in axes PROVE chosen[f] = other[f]  OBVIOUS
    <3>1. PICK i \in 1..n : ancestors[i] = f  BY <1>1 DEF ToSet
    <3>2. fixtures[f].ids[chosen[f]] = fixtures[f].ids[other[f]]  BY <2>1, <3>1
    <3>3. f \in DOMAIN fixtures /\ chosen[f] \in DOMAIN fixtures[f].ids /\ other[f] \in DOMAIN fixtures[f].ids
      BY <1>2
    <3> QED BY <3>2, <3>3 DEF Declared
  <2> QED BY <2>2, <1>2
<1> QED BY <1>6, <1>7

(* Of the records of one plan, the id tells the choice and the case.       *)
LEMMA IdsApart ==
    ASSUME Declared, \E anc : Lineage(anc), Len(fixtures) = MaxFixtures,
           NEW u, NEW plan, NEW at,
           NEW r, NEW case, NEW chosen, IsRecordOf(r, u, plan, at, case, chosen),
           NEW q, NEW other, NEW choice, IsRecordOf(q, u, plan, at, other, choice),
           r.id = q.id
    PROVE  case = other /\ chosen = choice
<1> DEFINE V == Varies(plan, at)
           a == CaseId(V, chosen)
           b == CaseId(V, choice)
<1>1. /\ Finished(plan, u, at) /\ IsUse(u)
      /\ case \in Cases(u) /\ other \in Cases(u)
      /\ chosen \in Combos(ToSet(V)) /\ choice \in Combos(ToSet(V))
  BY DEF IsRecordOf
<1>2. V \in Seq(Nat) /\ ToSet(V) = Axes(u)  BY <1>1, VariesIs
<1>3. Axes(u) \subseteq DOMAIN fixtures
  <2>1. Needs(u) \subseteq DOMAIN fixtures  BY <1>1, FinishedHasAll
  <2> QED BY <2>1 DEF Axes
<1>4. ToSet(V) \subseteq DOMAIN fixtures  BY <1>2, <1>3
<1>5. /\ a \in Seq(Seq(Nat)) /\ b \in Seq(Seq(Nat))
      /\ a = b => chosen = choice
  <2> HIDE DEF V
  <2>1. /\ CaseId(V, chosen) \in Seq(Seq(Nat)) /\ CaseId(V, choice) \in Seq(Seq(Nat))
        /\ CaseId(V, chosen) = CaseId(V, choice) => chosen = choice
    BY <1>1, <1>2, <1>4, CaseIdIs
  <2> QED BY <2>1
<1>6. /\ r.id = IF case = NoParam THEN a ELSE Append(a, Dedupe(u.cases)[case])
      /\ q.id = IF other = NoParam THEN b ELSE Append(b, Dedupe(u.cases)[other])
  BY RecordFields
<1>7. u.cases = <<>> => case = NoParam /\ other = NoParam  BY <1>1 DEF Cases
<1> HIDE DEF a, b
<1>8. CASE u.cases = <<>>  BY <1>5, <1>6, <1>7, <1>8
<1>9. CASE u.cases # <<>>
  <2> DEFINE names == Dedupe(u.cases)
  <2>1. AreIds(u.cases)  BY <1>1 DEF IsUse
  <2>2. /\ names \in Seq(Seq(Nat)) /\ Len(names) = Len(u.cases)
        /\ \A i, j \in DOMAIN names : names[i] = names[j] => i = j
    BY <2>1, DedupeIs
  <2>3. DOMAIN u.cases = 1..Len(u.cases) /\ DOMAIN names = 1..Len(names)  BY <2>1, <2>2, LenProperties DEF AreIds
  <2>4. case \in DOMAIN names /\ other \in DOMAIN names /\ case # NoParam /\ other # NoParam
    <3>1. case \in DOMAIN u.cases /\ other \in DOMAIN u.cases  BY <1>1, <1>9 DEF Cases
    <3>2. 0 \notin 1..Len(u.cases)  OBVIOUS
    <3> QED BY <3>1, <3>2, <2>2, <2>3 DEF NoParam
  <2>5. Append(a, names[case]) = Append(b, names[other])  BY <2>4, <1>6
  <2>6. names[case] \in Seq(Nat) /\ names[other] \in Seq(Nat)  BY <2>2, <2>3, <2>4, ElementOfSeq
  <2> HIDE DEF names
  <2>7. a = b /\ names[case] = names[other]
    <3>1. Append(a, names[case]) = Append(b, names[other]) <=> a = b /\ names[case] = names[other]
      BY <1>5, <2>6, AppendInjective
    <3> QED BY <3>1, <2>5
  <2> QED BY <2>2, <2>4, <2>7, <1>5
<1> QED BY <1>8, <1>9

(* The choice of a record can be read from what its fixtures are handed.   *)
ChoiceOf(r, axes) == [f \in axes |-> r.steps[CHOOSE i \in DOMAIN r.steps : FixtureAt(r, i) = f].param]

(* That is the combination it was made for.                                *)
LEMMA ChoiceIs ==
    ASSUME Declared, \E anc : Lineage(anc), Len(fixtures) = MaxFixtures, NEW u, NEW plan, NEW at,
           NEW r, NEW case, NEW chosen, IsRecordOf(r, u, plan, at, case, chosen)
    PROVE  /\ ChoiceOf(r, Axes(u)) = chosen
           /\ chosen \in Combos(Axes(u))
           /\ \A i \in DOMAIN r.steps :
                r.steps[i].param = IF FixtureAt(r, i) \in Axes(u) THEN chosen[FixtureAt(r, i)] ELSE NoParam
<1>1. /\ Finished(plan, u, at) /\ IsUse(u) /\ chosen \in Combos(ToSet(Varies(plan, at)))
      /\ \A i \in DOMAIN plan : plan[i].fixture \in Needs(u)
  BY DEF IsRecordOf, Finished, Planned
<1>2. chosen \in Combos(Axes(u))  BY <1>1, VariesIs
<1>3. chosen = [f \in Axes(u) |-> chosen[f]]  BY <1>2 DEF Combos
<1>4. /\ DOMAIN r.steps = DOMAIN plan
      /\ \A i \in DOMAIN plan :
           /\ FixtureAt(r, i) = plan[i].fixture
           /\ r.steps[i].param = IF fixtures[plan[i].fixture].ids = <<>> THEN NoParam ELSE chosen[plan[i].fixture]
  BY RecordFields
<1>5. \A i \in DOMAIN r.steps :
        r.steps[i].param = IF FixtureAt(r, i) \in Axes(u) THEN chosen[FixtureAt(r, i)] ELSE NoParam
  BY <1>1, <1>4 DEF Axes
<1>6. ASSUME NEW f \in Axes(u)
      PROVE  r.steps[CHOOSE i \in DOMAIN r.steps : FixtureAt(r, i) = f].param = chosen[f]
  <2> DEFINE i == CHOOSE i \in DOMAIN r.steps : FixtureAt(r, i) = f
  <2>1. \E j \in DOMAIN plan : plan[j].fixture = f  BY <1>1, FinishedHasAll DEF Axes
  <2>2. i \in DOMAIN r.steps /\ FixtureAt(r, i) = f  BY <2>1, <1>4
  <2> HIDE DEF i
  <2>3. r.steps[i].param = chosen[f]  BY <2>2, <1>5
  <2> QED BY <2>3 DEF i
<1>7. ChoiceOf(r, Axes(u)) = chosen  BY <1>3, <1>6 DEF ChoiceOf
<1> QED BY <1>2, <1>5, <1>7

(* Each combination has one record, and no two have one id.                *)
LEMMA CasesOnce ==
    ASSUME IInv, NEW k \in DOMAIN collected, collected[k].ok
    PROVE  LET axes == Axes(collected[k].use)
               mine == {r \in records : r.test = Tests[k]}
           IN /\ \A case \in Cases(collected[k].use), chosen \in Combos(axes) :
                   Cardinality({r \in mine : r.case = case /\ ChoiceOf(r, axes) = chosen}) = 1
              /\ \A r \in mine : \A i \in DOMAIN r.steps :
                   r.steps[i].param = IF FixtureAt(r, i) \in axes THEN ChoiceOf(r, axes)[FixtureAt(r, i)] ELSE NoParam
              /\ \A r, q \in mine : r.id = q.id => r = q
<1>1. PICK u : u = collected[k].use  OBVIOUS
<1>2. PICK t : t = Tests[k]  OBVIOUS
<1>3. IsUse(u) /\ Len(fixtures) = MaxFixtures /\ Declared /\ \E anc : Lineage(anc)
  BY <1>1, TestsApart DEF IInv
<1>4. Nested(u)  BY <1>1 DEF IInv, Collected
<1>5. PICK plan, at : Finished(plan, u, at) /\ Mine(k) = RecordsOf(t, u, plan, at)
  BY <1>1, <1>2 DEF IInv, Collected
<1> DEFINE mine == {r \in records : r.test = Tests[k]}
           axes == Axes(u)
<1>6. mine = RecordsOf(t, u, plan, at)  BY <1>5 DEF Mine
<1>7. \A r \in mine : r.test = t  BY <1>2
<1>8. ToSet(Varies(plan, at)) = axes  BY <1>3, <1>5, VariesIs
<1> HIDE DEF mine
<1>9. ASSUME NEW r \in mine
      PROVE  \E case, chosen : IsRecordOf(r, u, plan, at, case, chosen)
  <2>1. PICK case \in Cases(u), chosen \in Combos(ToSet(Varies(plan, at))) : r = RecordOf(t, u, plan, at, case, chosen)
    BY <1>6 DEF RecordsOf
  <2>2. r = RecordOf(r.test, u, plan, at, case, chosen)  BY <2>1, <1>7
  <2> QED BY <2>1, <2>2, <1>3, <1>4, <1>5 DEF IsRecordOf
<1>10. ASSUME NEW case \in Cases(u), NEW chosen \in Combos(axes)
       PROVE  Cardinality({r \in mine : r.case = case /\ ChoiceOf(r, axes) = chosen}) = 1
  <2>1. PICK x : x = RecordOf(t, u, plan, at, case, chosen)  OBVIOUS
  <2>2. x \in mine  BY <2>1, <1>6, <1>8 DEF RecordsOf
  <2>3. x.test = t  BY <2>2, <1>7
  <2>4. IsRecordOf(x, u, plan, at, case, chosen)  BY <2>1, <2>3, <1>3, <1>4, <1>5, <1>8 DEF IsRecordOf
  <2>5. x.case = case /\ ChoiceOf(x, axes) = chosen
    <3>1. x.case = case  BY <2>4, RecordFields
    <3>2. ChoiceOf(x, axes) = chosen  BY <2>4, <1>3, ChoiceIs
    <3> QED BY <3>1, <3>2
  <2>6. ASSUME NEW r \in mine, r.case = case, ChoiceOf(r, axes) = chosen PROVE r = x
    <3>1. PICK c, choice : IsRecordOf(r, u, plan, at, c, choice)  BY <1>9
    <3>2. r.case = c  BY <3>1, RecordFields
    <3>3. ChoiceOf(r, axes) = choice  BY <3>1, <1>3, ChoiceIs
    <3>4. r = RecordOf(t, u, plan, at, c, choice)  BY <3>1, <1>7 DEF IsRecordOf
    <3> QED BY <2>1, <2>6, <3>2, <3>3, <3>4
  <2>7. {r \in mine : r.case = case /\ ChoiceOf(r, axes) = chosen} = {x}  BY <2>2, <2>5, <2>6
  <2> QED BY <2>7, FS_Singleton
<1>11. ASSUME NEW r \in mine, NEW i \in DOMAIN r.steps
       PROVE  r.steps[i].param = IF FixtureAt(r, i) \in axes THEN ChoiceOf(r, axes)[FixtureAt(r, i)] ELSE NoParam
  <2>1. PICK c, choice : IsRecordOf(r, u, plan, at, c, choice)  BY <1>9
  <2>2. /\ ChoiceOf(r, axes) = choice
        /\ r.steps[i].param = IF FixtureAt(r, i) \in axes THEN choice[FixtureAt(r, i)] ELSE NoParam
    BY <2>1, <1>3, ChoiceIs
  <2> QED BY <2>2
<1>12. ASSUME NEW r \in mine, NEW q \in mine, r.id = q.id PROVE r = q
  <2>1. PICK c1, choice1 : IsRecordOf(r, u, plan, at, c1, choice1)  BY <1>9
  <2>2. PICK c2, choice2 : IsRecordOf(q, u, plan, at, c2, choice2)  BY <1>9
  <2>3. c1 = c2 /\ choice1 = choice2  BY <2>1, <2>2, <1>3, <1>12, IdsApart
  <2>4. /\ r = RecordOf(t, u, plan, at, c1, choice1)
        /\ q = RecordOf(t, u, plan, at, c2, choice2)
    BY <2>1, <2>2, <1>7 DEF IsRecordOf
  <2> QED BY <2>3, <2>4
<1> HIDE DEF axes
<1>13. \A r, q \in mine : r.id = q.id => r = q  BY <1>12
<1>14. \A r \in mine : \A i \in DOMAIN r.steps :
         r.steps[i].param = IF FixtureAt(r, i) \in axes THEN ChoiceOf(r, axes)[FixtureAt(r, i)] ELSE NoParam
  BY <1>11
<1>15. \A case \in Cases(u), chosen \in Combos(axes) :
         Cardinality({r \in mine : r.case = case /\ ChoiceOf(r, axes) = chosen}) = 1
  BY <1>10
<1> QED BY <1>1, <1>13, <1>14, <1>15 DEF axes, mine

(* Every case of a test is collected once, under an id of its own          *)
(* (EveryCaseOnce).                                                        *)
THEOREM OnceEach == Spec => []EveryCaseOnce
<1>1. IInv => EveryCaseOnce
  <2> SUFFICES ASSUME IInv PROVE EveryCaseOnce  OBVIOUS
  <2> QED BY CasesOnce DEF EveryCaseOnce, ChoiceOf
<1> QED BY <1>1, Invariance, PTL

----------------------------------------------------------------------------
(* The keys.                                                               *)

Handed(g, chosen) == IF fixtures[g].ids = <<>> THEN NoParam ELSE chosen[g]

(* What step i of a record is made from, by its fixture and the choice of   *)
(* the record.                                                              *)
MadeOf(r, i, f, plan, chosen) ==
    /\ f \in DOMAIN fixtures
    /\ \A p : p \in MadeFrom(r, i) <=> \E g \in Reach({f}) : p = <<g, Handed(g, chosen)>>
    /\ r.steps[i].case = Case(plan[i], chosen) /\ plan[i].ancestors = Anc[f]

(* What a step is made from follows from its fixture and the choice.       *)
LEMMA MadeFromIs ==
    ASSUME Declared, \E anc : Lineage(anc), Len(fixtures) = MaxFixtures, NEW u, NEW plan, NEW at,
           NEW r, NEW case, NEW chosen, IsRecordOf(r, u, plan, at, case, chosen),
           NEW i \in DOMAIN r.steps
    PROVE  MadeOf(r, i, FixtureAt(r, i), plan, chosen)
<1> DEFINE f == FixtureAt(r, i)
<1>1. /\ Finished(plan, u, at) /\ IsUse(u) /\ plan \in Steps /\ Ordered(plan) /\ Inherited(plan)
      /\ \A j \in DOMAIN plan : plan[j].fixture \in Needs(u) /\ plan[j].fixture \in DOMAIN fixtures
  BY DEF IsRecordOf, Finished, Planned, Ordered
<1>2. /\ DOMAIN r.steps = DOMAIN plan
      /\ \A j \in DOMAIN plan :
           /\ FixtureAt(r, j) = plan[j].fixture
           /\ r.steps[j].case = Case(plan[j], chosen)
           /\ r.steps[j].param = Handed(plan[j].fixture, chosen)
  BY RecordFields DEF Handed
<1>4. f \in DOMAIN fixtures /\ f = plan[i].fixture  BY <1>1, <1>2
<1>5. \A g \in Reach({f}) : \E j \in DOMAIN plan : plan[j].fixture = g
  <2>1. {f} \in SUBSET DOMAIN fixtures  BY <1>4
  <2>2. \A g \in {f} : \E j \in DOMAIN plan : plan[j].fixture = g  BY <1>2, <1>4
  <2> QED BY <1>1, <2>1, <2>2, Stepped
<1>6. ASSUME NEW p
      PROVE  p \in MadeFrom(r, i) <=>
               \E g \in Reach({f}) : p = <<g, Handed(g, chosen)>>
  <2>1. p \in MadeFrom(r, i) <=>
          \E j \in DOMAIN r.steps : FixtureAt(r, j) \in Reach({f}) /\ p = <<FixtureAt(r, j), r.steps[j].param>>
    BY DEF MadeFrom
  <2>2. ASSUME p \in MadeFrom(r, i)
        PROVE  \E g \in Reach({f}) : p = <<g, Handed(g, chosen)>>
    <3>1. PICK j \in DOMAIN r.steps : FixtureAt(r, j) \in Reach({f}) /\ p = <<FixtureAt(r, j), r.steps[j].param>>
      BY <2>1, <2>2
    <3>2. /\ FixtureAt(r, j) = plan[j].fixture
          /\ r.steps[j].param = Handed(plan[j].fixture, chosen)
      BY <1>2
    <3> QED BY <3>1, <3>2
  <2>3. ASSUME NEW g \in Reach({f}), p = <<g, Handed(g, chosen)>>
        PROVE  p \in MadeFrom(r, i)
    <3>1. PICK j \in DOMAIN plan : plan[j].fixture = g  BY <1>5
    <3>2. /\ j \in DOMAIN r.steps /\ FixtureAt(r, j) = g
          /\ r.steps[j].param = Handed(g, chosen)
      BY <3>1, <1>2
    <3> QED BY <3>2, <2>1, <2>3
  <2> QED BY <2>2, <2>3
<1>7. plan[i].ancestors = Anc[f]  BY <1>1, <1>2, <1>4 DEF Inherited
<1> QED BY <1>2, <1>4, <1>6, <1>7 DEF MadeOf

(* Two steps for one fixture are for the same case exactly if they are made *)
(* from the same.                                                           *)
LEMMA CasesAreConstructions ==
    ASSUME IInv, NEW r \in records, NEW q \in records, NEW i \in DOMAIN r.steps, NEW j \in DOMAIN q.steps,
           FixtureAt(r, i) = FixtureAt(q, j)
    PROVE  r.steps[i].case = q.steps[j].case <=> MadeFrom(r, i) = MadeFrom(q, j)
<1>1. PICK u1, plan1, at1, case1, chosen1 : IsRecordOf(r, u1, plan1, at1, case1, chosen1)  BY RecordIs
<1>2. PICK u2, plan2, at2, case2, chosen2 : IsRecordOf(q, u2, plan2, at2, case2, chosen2)  BY RecordIs
<1>3. Declared /\ (\E anc : Lineage(anc)) /\ Len(fixtures) = MaxFixtures  BY RecordIs DEF IInv
<1>4. PICK f : f = FixtureAt(r, i)  OBVIOUS
<1>5. /\ f \in DOMAIN fixtures
      /\ \A p : p \in MadeFrom(r, i) <=> \E g \in Reach({f}) : p = <<g, Handed(g, chosen1)>>
      /\ r.steps[i].case = Case(plan1[i], chosen1) /\ plan1[i].ancestors = Anc[f]
  <2>1. MadeOf(r, i, FixtureAt(r, i), plan1, chosen1)  BY <1>1, <1>3, MadeFromIs
  <2> QED BY <2>1, <1>4 DEF MadeOf
<1>6. /\ \A p : p \in MadeFrom(q, j) <=> \E g \in Reach({f}) : p = <<g, Handed(g, chosen2)>>
      /\ q.steps[j].case = Case(plan2[j], chosen2) /\ plan2[j].ancestors = Anc[f]
  <2>1. MadeOf(q, j, FixtureAt(q, j), plan2, chosen2)  BY <1>2, <1>3, MadeFromIs
  <2> QED BY <2>1, <1>4 DEF MadeOf
<1>7. Anc[f] \in Seq(Nat) /\ ToSet(Anc[f]) = {g \in Reach({f}) : fixtures[g].ids # <<>>}  BY <1>3, <1>5, AncIs
<1> DEFINE Same == \A g \in ToSet(Anc[f]) : chosen1[g] = chosen2[g]
<1>8. r.steps[i].case = q.steps[j].case <=> Same
  <2>1. /\ Case(plan1[i], chosen1) = [x \in DOMAIN Anc[f] |-> <<Anc[f][x], chosen1[Anc[f][x]]>>]
        /\ Case(plan2[j], chosen2) = [x \in DOMAIN Anc[f] |-> <<Anc[f][x], chosen2[Anc[f][x]]>>]
    BY <1>5, <1>6 DEF Case
  <2>2. ASSUME Case(plan1[i], chosen1) = Case(plan2[j], chosen2) PROVE Same
    <3> SUFFICES ASSUME NEW x \in DOMAIN Anc[f] PROVE chosen1[Anc[f][x]] = chosen2[Anc[f][x]]  BY DEF ToSet
    <3>1. /\ Case(plan1[i], chosen1)[x] = <<Anc[f][x], chosen1[Anc[f][x]]>>
          /\ Case(plan2[j], chosen2)[x] = <<Anc[f][x], chosen2[Anc[f][x]]>>
      BY <2>1
    <3> QED BY <2>2, <3>1
  <2>3. ASSUME Same PROVE Case(plan1[i], chosen1) = Case(plan2[j], chosen2)
    <3>1. \A x \in DOMAIN Anc[f] : chosen1[Anc[f][x]] = chosen2[Anc[f][x]]  BY <2>3 DEF ToSet
    <3> QED BY <2>1, <3>1
  <2> HIDE DEF Same
  <2> QED BY <2>2, <2>3, <1>5, <1>6
<1>9. MadeFrom(r, i) = MadeFrom(q, j) <=> Same
  <2>1. ASSUME MadeFrom(r, i) = MadeFrom(q, j) PROVE Same
    <3> SUFFICES ASSUME NEW g \in ToSet(Anc[f]) PROVE chosen1[g] = chosen2[g]  OBVIOUS
    <3>1. g \in Reach({f}) /\ fixtures[g].ids # <<>>  BY <1>7
    <3>2. <<g, chosen1[g]>> \in MadeFrom(r, i)  BY <3>1, <1>5 DEF Handed
    <3>3. PICK h \in Reach({f}) : <<g, chosen1[g]>> = <<h, Handed(h, chosen2)>>
      BY <3>2, <2>1, <1>6
    <3> QED BY <3>1, <3>3 DEF Handed
  <2>2. ASSUME Same PROVE MadeFrom(r, i) = MadeFrom(q, j)
    <3>1. \A g \in Reach({f}) : fixtures[g].ids # <<>> => chosen1[g] = chosen2[g]  BY <2>2, <1>7
    <3>3. \A g \in Reach({f}) : Handed(g, chosen1) = Handed(g, chosen2)  BY <3>1 DEF Handed
    <3>2. ASSUME NEW p PROVE p \in MadeFrom(r, i) <=> p \in MadeFrom(q, j)
      <4>1. p \in MadeFrom(r, i) <=>
              \E g \in Reach({f}) : p = <<g, Handed(g, chosen1)>>
        BY <1>5
      <4>2. p \in MadeFrom(q, j) <=>
              \E g \in Reach({f}) : p = <<g, Handed(g, chosen2)>>
        BY <1>6
      <4> QED BY <4>1, <4>2, <3>3
    <3>4. \A p : p \in MadeFrom(r, i) <=> p \in MadeFrom(q, j)  BY <3>2
    <3> QED BY <3>4 DEF MadeFrom
  <2> QED BY <2>1, <2>2
<1> QED BY <1>8, <1>9

(* Two steps have one key exactly if they are one construction that both   *)
(* may share.                                                              *)
LEMMA KeysFollow ==
    ASSUME IInv, NEW r \in records, NEW q \in records, NEW i \in DOMAIN r.steps, NEW j \in DOMAIN q.steps,
           FixtureAt(r, i) = FixtureAt(q, j), <<r, i>> # <<q, j>>
    PROVE  Key(r, i) = Key(q, j) <=>
             /\ r # q /\ Shares(r, q, fixtures[FixtureAt(r, i)].scope)
             /\ MadeFrom(r, i) = MadeFrom(q, j)
<1>1. PICK f : f = FixtureAt(r, i)  OBVIOUS
<1>2. f = r.steps[i].fixture /\ f = q.steps[j].fixture /\ f = FixtureAt(q, j)  BY <1>1 DEF FixtureAt
<1>3. f \in DOMAIN fixtures
  <2>1. PICK u, plan, at, case, chosen : IsRecordOf(r, u, plan, at, case, chosen)  BY RecordIs
  <2>2. Declared /\ (\E anc : Lineage(anc)) /\ Len(fixtures) = MaxFixtures  BY RecordIs DEF IInv
  <2>3. MadeOf(r, i, FixtureAt(r, i), plan, chosen)  BY <2>1, <2>2, MadeFromIs
  <2> QED BY <2>3, <1>1 DEF MadeOf
<1>4. fixtures[f].scope \in {"session", "module", "function", "call"}  BY <1>3, DeclaredType DEF IInv
<1>5. r = q => ~Shareable(f)
  <2>1. \A a, b \in DOMAIN r.steps : a # b /\ FixtureAt(r, a) = FixtureAt(r, b) => ~Shareable(FixtureAt(r, a))
    BY RecordFits
  <2> QED BY <2>1, <1>1
<1>6. r.steps[i].case = q.steps[j].case <=> MadeFrom(r, i) = MadeFrom(q, j)  BY CasesAreConstructions
<1>7. Shareable(f) <=> fixtures[f].scope # "call"  BY DEF Shareable
<1>8. CASE fixtures[f].scope = "session"
  <2>1. Key(r, i) = <<"session", f, r.steps[i].case>> /\ Key(q, j) = <<"session", f, q.steps[j].case>>
    BY <1>2, <1>8 DEF Key
  <2>2. Shares(r, q, fixtures[f].scope) /\ r # q  BY <1>5, <1>7, <1>8 DEF Shares
  <2> QED BY <2>1, <2>2, <1>1, <1>6
<1>9. CASE fixtures[f].scope = "module"
  <2>1. /\ Key(r, i) = <<"module", f, ModuleOf[r.test], r.steps[i].case>>
        /\ Key(q, j) = <<"module", f, ModuleOf[q.test], q.steps[j].case>>
    BY <1>2, <1>9 DEF Key
  <2>2. Shares(r, q, fixtures[f].scope) <=> ModuleOf[r.test] = ModuleOf[q.test]  BY <1>9 DEF Shares
  <2>3. r # q  BY <1>5, <1>7, <1>9
  <2> QED BY <2>1, <2>2, <2>3, <1>1, <1>6
<1>10. CASE fixtures[f].scope = "function"
  <2>1. /\ Key(r, i) = <<"function", f, r.test, r.id, r.steps[i].case>>
        /\ Key(q, j) = <<"function", f, q.test, q.id, q.steps[j].case>>
    BY <1>2, <1>10 DEF Key
  <2>2. ~Shares(r, q, fixtures[f].scope) /\ r # q  BY <1>5, <1>7, <1>10 DEF Shares
  <2>3. r.test = q.test /\ r.id = q.id => r = q
    <3>1. PICK k \in DOMAIN collected : collected[k].ok /\ r.test = Tests[k]  BY RecordIs
    <3>2. \A a, b \in {x \in records : x.test = Tests[k]} : a.id = b.id => a = b  BY <3>1, CasesOnce
    <3> QED BY <3>1, <3>2
  <2> QED BY <2>1, <2>2, <2>3, <1>1
<1>11. CASE fixtures[f].scope = "call"
  <2>1. Key(r, i) = <<"call", f, r, i>> /\ Key(q, j) = <<"call", f, q, j>>  BY <1>2, <1>11 DEF Key
  <2>2. ~Shares(r, q, fixtures[f].scope)  BY <1>11 DEF Shares
  <2> QED BY <2>1, <2>2, <1>1
<1> QED BY <1>4, <1>8, <1>9, <1>10, <1>11

(* Two tests share an instance if and only if its scope says so and all    *)
(* that it is made from is the same (KeysAreConstructions).                *)
THEOREM KeysTell == Spec => []KeysAreConstructions
<1>1. IInv => KeysAreConstructions
  <2> SUFFICES ASSUME IInv PROVE KeysAreConstructions  OBVIOUS
  <2> QED BY KeysFollow DEF KeysAreConstructions
<1> QED BY <1>1, Invariance, PTL

----------------------------------------------------------------------------
(* What the store is given.                                                *)

\* The keys of a suite of records, and of one of them in the order of its plan.
Stock(suite) == UNION {{Key(r, i) : i \in DOMAIN r.steps} : r \in suite}
PlanOf(r)    == [i \in DOMAIN r.steps |-> Key(r, i)]

\* A key lives as long as its fixture's scope says; a call fixture as long as
\* its test.
ScopeFor(k) == IF fixtures[k[2]].scope = "call" THEN "function" ELSE fixtures[k[2]].scope

\* What the instances kept under k are built over, whichever record builds one.
Over(suite, k) ==
    {d \in Stock(suite) : \E r \in suite : \E i \in DOMAIN r.steps :
        Key(r, i) = k /\ \E j \in ToSet(r.steps[i].args) : d = Key(r, j)}

\* What ScopeStore assumes of its constants (PlanAssumption), with the records
\* that are run for Tests, PlanOf for Plan and Over for DependsOn.
Stocked(suite) ==
    /\ \A k \in Stock(suite) : ScopeFor(k) \in {"session", "module", "function"}
    /\ \A r \in suite : PlanOf(r) \in Seq(Stock(suite)) /\ IsInjective(PlanOf(r))
    /\ \A r \in suite : \A i \in DOMAIN PlanOf(r) :
         Over(suite, PlanOf(r)[i]) \subseteq {PlanOf(r)[j] : j \in 1..(i - 1)}
    /\ \A k, d \in Stock(suite) : d \in Over(suite, k) =>
         \/ ScopeFor(d) = "session"
         \/ ScopeFor(d) = "module" /\ ScopeFor(k) # "session"
         \/ ScopeFor(d) = "function" /\ ScopeFor(k) = "function"
    /\ \A r, q \in suite : \A k \in ToSet(PlanOf(r)) \cap ToSet(PlanOf(q)) :
         /\ ScopeFor(k) = "function" => r = q
         /\ ScopeFor(k) = "module" => ModuleOf[r.test] = ModuleOf[q.test]

(* What the steps of a record are built over, by the record itself.        *)
LEMMA StepsAre ==
    ASSUME IInv, NEW r \in records
    PROVE  /\ DOMAIN r.steps = 1..Len(r.steps) /\ Len(r.steps) \in Nat
           /\ \A i \in DOMAIN r.steps :
                /\ FixtureAt(r, i) \in DOMAIN fixtures
                /\ r.steps[i].args \in Seq(Nat)
                /\ DOMAIN r.steps[i].args = DOMAIN fixtures[FixtureAt(r, i)].deps
                /\ \A a \in DOMAIN r.steps[i].args :
                     /\ r.steps[i].args[a] \in 1..(i - 1) /\ r.steps[i].args[a] \in DOMAIN r.steps
                     /\ FixtureAt(r, r.steps[i].args[a]) = fixtures[FixtureAt(r, i)].deps[a]
                     /\ Rank[fixtures[fixtures[FixtureAt(r, i)].deps[a]].scope] >= Rank[fixtures[FixtureAt(r, i)].scope]
<1>1. PICK u, plan, at, case, chosen : IsRecordOf(r, u, plan, at, case, chosen)  BY RecordIs
<1>2. plan \in Steps /\ Ordered(plan)  BY <1>1 DEF IsRecordOf, Finished, Planned
<1>3. /\ DOMAIN r.steps = DOMAIN plan /\ DOMAIN plan = 1..Len(plan) /\ Len(plan) \in Nat
      /\ Len(r.steps) = Len(plan)
      /\ \A i \in DOMAIN plan : FixtureAt(r, i) = plan[i].fixture /\ r.steps[i].args = plan[i].args
  BY <1>1, RecordFields
<1>4. ASSUME NEW i \in DOMAIN plan
      PROVE  /\ plan[i].fixture \in DOMAIN fixtures
             /\ plan[i].args \in Seq(Nat)
             /\ DOMAIN plan[i].args = DOMAIN fixtures[plan[i].fixture].deps
             /\ \A a \in DOMAIN plan[i].args :
                  /\ plan[i].args[a] \in 1..(i - 1) /\ plan[i].args[a] \in DOMAIN plan
                  /\ plan[plan[i].args[a]].fixture = fixtures[plan[i].fixture].deps[a]
                  /\ Rank[fixtures[fixtures[plan[i].fixture].deps[a]].scope] >= Rank[fixtures[plan[i].fixture].scope]
  <2>1. plan[i].fixture \in DOMAIN fixtures /\ plan[i].args \in Seq(Nat)
        /\ Len(plan[i].args) = Len(fixtures[plan[i].fixture].deps)
    BY <1>2 DEF Ordered
  <2>2. DOMAIN plan[i].args = DOMAIN fixtures[plan[i].fixture].deps
    <3>1. DOMAIN plan[i].args = 1..Len(plan[i].args)  BY <2>1, LenProperties
    <3>2. DOMAIN fixtures[plan[i].fixture].deps = 1..Len(fixtures[plan[i].fixture].deps)
      BY <2>1, DeclaredType DEF IInv
    <3> QED BY <2>1, <3>1, <3>2
  <2>3. ASSUME NEW a \in DOMAIN plan[i].args
        PROVE  /\ plan[i].args[a] \in 1..(i - 1) /\ plan[i].args[a] \in DOMAIN plan
               /\ plan[plan[i].args[a]].fixture = fixtures[plan[i].fixture].deps[a]
               /\ Rank[fixtures[fixtures[plan[i].fixture].deps[a]].scope] >= Rank[fixtures[plan[i].fixture].scope]
    <3>1. /\ plan[i].args[a] \in 1..(i - 1)
          /\ plan[plan[i].args[a]].fixture = fixtures[plan[i].fixture].deps[a]
          /\ Rank[fixtures[fixtures[plan[i].fixture].deps[a]].scope] >= Rank[fixtures[plan[i].fixture].scope]
      BY <1>2 DEF Ordered
    <3>2. \A k \in 1..(i - 1) : k \in DOMAIN plan  BY <1>3
    <3> QED BY <3>1, <3>2
  <2> QED BY <2>1, <2>2, <2>3
<1>5. ASSUME NEW i \in DOMAIN r.steps
      PROVE  /\ FixtureAt(r, i) \in DOMAIN fixtures
             /\ r.steps[i].args \in Seq(Nat)
             /\ DOMAIN r.steps[i].args = DOMAIN fixtures[FixtureAt(r, i)].deps
             /\ \A a \in DOMAIN r.steps[i].args :
                  /\ r.steps[i].args[a] \in 1..(i - 1) /\ r.steps[i].args[a] \in DOMAIN r.steps
                  /\ FixtureAt(r, r.steps[i].args[a]) = fixtures[FixtureAt(r, i)].deps[a]
                  /\ Rank[fixtures[fixtures[FixtureAt(r, i)].deps[a]].scope] >= Rank[fixtures[FixtureAt(r, i)].scope]
  <2>1. i \in DOMAIN plan /\ FixtureAt(r, i) = plan[i].fixture /\ r.steps[i].args = plan[i].args  BY <1>3
  <2>2. ASSUME NEW a \in DOMAIN plan[i].args
        PROVE  /\ plan[i].args[a] \in 1..(i - 1) /\ plan[i].args[a] \in DOMAIN r.steps
               /\ FixtureAt(r, plan[i].args[a]) = fixtures[plan[i].fixture].deps[a]
               /\ Rank[fixtures[fixtures[plan[i].fixture].deps[a]].scope] >= Rank[fixtures[plan[i].fixture].scope]
    <3>1. /\ plan[i].args[a] \in 1..(i - 1) /\ plan[i].args[a] \in DOMAIN plan
          /\ plan[plan[i].args[a]].fixture = fixtures[plan[i].fixture].deps[a]
          /\ Rank[fixtures[fixtures[plan[i].fixture].deps[a]].scope] >= Rank[fixtures[plan[i].fixture].scope]
      BY <2>1, <1>4
    <3>2. FixtureAt(r, plan[i].args[a]) = plan[plan[i].args[a]].fixture  BY <3>1, <1>3
    <3> QED BY <3>1, <3>2, <1>3
  <2>3. plan[i].fixture \in DOMAIN fixtures /\ plan[i].args \in Seq(Nat)
        /\ DOMAIN plan[i].args = DOMAIN fixtures[plan[i].fixture].deps
    BY <2>1, <1>4
  <2> QED BY <2>1, <2>2, <2>3
<1> QED BY <1>3, <1>5

(* A key names its fixture.                                                *)
LEMMA KeyNames ==
    ASSUME IInv, NEW r \in records, NEW i \in DOMAIN r.steps
    PROVE  /\ Key(r, i)[2] = FixtureAt(r, i)
           /\ fixtures[FixtureAt(r, i)].scope \in {"session", "module", "function", "call"}
<1>1. fixtures[FixtureAt(r, i)].scope \in {"session", "module", "function", "call"}
  BY StepsAre, DeclaredType DEF IInv
<1>2. FixtureAt(r, i) = r.steps[i].fixture  BY DEF FixtureAt
<1> DEFINE f == r.steps[i].fixture
<1>3. CASE fixtures[f].scope = "session"
  <2>1. Key(r, i) = <<"session", f, r.steps[i].case>>  BY <1>3 DEF Key
  <2> QED BY <2>1, <1>1, <1>2
<1>4. CASE fixtures[f].scope = "module"
  <2>1. Key(r, i) = <<"module", f, ModuleOf[r.test], r.steps[i].case>>  BY <1>4 DEF Key
  <2> QED BY <2>1, <1>1, <1>2
<1>5. CASE fixtures[f].scope = "function"
  <2>1. Key(r, i) = <<"function", f, r.test, r.id, r.steps[i].case>>  BY <1>5 DEF Key
  <2> QED BY <2>1, <1>1, <1>2
<1>6. CASE fixtures[f].scope = "call"
  <2>1. Key(r, i) = <<"call", f, r, i>>  BY <1>6 DEF Key
  <2> QED BY <2>1, <1>1, <1>2
<1> QED BY <1>1, <1>2, <1>3, <1>4, <1>5, <1>6

(* What a dependency is made from is what its dependent is, of that below  *)
(* the dependency.                                                         *)
LEMMA MadeBelow ==
    ASSUME IInv, NEW r \in records, NEW i \in DOMAIN r.steps, NEW x \in DOMAIN r.steps,
           NEW a \in DOMAIN fixtures[FixtureAt(r, i)].deps, FixtureAt(r, x) = fixtures[FixtureAt(r, i)].deps[a]
    PROVE  \A p : p \in MadeFrom(r, x) <=> p \in MadeFrom(r, i) /\ p[1] \in Reach({FixtureAt(r, x)})
<1> DEFINE f == FixtureAt(r, i)
           d == FixtureAt(r, x)
<1>1. f \in DOMAIN fixtures /\ d \in DOMAIN fixtures /\ d = fixtures[f].deps[a]  BY StepsAre
<1>2. Reach({d}) \subseteq Reach({f})
  <2>1. Reach({f}) = {f} \cup UNION {Reach({fixtures[f].deps[b]}) : b \in DOMAIN fixtures[f].deps}
    BY <1>1, ReachOne DEF IInv
  <2> QED BY <2>1, <1>1
<1>3. \A p : p \in MadeFrom(r, x) <=>
        \E j \in DOMAIN r.steps : FixtureAt(r, j) \in Reach({d}) /\ p = <<FixtureAt(r, j), r.steps[j].param>>
  BY DEF MadeFrom
<1>4. \A p : p \in MadeFrom(r, i) <=>
        \E j \in DOMAIN r.steps : FixtureAt(r, j) \in Reach({f}) /\ p = <<FixtureAt(r, j), r.steps[j].param>>
  BY DEF MadeFrom
<1> HIDE DEF f, d
<1>5. \A p : p \in MadeFrom(r, x) <=> p \in MadeFrom(r, i) /\ p[1] \in Reach({d})
  <2> TAKE p
  <2>1. ASSUME p \in MadeFrom(r, x) PROVE p \in MadeFrom(r, i) /\ p[1] \in Reach({d})
    <3>1. PICK j \in DOMAIN r.steps : FixtureAt(r, j) \in Reach({d}) /\ p = <<FixtureAt(r, j), r.steps[j].param>>
      BY <2>1, <1>3
    <3>2. FixtureAt(r, j) \in Reach({f}) /\ p[1] = FixtureAt(r, j)  BY <3>1, <1>2
    <3> QED BY <3>1, <3>2, <1>4
  <2>2. ASSUME p \in MadeFrom(r, i), p[1] \in Reach({d}) PROVE p \in MadeFrom(r, x)
    <3>1. PICK j \in DOMAIN r.steps : p = <<FixtureAt(r, j), r.steps[j].param>>  BY <2>2, <1>4
    <3>2. FixtureAt(r, j) \in Reach({d})  BY <3>1, <2>2
    <3> QED BY <3>1, <3>2, <1>3
  <2> QED BY <2>1, <2>2
<1> QED BY <1>5 DEF d

(* What is kept under one key is built over what is kept under one key each. *)
LEMMA KeysGoTogether ==
    ASSUME IInv, NEW r \in records, NEW q \in records, NEW i \in DOMAIN r.steps, NEW j \in DOMAIN q.steps,
           Key(r, i) = Key(q, j), NEW a \in DOMAIN r.steps[i].args
    PROVE  a \in DOMAIN q.steps[j].args /\ Key(r, r.steps[i].args[a]) = Key(q, q.steps[j].args[a])
<1>1. PICK x : x = r.steps[i].args[a]  OBVIOUS
<1>2. PICK y : y = q.steps[j].args[a]  OBVIOUS
<1>3. PICK f : f = FixtureAt(r, i)  OBVIOUS
<1>4. PICK d : d = fixtures[f].deps[a]  OBVIOUS
<1>5. f = FixtureAt(q, j)  BY <1>3, KeyNames
<1>6. /\ a \in DOMAIN fixtures[f].deps /\ a \in DOMAIN q.steps[j].args
      /\ x \in DOMAIN r.steps /\ FixtureAt(r, x) = d
      /\ y \in DOMAIN q.steps /\ FixtureAt(q, y) = d
      /\ Rank[fixtures[d].scope] >= Rank[fixtures[f].scope]
  <2>1. /\ a \in DOMAIN fixtures[f].deps /\ x \in DOMAIN r.steps /\ FixtureAt(r, x) = d
        /\ Rank[fixtures[d].scope] >= Rank[fixtures[f].scope]
    BY <1>1, <1>3, <1>4, StepsAre
  <2>2. DOMAIN q.steps[j].args = DOMAIN fixtures[f].deps  BY <1>5, StepsAre
  <2>3. a \in DOMAIN q.steps[j].args  BY <2>1, <2>2
  <2>4. y \in DOMAIN q.steps /\ FixtureAt(q, y) = d  BY <2>3, <1>2, <1>4, <1>5, StepsAre
  <2> QED BY <2>1, <2>3, <2>4
<1>7. CASE <<r, i>> = <<q, j>>  BY <1>6, <1>7
<1>8. CASE <<r, i>> # <<q, j>>
  <2>1. /\ r # q /\ Shares(r, q, fixtures[f].scope)
        /\ MadeFrom(r, i) = MadeFrom(q, j)
    <3>1. FixtureAt(r, i) = FixtureAt(q, j)  BY <1>3, <1>5
    <3>2. Key(r, i) = Key(q, j) <=>
            /\ r # q /\ Shares(r, q, fixtures[FixtureAt(r, i)].scope)
            /\ MadeFrom(r, i) = MadeFrom(q, j)
      BY <3>1, <1>8, KeysFollow
    <3> QED BY <3>2, <1>3
  <2>2. MadeFrom(r, x) = MadeFrom(q, y)
    <3>1. \A p : p \in MadeFrom(r, x) <=> p \in MadeFrom(r, i) /\ p[1] \in Reach({d})
      BY <1>3, <1>4, <1>6, MadeBelow
    <3>2. \A p : p \in MadeFrom(q, y) <=> p \in MadeFrom(q, j) /\ p[1] \in Reach({d})
      BY <1>5, <1>4, <1>6, MadeBelow
    <3>3. \A p : p \in MadeFrom(r, x) <=> p \in MadeFrom(q, y)  BY <3>1, <3>2, <2>1
    <3> QED BY <3>3 DEF MadeFrom
  <2>3. Shares(r, q, fixtures[d].scope)
    <3>1. fixtures[f].scope \in {"session", "module"} /\ (fixtures[f].scope = "module" => ModuleOf[r.test] = ModuleOf[q.test])
      BY <2>1 DEF Shares
    <3>2. fixtures[d].scope \in {"session", "module", "function", "call"}  BY <1>6, KeyNames
    <3>3. fixtures[d].scope = "session" \/ (fixtures[d].scope = "module" /\ fixtures[f].scope = "module")
      BY <3>1, <3>2, <1>6 DEF Rank
    <3> QED BY <3>1, <3>3 DEF Shares
  <2>4. <<r, x>> # <<q, y>>  BY <2>1
  <2>5. Key(r, x) = Key(q, y)  BY <1>6, <2>1, <2>2, <2>3, <2>4, KeysFollow
  <2> QED BY <2>5, <1>1, <1>2, <1>6
<1> QED BY <1>7, <1>8

(* Any suite of records is one that the store can run.                     *)
LEMMA SuiteIsStocked ==
    ASSUME IInv, NEW suite \in SUBSET records
    PROVE  Stocked(suite)
<1>1. ASSUME NEW r \in records, NEW i \in DOMAIN r.steps
      PROVE  /\ ScopeFor(Key(r, i)) = IF fixtures[FixtureAt(r, i)].scope = "call" THEN "function"
                                      ELSE fixtures[FixtureAt(r, i)].scope
             /\ fixtures[FixtureAt(r, i)].scope \in {"session", "module", "function", "call"}
  BY KeyNames DEF ScopeFor
<1>2. \A k : k \in Stock(suite) <=> \E r \in suite : \E i \in DOMAIN r.steps : k = Key(r, i)  BY DEF Stock
<1>3. \A r \in suite : r \in records  OBVIOUS
<1>4. \A k \in Stock(suite) : ScopeFor(k) \in {"session", "module", "function"}  BY <1>1, <1>2, <1>3
<1>5. ASSUME NEW r \in suite
      PROVE  PlanOf(r) \in Seq(Stock(suite)) /\ IsInjective(PlanOf(r))
  <2>1. DOMAIN r.steps = 1..Len(r.steps) /\ Len(r.steps) \in Nat  BY StepsAre
  <2>2. \A i \in DOMAIN r.steps : Key(r, i) \in Stock(suite)  BY <1>2
  <2>3. PlanOf(r) \in [1..Len(r.steps) -> Stock(suite)]  BY <2>1, <2>2 DEF PlanOf
  <2>4. PlanOf(r) \in Seq(Stock(suite))
    <3> DEFINE n == Len(r.steps)
    <3>1. n \in Nat /\ PlanOf(r) \in [1..n -> Stock(suite)]  BY <2>1, <2>3
    <3> HIDE DEF n
    <3> QED BY <3>1
  <2>5. ASSUME NEW i \in DOMAIN r.steps, NEW j \in DOMAIN r.steps, Key(r, i) = Key(r, j) PROVE i = j
    <3>1. FixtureAt(r, i) = FixtureAt(r, j)  BY <2>5, KeyNames
    <3> SUFFICES ASSUME i # j PROVE FALSE  OBVIOUS
    <3>2. <<r, i>> # <<r, j>>  OBVIOUS
    <3> QED BY <3>1, <3>2, <2>5, KeysFollow
  <2>6. DOMAIN PlanOf(r) = DOMAIN r.steps /\ \A i \in DOMAIN r.steps : PlanOf(r)[i] = Key(r, i)  BY DEF PlanOf
  <2>7. \A i, j \in DOMAIN PlanOf(r) : PlanOf(r)[i] = PlanOf(r)[j] => i = j  BY <2>5, <2>6
  <2>8. IsInjective(PlanOf(r))  BY <2>7 DEF IsInjective
  <2> QED BY <2>4, <2>8
<1>6. ASSUME NEW k, NEW d \in Over(suite, k)
      PROVE  \E q \in suite : \E j \in DOMAIN q.steps : \E a \in DOMAIN q.steps[j].args :
               Key(q, j) = k /\ d = Key(q, q.steps[j].args[a])
  BY DEF Over, ToSet
<1>7. ASSUME NEW r \in suite, NEW i \in DOMAIN PlanOf(r)
      PROVE  Over(suite, PlanOf(r)[i]) \subseteq {PlanOf(r)[j] : j \in 1..(i - 1)}
  <2> SUFFICES ASSUME NEW d \in Over(suite, PlanOf(r)[i])
               PROVE  \E j \in 1..(i - 1) : d = PlanOf(r)[j]
    OBVIOUS
  <2>1. i \in DOMAIN r.steps /\ PlanOf(r)[i] = Key(r, i)  BY DEF PlanOf
  <2>2. PICK q \in suite : \E j \in DOMAIN q.steps : \E a \in DOMAIN q.steps[j].args :
          Key(q, j) = Key(r, i) /\ d = Key(q, q.steps[j].args[a])
    BY <1>6, <2>1
  <2>6. PICK j \in DOMAIN q.steps : \E a \in DOMAIN q.steps[j].args :
          Key(q, j) = Key(r, i) /\ d = Key(q, q.steps[j].args[a])
    BY <2>2
  <2>3. PICK a \in DOMAIN q.steps[j].args : Key(q, j) = Key(r, i) /\ d = Key(q, q.steps[j].args[a])
    BY <2>6
  <2>4. a \in DOMAIN r.steps[i].args /\ d = Key(r, r.steps[i].args[a])
    <3>1. q \in records /\ r \in records  OBVIOUS
    <3> QED BY <3>1, <2>1, <2>3, KeysGoTogether
  <2>5. r.steps[i].args[a] \in 1..(i - 1) /\ r.steps[i].args[a] \in DOMAIN r.steps  BY <2>1, <2>4, StepsAre
  <2> QED BY <2>4, <2>5 DEF PlanOf
<1>8. ASSUME NEW k \in Stock(suite), NEW d \in Stock(suite), d \in Over(suite, k)
      PROVE  \/ ScopeFor(d) = "session"
             \/ ScopeFor(d) = "module" /\ ScopeFor(k) # "session"
             \/ ScopeFor(d) = "function" /\ ScopeFor(k) = "function"
  <2>7. PICK q \in suite : \E j \in DOMAIN q.steps : \E a \in DOMAIN q.steps[j].args :
          Key(q, j) = k /\ d = Key(q, q.steps[j].args[a])
    BY <1>6, <1>8
  <2>8. PICK j \in DOMAIN q.steps : \E a \in DOMAIN q.steps[j].args :
          Key(q, j) = k /\ d = Key(q, q.steps[j].args[a])
    BY <2>7
  <2>1. PICK a \in DOMAIN q.steps[j].args : Key(q, j) = k /\ d = Key(q, q.steps[j].args[a])
    BY <2>8
  <2>2. PICK f : f = FixtureAt(q, j)  OBVIOUS
  <2>3. PICK x : x = q.steps[j].args[a]  OBVIOUS
  <2>4. PICK g : g = FixtureAt(q, x)  OBVIOUS
  <2>5. x \in DOMAIN q.steps /\ Rank[fixtures[g].scope] >= Rank[fixtures[f].scope]
    BY <2>1, <2>2, <2>3, <2>4, StepsAre
  <2>6. /\ ScopeFor(k) = IF fixtures[f].scope = "call" THEN "function" ELSE fixtures[f].scope
        /\ ScopeFor(d) = IF fixtures[g].scope = "call" THEN "function" ELSE fixtures[g].scope
        /\ fixtures[f].scope \in {"session", "module", "function", "call"}
        /\ fixtures[g].scope \in {"session", "module", "function", "call"}
    BY <1>1, <2>1, <2>2, <2>3, <2>4, <2>5
  <2> QED BY <2>5, <2>6 DEF Rank
<1>9. ASSUME NEW r \in suite, NEW q \in suite, NEW k \in ToSet(PlanOf(r)) \cap ToSet(PlanOf(q))
      PROVE  /\ ScopeFor(k) = "function" => r = q
             /\ ScopeFor(k) = "module" => ModuleOf[r.test] = ModuleOf[q.test]
  <2>1. PICK i \in DOMAIN r.steps : k = Key(r, i)  BY DEF ToSet, PlanOf
  <2>2. PICK j \in DOMAIN q.steps : k = Key(q, j)  BY DEF ToSet, PlanOf
  <2>3. FixtureAt(r, i) = FixtureAt(q, j)  BY <2>1, <2>2, KeyNames
  <2>4. r # q => Shares(r, q, fixtures[FixtureAt(r, i)].scope)
    <3> SUFFICES ASSUME r # q PROVE Shares(r, q, fixtures[FixtureAt(r, i)].scope)  OBVIOUS
    <3>1. <<r, i>> # <<q, j>>  OBVIOUS
    <3>2. r \in records /\ q \in records  BY <1>3
    <3>3. Key(r, i) = Key(q, j) <=>
            /\ r # q /\ Shares(r, q, fixtures[FixtureAt(r, i)].scope)
            /\ MadeFrom(r, i) = MadeFrom(q, j)
      BY <3>1, <3>2, <2>3, KeysFollow
    <3> QED BY <3>3, <2>1, <2>2
  <2> QED BY <1>1, <2>1, <2>4 DEF Shares
<1> QED BY <1>4, <1>5, <1>7, <1>8, <1>9 DEF Stocked

(* Whatever is selected of the records can be run: ScopeStore's assumption  *)
(* on plans and keys is what collection ensures.                           *)
THEOREM StoreTakesAll == Spec => [](\A suite \in SUBSET records : Stocked(suite))
<1>1. IInv => \A suite \in SUBSET records : Stocked(suite)  BY SuiteIsStocked
<1> QED BY <1>1, Invariance, PTL
=============================================================================
