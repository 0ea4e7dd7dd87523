-------------------------- MODULE OverridesProofs --------------------------
(***************************************************************************)
(* What holds of the layers over one application for any number of tests,  *)
(* tasks, keys, blocks and writes.                                         *)
(***************************************************************************)
EXTENDS Overrides, FiniteSetsExt, SequenceTheorems, NaturalsInduction,
        WellFoundedInduction, TLAPS

----------------------------------------------------------------------------
(* Least and greatest members of sets of numbers.                          *)

(* A set of naturals has a least member, which Min is.                     *)
LEMMA Least ==
    ASSUME NEW S \in SUBSET Nat, S # {}
    PROVE  Min(S) \in S /\ \A n \in S : Min(S) <= n
<1>1. PICK x \in S : \A y \in S : ~(<<y, x>> \in OpToRel(<, Nat))
  BY NatLessThanWellFounded, WFMin
<1>2. \A y \in S : x <= y
  <2> SUFFICES ASSUME NEW y \in S PROVE x <= y  OBVIOUS
  <2>1. x \in Nat /\ y \in Nat  OBVIOUS
  <2>2. ~(y < x)  BY <1>1, <2>1 DEF OpToRel
  <2> QED BY <2>1, <2>2
<1> QED BY <1>2 DEF Min

(* A set of naturals up to k has a greatest one, which Max is.             *)
LEMMA Greatest ==
    ASSUME NEW k \in Nat, NEW S \in SUBSET (0..k), S # {}
    PROVE  Max(S) \in S /\ \A n \in S : n <= Max(S)
<1> DEFINE T == {k - n : n \in S}
<1>1. T \in SUBSET Nat /\ T # {}
  <2>1. \A n \in S : k - n \in Nat  OBVIOUS
  <2>2. \A m \in T : m \in Nat  BY <2>1
  <2>3. PICK n \in S : TRUE  OBVIOUS
  <2>4. k - n \in T  OBVIOUS
  <2> QED BY <2>2, <2>4
<1>2. Min(T) \in T /\ \A m \in T : Min(T) <= m  BY <1>1, Least
<1>3. PICK x \in S : Min(T) = k - x  BY <1>2
<1>4. \A y \in S : y <= x
  <2> SUFFICES ASSUME NEW y \in S PROVE y <= x  OBVIOUS
  <2>1. k - x <= k - y  BY <1>2, <1>3
  <2> QED BY <2>1
<1>5. \A y \in S : x >= y  BY <1>4
<1> QED BY <1>5 DEF Max

----------------------------------------------------------------------------
(* The inductive invariant.                                                *)

Values  == Tests \cup {"app", Missing}
Mapping == [Names -> Values]
Layer   == [Attrs -> Mapping]
Block   == [by : Tasks, before : Seq(Nat), layer : Nat, shared : BOOLEAN]

TypeOK ==
    /\ at \in [Attrs -> {"own", "proxy", "other"}]
    /\ base \in [Attrs -> Mapping]
    /\ layer \in Seq(Layer)
    /\ ctx \in [Tasks -> Seq(Nat)] /\ copied \in [Tasks -> Seq(Nat)]
    /\ blocks \subseteq Block
    /\ live \subseteq Tasks /\ flushing \subseteq live /\ ended \subseteq Tasks /\ users \subseteq Tests
    /\ puts \in Nat

(* The layers that are in k's context, or will be again.                   *)
Held(k) == {i \in Nat : \/ i \in ToSet(ctx[k])
                        \/ \E b \in blocks : b.by = k /\ (i = b.layer \/ i \in ToSet(b.before))}

(* They are layers, and no test holds another's.                           *)
Made  == \A k \in Tasks : Held(k) \subseteq 1..Len(layer)
Apart == \A j, k \in Tasks : TestOf[j] # TestOf[k] => Held(j) \cap Held(k) = {}

(* A task has no block before it runs; the proxies stand while there is    *)
(* anything in the contexts that run, or a block that may put it there.    *)
Lives ==
    /\ live \cap ended = {}
    /\ \A k \in Tasks \ (live \cup ended) : ctx[k] = <<>> /\ \A b \in blocks : b.by # k
    /\ (blocks # {} \/ \E k \in live : ctx[k] # <<>>) => \A a \in Attrs : at[a] # "own"

(* What a block puts back is older than it; and a task still holds all that *)
(* the blocks of its own put back, the inner ones no less than the outer.  *)
Nested ==
    /\ \A b \in blocks : ToSet(b.before) \subseteq 1..(b.layer - 1)
    /\ \A k \in live : \A b \in Own(k) :
          /\ ToSet(b.before) \subseteq ToSet(ctx[k])
          /\ \A d \in Own(k) : d.layer <= b.layer => ToSet(d.before) \subseteq ToSet(b.before)

IInv == TypeOK /\ Made /\ Apart /\ Lives /\ Nested

-----------------------------------------------------------------------------
(* Contexts and mappings.                                                  *)

(* What a context holds once a layer is pushed on it.                      *)
LEMMA Pushing ==
    ASSUME NEW s \in Seq(Nat), NEW i \in Nat
    PROVE  /\ Append(s, i) \in Seq(Nat)
           /\ ToSet(Append(s, i)) = ToSet(s) \cup {i}
           /\ Append(s, i) # <<>>
<1>1. /\ Append(s, i) \in Seq(Nat) /\ Append(s, i) # <<>>
      /\ Len(Append(s, i)) = Len(s) + 1
      /\ \A j \in 1..Len(s) : Append(s, i)[j] = s[j]
      /\ Append(s, i)[Len(s) + 1] = i
  BY AppendProperties
<1>2. Len(s) \in Nat /\ DOMAIN s = 1..Len(s)  BY LenProperties
<1>3. DOMAIN Append(s, i) = 1..(Len(s) + 1)  BY <1>1, LenProperties
<1>4. ToSet(s) = {s[j] : j \in 1..Len(s)}  BY <1>2 DEF ToSet
<1>5. ToSet(Append(s, i)) = {Append(s, i)[j] : j \in 1..(Len(s) + 1)}  BY <1>3 DEF ToSet
<1>6. 1..(Len(s) + 1) = 1..Len(s) \cup {Len(s) + 1}  BY <1>2
<1>7. ToSet(Append(s, i)) \subseteq ToSet(s) \cup {i}  BY <1>1, <1>4, <1>5, <1>6
<1>8. ToSet(s) \cup {i} \subseteq ToSet(Append(s, i))  BY <1>1, <1>4, <1>5, <1>6
<1> QED BY <1>1, <1>7, <1>8

(* The empty context, and the innermost layer of any other.                *)
LEMMA Contexts ==
    /\ ToSet(<<>>) = {}
    /\ \A s \in Seq(Nat) : ToSet(s) \subseteq Nat /\ (s # <<>> => Last(s) \in ToSet(s))
<1>1. ToSet(<<>>) = {}
  <2>1. DOMAIN <<>> = {}  BY EmptySeq, LenProperties
  <2> QED BY <2>1 DEF ToSet
<1>2. ASSUME NEW s \in Seq(Nat) PROVE ToSet(s) \subseteq Nat /\ (s # <<>> => Last(s) \in ToSet(s))
  <2>1. DOMAIN s = 1..Len(s) /\ Len(s) \in Nat /\ s \in [1..Len(s) -> Nat]  BY LenProperties
  <2>2. s # <<>> => Len(s) \in 1..Len(s)  BY <2>1, EmptySeq
  <2> QED BY <2>1, <2>2 DEF ToSet, Last
<1> QED BY <1>1, <1>2

(* A mapping stays one.                                                    *)
LEMMA Mappings ==
    /\ Blank \in Mapping
    /\ \A f \in Mapping, v \in Values : \A names : With(f, names, v) \in Mapping
BY DEF Blank, With, Mapping, Values

(* What a task holds, it holds or a block of its own does.                 *)
LEMMA Holding ==
    ASSUME TypeOK, Made, NEW k \in Tasks
    PROVE  /\ ToSet(ctx[k]) \subseteq Held(k) /\ Held(k) \subseteq 1..Len(layer)
           /\ \A b \in blocks : b.by = k => /\ ToSet(b.before) \cup {b.layer} \subseteq Held(k)
                                            /\ b \in Block
           /\ Len(layer) \in Nat
<1>1. ctx[k] \in Seq(Nat)  BY DEF TypeOK
<1>2. ToSet(ctx[k]) \subseteq Held(k)  BY <1>1, Contexts DEF Held
<1>3. ASSUME NEW b \in blocks, b.by = k
      PROVE  ToSet(b.before) \cup {b.layer} \subseteq Held(k) /\ b \in Block
  <2>1. b \in Block  BY DEF TypeOK
  <2>2. b.before \in Seq(Nat) /\ b.layer \in Nat  BY <2>1 DEF Block
  <2>3. ToSet(b.before) \subseteq Nat  BY <2>2, Contexts
  <2> QED BY <1>3, <2>1, <2>2, <2>3 DEF Held
<1>4. Len(layer) \in Nat  BY LenProperties DEF TypeOK
<1> QED BY <1>2, <1>3, <1>4 DEF Made

(* A write lands in the task's innermost layer, if it has one and the      *)
(* proxy stands, and in the app's own object, or nowhere.                  *)
LEMMA Putting ==
    ASSUME TypeOK, Made, NEW k \in Tasks, NEW a \in Attrs, NEW names, NEW v \in Values,
           Put(k, a, names, v)
    PROVE  /\ layer' \in Seq(Layer) /\ Len(layer') = Len(layer)
           /\ base' \in [Attrs -> Mapping]
           /\ Layered(k, a) => base' = base
           /\ \A i \in 1..Len(layer) : Layered(k, a) /\ i # Top(k) => layer'[i] = layer[i]
<1>1. base' \in [Attrs -> Mapping]
  <2>1. With(base[a], names, v) \in Mapping  BY Mappings DEF TypeOK
  <2> QED BY <2>1 DEF Put, TypeOK
<1>2. CASE ~Layered(k, a)
  BY <1>1, <1>2 DEF Put, TypeOK
<1>3. CASE Layered(k, a)
  <2>1. Top(k) \in 1..Len(layer)
    <3>1. ctx[k] \in Seq(Nat) /\ ctx[k] # <<>>  BY <1>3 DEF TypeOK, Layered
    <3> QED BY <3>1, Contexts, Holding DEF Top
  <2>2. layer[Top(k)] \in Layer  BY <2>1, ElementOfSeq DEF TypeOK
  <2> DEFINE m == With(layer[Top(k)][a], names, v)
  <2>3. m \in Mapping  BY <2>2, Mappings DEF Layer
  <2> DEFINE l == [layer[Top(k)] EXCEPT ![a] = m]
  <2>4. l \in Layer  BY <2>2, <2>3 DEF Layer
  <2>5. layer' = [layer EXCEPT ![Top(k)] = l]  BY <1>3 DEF Put
  <2>6. layer \in Seq(Layer)  BY DEF TypeOK
  <2> HIDE DEF l
  <2>7. /\ layer' \in Seq(Layer) /\ Len(layer') = Len(layer)
        /\ \A i \in 1..Len(layer) : layer'[i] = IF i = Top(k) THEN l ELSE layer[i]
    BY <2>1, <2>4, <2>5, <2>6, ExceptSeq
  <2>8. base' = base  BY <1>3 DEF Put
  <2> QED BY <1>1, <2>7, <2>8
<1> QED BY <1>2, <1>3

-----------------------------------------------------------------------------
(* The steps.                                                              *)

(* What a task may hold without a new layer it or another held already.    *)
LEMMA StillApart ==
    ASSUME Made, Apart, Len(layer) \in Nat, Len(layer') \in Nat, Len(layer) <= Len(layer'),
           \A k \in Tasks : \E j \in Tasks : TestOf[j] = TestOf[k] /\ Held(k)' \subseteq Held(j) \cup Held(k)
    PROVE  Made' /\ Apart'
<1>1. Made'
  <2> SUFFICES ASSUME NEW k \in Tasks PROVE Held(k)' \subseteq 1..Len(layer')  BY DEF Made
  <2>1. PICK j \in Tasks : Held(k)' \subseteq Held(j) \cup Held(k)  OBVIOUS
  <2>2. Held(j) \cup Held(k) \subseteq 1..Len(layer)  BY DEF Made
  <2> QED BY <2>1, <2>2
<1>2. Apart'
  <2> SUFFICES ASSUME NEW j \in Tasks, NEW k \in Tasks, TestOf[j] # TestOf[k]
               PROVE  Held(j)' \cap Held(k)' = {}
    BY DEF Apart
  <2>1. PICK x \in Tasks : TestOf[x] = TestOf[j] /\ Held(j)' \subseteq Held(x) \cup Held(j)  OBVIOUS
  <2>2. PICK y \in Tasks : TestOf[y] = TestOf[k] /\ Held(k)' \subseteq Held(y) \cup Held(k)  OBVIOUS
  <2>3. /\ Held(x) \cap Held(y) = {} /\ Held(x) \cap Held(k) = {}
        /\ Held(j) \cap Held(y) = {} /\ Held(j) \cap Held(k) = {}
    BY <2>1, <2>2 DEF Apart
  <2> QED BY <2>1, <2>2, <2>3
<1> QED BY <1>1, <1>2

(* A step that moves no task and opens no block keeps the invariant, so    *)
(* long as it takes no proxy away under a context that runs.               *)
LEMMA Assigning ==
    ASSUME IInv, TypeOK', UNCHANGED <<ctx, copied, blocks, live, ended>>,
           Len(layer) <= Len(layer'),
           \/ \A a \in Attrs : at'[a] = "own" => at[a] = "own"
           \/ live = {} /\ blocks = {}
    PROVE  IInv'
<1>1. \A k \in Tasks : Held(k)' = Held(k)  BY DEF Held
<1>2. Len(layer) \in Nat /\ Len(layer') \in Nat
  <2>1. layer \in Seq(Layer) /\ layer' \in Seq(Layer)  BY DEF IInv, TypeOK
  <2> QED BY <2>1, LenProperties
<1>3. Made' /\ Apart'  BY <1>1, <1>2, StillApart DEF IInv
<1>4. Lives'  BY DEF IInv, Lives
<1>5. Nested'  BY DEF IInv, Nested, Own
<1> QED BY <1>3, <1>4, <1>5 DEF IInv

(* A write, deletion or clearing.                                          *)
LEMMA PutsKeeps ==
    ASSUME IInv, NEW k \in Tasks, NEW a \in Attrs, NEW names, NEW v \in Values, Puts(k, a, names, v)
    PROVE  IInv'
<1>1. /\ layer' \in Seq(Layer) /\ Len(layer') = Len(layer) /\ base' \in [Attrs -> Mapping]
  BY Putting DEF IInv, Puts
<1>2. Len(layer) \in Nat  BY LenProperties DEF IInv, TypeOK
<1>3. TypeOK'  BY <1>1 DEF IInv, TypeOK, Puts
<1> QED BY <1>1, <1>2, <1>3, Assigning DEF Puts

(* What the app's startup writes.                                          *)
LEMMA StartupKeeps == ASSUME IInv, NEW k \in Tasks, Startup(k) PROVE IInv'
<1>1. layer' \in Seq(Layer) /\ Len(layer') = Len(layer) /\ base' \in [Attrs -> Mapping]
  <2>1. CASE users = {}
    <3>1. "state" \in Attrs /\ "app" \in Values  BY DEF Attrs, Values
    <3> QED BY <2>1, <3>1, Putting DEF IInv, Startup
  <2>2. CASE users # {}  BY <2>2 DEF IInv, TypeOK, Startup
  <2> QED BY <2>1, <2>2
<1>2. Len(layer) \in Nat  BY LenProperties DEF IInv, TypeOK
<1>3. TestOf[k] \in Tests  BY OverridesAssumption
<1>4. TypeOK'  BY <1>1, <1>3 DEF IInv, TypeOK, Startup
<1> QED BY <1>1, <1>2, <1>4, Assigning DEF Startup

(* An assignment over an attribute takes its proxy away, and puts no own   *)
(* object back.                                                            *)
LEMMA ReplaceKeeps == ASSUME IInv, NEW k \in Tasks, NEW a \in Attrs, Replace(k, a) PROVE IInv'
<1>1. TypeOK'  BY DEF IInv, TypeOK, Replace
<1>2. Len(layer) \in Nat  BY LenProperties DEF IInv, TypeOK
<1>3. \A c \in Attrs : at'[c] = "own" => at[c] = "own"  BY DEF IInv, TypeOK, Replace
<1>4. Len(layer) <= Len(layer')  BY <1>2 DEF Replace
<1> QED BY <1>1, <1>3, <1>4, Assigning DEF Replace

(* The proxies go when nothing runs and no block is open.                  *)
LEMMA UninstallKeeps == ASSUME IInv, Uninstall PROVE IInv'
<1>1. TypeOK'  BY DEF IInv, TypeOK, Uninstall
<1>2. Len(layer) \in Nat  BY LenProperties DEF IInv, TypeOK
<1>3. Len(layer) <= Len(layer')  BY <1>2 DEF Uninstall
<1> QED BY <1>1, <1>3, Assigning DEF Uninstall

(* What a block is given is a layer.                                       *)
LEMMA Givens == ASSUME TypeOK, NEW k \in Tasks PROVE Given(k) \subseteq Layer
<1>1. TestOf[k] \in Values  BY OverridesAssumption DEF Values
<1>2. [a \in Attrs |-> Blank] \in Layer  BY Mappings DEF Layer
<1>3. \A n \in Keys : [a \in Attrs |-> With(Blank, {n}, TestOf[k])] \in Layer
  BY <1>1, Mappings DEF Layer
<1> QED BY <1>2, <1>3 DEF Given

(* What was pushed for a block that does not open is nobody's.             *)
LEMMA EnterRaisesKeeps ==
    ASSUME IInv, NEW k \in Tasks, NEW given \in Layer, EnterRaises(k, given)
    PROVE  IInv'
<1>1. layer' \in Seq(Layer) /\ Len(layer') = Len(layer) + 1 /\ Len(layer) \in Nat
  BY AppendProperties, LenProperties DEF IInv, TypeOK, EnterRaises
<1>2. TypeOK'  BY <1>1 DEF IInv, TypeOK, EnterRaises, Attrs
<1>3. \A c \in Attrs : at'[c] = "own" => at[c] = "own"  BY DEF IInv, TypeOK, EnterRaises
<1> QED BY <1>1, <1>2, <1>3, Assigning DEF EnterRaises

(* A task that ends leaves nothing that runs with anything more.           *)
LEMMA EndKeeps == ASSUME IInv, NEW k \in Tasks, End(k) PROVE IInv'
<1>1. TypeOK'  BY DEF IInv, TypeOK, End, app
<1>2. \A j \in Tasks : Held(j)' = Held(j)  BY DEF Held, End
<1>3. Made' /\ Apart'
  BY <1>2 DEF IInv, Made, Apart, End
<1>4. Lives'  BY DEF IInv, Lives, End, app
<1>5. Nested'  BY DEF IInv, Nested, Own, End
<1> QED BY <1>1, <1>3, <1>4, <1>5 DEF IInv

(* A task that another creates starts with its layers.                     *)
LEMMA BeginKeeps == ASSUME IInv, NEW k \in Tasks, Begin(k) PROVE IInv'
<1>1. k \notin live \cup ended /\ ctx[k] = <<>> /\ \A b \in blocks : b.by # k
  BY DEF IInv, Lives, Begin
<1>2. PICK m \in Tasks : /\ TestOf[m] = TestOf[k]
                         /\ m = k \/ (m \in live /\ copied' = [copied EXCEPT ![k] = ctx[m]])
                         /\ ctx' = [ctx EXCEPT ![k] = ctx[m]]
  <2>1. CASE k \in Mains /\ UNCHANGED <<ctx, copied>>
    <3>1. ctx' = [ctx EXCEPT ![k] = ctx[k]]  BY <2>1 DEF IInv, TypeOK
    <3> QED BY <3>1
  <2>2. CASE k \notin Mains
    BY <2>2, OverridesAssumption DEF Begin
  <2> QED BY <2>1, <2>2 DEF Begin
<1>3. UNCHANGED <<at, base, layer, blocks, ended, flushing, users, puts>> /\ live' = live \cup {k}
  BY DEF Begin, app
<1>4. ctx \in [Tasks -> Seq(Nat)] /\ copied \in [Tasks -> Seq(Nat)]  BY DEF IInv, TypeOK
<1>5. ctx' \in [Tasks -> Seq(Nat)] /\ ctx'[k] = ctx[m] /\ \A j \in Tasks : j # k => ctx'[j] = ctx[j]
  BY <1>2, <1>4
<1>6. copied' \in [Tasks -> Seq(Nat)] /\ \A j \in Tasks : j # k => copied'[j] = copied[j]
  BY <1>4, OverridesAssumption DEF Begin
<1>7. TypeOK'  BY <1>3, <1>5, <1>6 DEF IInv, TypeOK
<1>8. Made' /\ Apart'
  <2>1. \A j \in Tasks \ {k} : Held(j)' = Held(j)  BY <1>3, <1>5 DEF Held
  <2>2. Held(k)' \subseteq Held(m)  BY <1>1, <1>3, <1>5 DEF Held
  <2>3. Len(layer) \in Nat /\ layer' = layer  BY <1>3, LenProperties DEF IInv, TypeOK
  <2>4. \A j \in Tasks : \E i \in Tasks :
            TestOf[i] = TestOf[j] /\ Held(j)' \subseteq Held(i) \cup Held(j)
    BY <1>2, <2>1, <2>2
  <2> QED BY <2>3, <2>4, StillApart DEF IInv
<1>9. Lives'
  <2>1. ASSUME blocks # {} \/ \E j \in live \cup {k} : ctx'[j] # <<>> PROVE \A a \in Attrs : at[a] # "own"
    <3>1. blocks # {} \/ \E j \in live : ctx[j] # <<>>  BY <1>1, <1>2, <1>5, <2>1
    <3> QED BY <3>1 DEF IInv, Lives
  <2> QED BY <1>1, <1>3, <1>5, <2>1 DEF IInv, Lives
<1>10. Nested'
  <2>1. \A b \in blocks : ToSet(b.before) \subseteq 1..(b.layer - 1)  BY DEF IInv, Nested
  <2>2. Own(k)' = {}  BY <1>1, <1>3 DEF Own
  <2>3. ASSUME NEW j \in live, NEW b \in Own(j)'
        PROVE  /\ ToSet(b.before) \subseteq ToSet(ctx'[j])
               /\ \A d \in Own(j)' : d.layer <= b.layer => ToSet(d.before) \subseteq ToSet(b.before)
    <3>1. j # k /\ j \in Tasks  BY <1>1 DEF IInv, TypeOK
    <3>2. Own(j)' = Own(j) /\ ctx'[j] = ctx[j]  BY <1>3, <1>5, <3>1 DEF Own
    <3> QED BY <2>3, <3>2 DEF IInv, Nested
  <2> QED BY <1>3, <2>1, <2>2, <2>3 DEF Nested
<1> QED BY <1>7, <1>8, <1>9, <1>10 DEF IInv

(* A block that opens pushes a layer nobody held.                          *)
LEMMA EnterKeeps ==
    ASSUME IInv, NEW k \in live, NEW given \in Layer, NEW shared \in BOOLEAN, Enter(k, given, shared)
    PROVE  IInv'
<1> DEFINE i == Len(layer) + 1
           n == [by |-> k, before |-> ctx[k], layer |-> i, shared |-> shared]
<1>1. k \in Tasks /\ ctx \in [Tasks -> Seq(Nat)] /\ ctx[k] \in Seq(Nat) /\ Len(layer) \in Nat
  BY LenProperties DEF IInv, TypeOK
<1>2. i \in Nat /\ n \in Block  BY <1>1 DEF Block
<1>3. /\ layer' \in Seq(Layer) /\ Len(layer') = i
      /\ blocks' = blocks \cup {n} /\ UNCHANGED <<base, copied, live, ended, flushing, users, puts>>
      /\ at' = Installed /\ \A a \in Attrs : at[a] # "other"
  BY AppendProperties DEF IInv, TypeOK, Enter
<1>4. /\ ctx' \in [Tasks -> Seq(Nat)] /\ \A j \in Tasks : j # k => ctx'[j] = ctx[j]
      /\ ToSet(ctx'[k]) = ToSet(ctx[k]) \cup {i} /\ ctx'[k] # <<>>
  <2>1. ctx' = [ctx EXCEPT ![k] = Append(ctx[k], i)]  BY DEF Enter, Pushed
  <2> QED BY <1>1, <1>2, <2>1, Pushing
<1>5. n.by = k /\ n.before = ctx[k] /\ n.layer = i  OBVIOUS
<1> HIDE DEF n
<1>6. at' \in [Attrs -> {"own", "proxy", "other"}] /\ \A a \in Attrs : at'[a] = "proxy"
  BY <1>3 DEF IInv, TypeOK, Installed
<1>7. TypeOK'  BY <1>2, <1>3, <1>4, <1>6 DEF IInv, TypeOK
<1>8. /\ \A j \in Tasks \ {k} : Held(j)' = Held(j)
      /\ Held(k)' \subseteq Held(k) \cup {i}
  <2>1. \A j \in Tasks \ {k} : Held(j)' = Held(j)  BY <1>3, <1>4, <1>5 DEF Held
  <2>2. Held(k)' \subseteq Held(k) \cup {i}  BY <1>3, <1>4, <1>5 DEF Held
  <2> QED BY <2>1, <2>2
<1>9. Made'  BY <1>1, <1>3, <1>8 DEF IInv, Made
<1>10. Apart'
  <2>1. \A j \in Tasks : i \notin Held(j)  BY <1>1 DEF IInv, Made
  <2> QED BY <1>8, <2>1 DEF IInv, Apart
<1>11. Lives'  BY <1>3, <1>4, <1>5, <1>6 DEF IInv, Lives
<1>12. Nested'
  <2>1. ToSet(n.before) \subseteq 1..(n.layer - 1)
    <3>1. ToSet(ctx[k]) \subseteq 1..Len(layer)  BY <1>1, Holding DEF IInv
    <3> QED BY <1>1, <1>5, <3>1
  <2>2. \A b \in blocks' : ToSet(b.before) \subseteq 1..(b.layer - 1)
    BY <1>3, <2>1 DEF IInv, Nested
  <2>3. ASSUME NEW j \in live, NEW b \in Own(j)'
        PROVE  /\ ToSet(b.before) \subseteq ToSet(ctx'[j])
               /\ \A d \in Own(j)' : d.layer <= b.layer => ToSet(d.before) \subseteq ToSet(b.before)
    <3>1. j \in Tasks /\ ToSet(ctx[j]) \subseteq ToSet(ctx'[j])  BY <1>4 DEF IInv, TypeOK
    <3>2. \A d \in Own(j)' : d \in Own(j) \/ (d = n /\ j = k)  BY <1>3, <1>5 DEF Own
    <3>3. CASE b = n /\ j = k
      <4>1. \A d \in Own(k) : ToSet(d.before) \subseteq ToSet(ctx[k])  BY DEF IInv, Nested
      <4> QED BY <1>5, <3>1, <3>2, <3>3, <4>1
    <3>4. CASE b \in Own(j)
      <4>1. b \in blocks /\ b.by = j  BY <3>4 DEF Own
      <4>2. b.layer \in 1..Len(layer)  BY <3>1, <4>1, Holding DEF IInv
      <4>3. ~(n.layer <= b.layer)  BY <1>1, <1>5, <4>2
      <4>4. /\ ToSet(b.before) \subseteq ToSet(ctx[j])
            /\ \A d \in Own(j) : d.layer <= b.layer => ToSet(d.before) \subseteq ToSet(b.before)
        BY <3>4 DEF IInv, Nested
      <4> QED BY <3>1, <3>2, <4>3, <4>4
    <3> QED BY <3>2, <3>3, <3>4
  <2> QED BY <1>3, <2>2, <2>3 DEF Nested
<1> QED BY <1>7, <1>9, <1>10, <1>11, <1>12 DEF IInv

(* Leaving the innermost block of its own, a task still holds what the     *)
(* others of its own put back.                                             *)
LEMMA ExitKeeps == ASSUME IInv, NEW k \in live, Exit(k) PROVE IInv'
<1>0. live \subseteq Tasks  BY DEF IInv, TypeOK
<1>1. PICK b \in Own(k) : /\ \A c \in Own(k) : c.layer <= b.layer
                          /\ ctx' = [ctx EXCEPT ![k] = b.before]
                          /\ blocks' = blocks \ {b}
  BY DEF Exit
<1>2. UNCHANGED <<at, base, layer, copied, live, ended, flushing, users, puts>>  BY DEF Exit, app
<1>3. /\ k \in Tasks /\ b \in blocks /\ b.by = k /\ ~b.shared /\ b \in Block
      /\ b.before \in Seq(Nat) /\ b.layer \in Nat /\ ctx \in [Tasks -> Seq(Nat)]
  BY <1>1 DEF Own, IInv, TypeOK, Block
<1>4. ctx' \in [Tasks -> Seq(Nat)] /\ ctx'[k] = b.before /\ \A j \in Tasks : j # k => ctx'[j] = ctx[j]
  BY <1>1, <1>3
<1>5. TypeOK'  BY <1>1, <1>2, <1>4 DEF IInv, TypeOK
<1>6. Made' /\ Apart'
  <2>1. \A j \in Tasks : Held(j)' \subseteq Held(j)  BY <1>1, <1>3, <1>4 DEF Held
  <2> QED BY <1>2, <2>1 DEF IInv, Made, Apart
<1>7. Lives'
  <2>1. \A a \in Attrs : at[a] # "own"  BY <1>3 DEF IInv, Lives
  <2>2. k \in live  OBVIOUS
  <2> QED BY <1>1, <1>2, <1>4, <2>1, <2>2 DEF IInv, Lives
<1>8. Nested'
  <2>1. \A c \in blocks' : ToSet(c.before) \subseteq 1..(c.layer - 1)  BY <1>1 DEF IInv, Nested
  <2>2. ASSUME NEW j \in live, NEW c \in Own(j)'
        PROVE  /\ ToSet(c.before) \subseteq ToSet(ctx'[j])
               /\ \A d \in Own(j)' : d.layer <= c.layer => ToSet(d.before) \subseteq ToSet(c.before)
    <3>1. Own(j)' \subseteq Own(j)  BY <1>1 DEF Own
    <3>2. /\ ToSet(c.before) \subseteq ToSet(ctx[j])
          /\ \A d \in Own(j) : d.layer <= c.layer => ToSet(d.before) \subseteq ToSet(c.before)
      BY <2>2, <3>1 DEF IInv, Nested
    <3>3. ToSet(c.before) \subseteq ToSet(ctx'[j])
      <4>1. CASE j = k
        <5>1. c \in Own(k) /\ c.layer <= b.layer  BY <1>1, <2>2, <3>1, <4>1
        <5>2. ToSet(c.before) \subseteq ToSet(b.before)  BY <1>1, <5>1 DEF IInv, Nested
        <5> QED BY <1>4, <4>1, <5>2
      <4>2. CASE j # k  BY <1>0, <1>4, <3>2, <4>2
      <4> QED BY <4>1, <4>2
    <3> QED BY <3>1, <3>2, <3>3
  <2> QED BY <1>2, <2>1, <2>2 DEF Nested
<1> QED BY <1>5, <1>6, <1>7, <1>8 DEF IInv

(* A fixture is closed by a task with no block of its own, that entered it *)
(* or comes after the one that did.                                        *)
LEMMA ExitSharedKeeps == ASSUME IInv, NEW k \in Mains \cup {Run}, ExitShared(k) PROVE IInv'
<1>1. PICK b \in blocks : /\ b.shared /\ (b.by = k \/ b.by \in ended)
                          /\ (k \in live /\ Own(k) = {}) \/ (k = Run /\ live = {})
                          /\ blocks' = blocks \ {b}
                          /\ ctx' = IF b.by = k THEN [ctx EXCEPT ![k] = b.before] ELSE ctx
  BY DEF ExitShared
<1>2. /\ UNCHANGED <<at, base, layer, copied, live, ended, users, puts>>
      /\ flushing' = flushing \cup ({k} \cap Tasks)
  BY DEF ExitShared, app
<1>3. b \in Block /\ b.by \in Tasks /\ b.before \in Seq(Nat) /\ ctx \in [Tasks -> Seq(Nat)]
  BY DEF IInv, TypeOK, Block
<1>4. /\ ctx' \in [Tasks -> Seq(Nat)]
      /\ \A j \in Tasks : ctx'[j] = IF j = k /\ b.by = k THEN b.before ELSE ctx[j]
  BY <1>1, <1>3
<1>5. TypeOK'
  <2>1. flushing' \subseteq live  BY <1>1, <1>2, OverridesAssumption DEF IInv, TypeOK
  <2> QED BY <1>1, <1>2, <1>4, <2>1 DEF IInv, TypeOK
<1>6. Made' /\ Apart'
  <2>1. \A j \in Tasks : Held(j)' \subseteq Held(j)  BY <1>1, <1>3, <1>4 DEF Held
  <2> QED BY <1>2, <2>1 DEF IInv, Made, Apart
<1>7. Lives'
  <2>1. \A j \in Tasks \ (live \cup ended) : ctx'[j] = <<>> /\ \A c \in blocks' : c.by # j
    BY <1>1, <1>4 DEF IInv, Lives
  <2>2. \A a \in Attrs : at[a] # "own"  BY DEF IInv, Lives
  <2> QED BY <1>2, <2>1, <2>2 DEF IInv, Lives
<1>8. Nested'
  <2>1. \A c \in blocks' : ToSet(c.before) \subseteq 1..(c.layer - 1)  BY <1>1 DEF IInv, Nested
  <2>2. ASSUME NEW j \in live, NEW c \in Own(j)'
        PROVE  /\ ToSet(c.before) \subseteq ToSet(ctx'[j])
               /\ \A d \in Own(j)' : d.layer <= c.layer => ToSet(d.before) \subseteq ToSet(c.before)
    <3>1. Own(j)' \subseteq Own(j)  BY <1>1 DEF Own
    <3>2. j # k /\ j \in Tasks
      <4>1. c \in Own(j)  BY <2>2, <3>1
      <4> QED BY <1>1, <4>1 DEF IInv, TypeOK
    <3>3. ctx'[j] = ctx[j]  BY <1>4, <3>2
    <3> QED BY <2>2, <3>1, <3>3 DEF IInv, Nested
  <2> QED BY <1>2, <2>1, <2>2 DEF Nested
<1> QED BY <1>5, <1>6, <1>7, <1>8 DEF IInv

-----------------------------------------------------------------------------
(* The invariant.                                                          *)

(* No task, no layer, and the app's own objects.                           *)
LEMMA InitIInv == Init => IInv
<1> SUFFICES ASSUME Init PROVE IInv  OBVIOUS
<1>1. PICK m \in Keys : base = [a \in Attrs |-> With(Blank, {m}, "app")]  BY DEF Init
<1>2. base \in [Attrs -> Mapping]
  <2>1. With(Blank, {m}, "app") \in Mapping  BY Mappings DEF Values
  <2> QED BY <1>1, <2>1
<1>3. /\ layer \in Seq(Layer) /\ Len(layer) = 0
      /\ ctx \in [Tasks -> Seq(Nat)] /\ copied \in [Tasks -> Seq(Nat)]
  BY EmptySeq DEF Init
<1>4. TypeOK  BY <1>2, <1>3 DEF Init, TypeOK
<1>5. \A k \in Tasks : ctx[k] = <<>> /\ Held(k) = {}  BY Contexts DEF Init, Held
<1>6. Made /\ Apart /\ Lives /\ Nested  BY <1>5, Contexts DEF Init, Made, Apart, Lives, Nested
<1> QED BY <1>4, <1>6 DEF IInv

(* Every step keeps the invariant.                                         *)
LEMMA NextStep == IInv /\ [Next]_vars => IInv'
<1> SUFFICES ASSUME IInv, [Next]_vars PROVE IInv'  OBVIOUS
<1>0. live \subseteq Tasks /\ Missing \in Values /\ \A k \in Tasks : TestOf[k] \in Values
  BY OverridesAssumption DEF IInv, TypeOK, Values
<1>1. CASE UNCHANGED vars
  <2>1. TypeOK'  BY <1>1 DEF IInv, TypeOK, vars
  <2>2. Len(layer) \in Nat  BY LenProperties DEF IInv, TypeOK
  <2>3. Len(layer) <= Len(layer')  BY <1>1, <2>2 DEF vars
  <2> QED BY <1>1, <2>1, <2>3, Assigning DEF vars
<1>2. ASSUME NEW k \in Tasks, Begin(k) \/ End(k) PROVE IInv'  BY <1>2, BeginKeeps, EndKeeps
<1>3. ASSUME NEW k \in live, NEW a \in Attrs, NEW n \in Keys, Write(k, a, n) \/ Delete(k, a, n)
      PROVE  IInv'
  BY <1>0, <1>3, PutsKeeps DEF Write, Delete
<1>4. ASSUME NEW k \in live, Clear(k) PROVE IInv'
  <2>1. "overrides" \in Attrs  BY DEF Attrs
  <2> QED BY <1>0, <1>4, <2>1, PutsKeeps DEF Clear
<1>5. ASSUME NEW k \in live, NEW a \in Attrs, Replace(k, a) PROVE IInv'
  BY <1>0, <1>5, ReplaceKeeps
<1>6. ASSUME NEW k \in live, NEW given \in Given(k), NEW shared \in BOOLEAN,
             Enter(k, given, shared) \/ EnterRaises(k, given)
      PROVE  IInv'
  BY <1>0, <1>6, Givens, EnterKeeps, EnterRaisesKeeps DEF IInv
<1>7. ASSUME NEW k \in live, Exit(k) \/ Startup(k) PROVE IInv'
  BY <1>0, <1>7, ExitKeeps, StartupKeeps
<1>8. ASSUME NEW k \in Mains \cup {Run}, ExitShared(k) PROVE IInv'  BY <1>8, ExitSharedKeeps
<1>9. CASE Uninstall  BY <1>9, UninstallKeeps
<1> QED BY <1>1, <1>2, <1>3, <1>4, <1>5, <1>6, <1>7, <1>8, <1>9 DEF Next

(* The whole of it holds throughout.                                       *)
THEOREM Invariance == Spec => []IInv
BY InitIInv, NextStep, PTL DEF Spec

(* What of k's context is left over where nothing of it changes.           *)
LEMMA SameLeft ==
    ASSUME NEW k \in Tasks, ctx'[k] = ctx[k], copied'[k] = copied[k],
           \A b : b.by = k => (b \in blocks' <=> b \in blocks)
    PROVE  Left(k)' = Left(k)
<1>1. Open(k)' = Open(k)  BY DEF Open
<1> QED BY <1>1 DEF Left

(* Whatever the step, a layer of a block that is over comes into a context *)
(* only by a shared block that was entered before the layer's was left.    *)
THEOREM LeavesNothing == Spec => NothingLeftBehind
<1> DEFINE Back(k) == UNION {ToSet(b.before) \ Open(k) :
                             b \in {b \in blocks \ blocks' : b.by = k /\ b.shared}}
           Behind == \A k \in live :
               LET shared == {b \in blocks \ blocks' : b.by = k /\ b.shared}
               IN  Left(k)' \subseteq Left(k) \cup UNION {ToSet(b.before) \ Open(k) : b \in shared}
<1>1. IInv /\ Next => Behind
  <2> SUFFICES ASSUME IInv, Next, NEW k \in live PROVE Left(k)' \subseteq Left(k) \cup Back(k)
    OBVIOUS
  <2>0. /\ k \in Tasks /\ k \notin ended /\ live \subseteq Tasks
        /\ ctx \in [Tasks -> Seq(Nat)] /\ copied \in [Tasks -> Seq(Nat)]
    BY DEF IInv, TypeOK, Lives
  <2> HIDE DEF Back
  <2>1. CASE UNCHANGED <<ctx, copied, blocks>>  BY <2>0, <2>1, SameLeft
  <2>2. ASSUME NEW m \in Tasks, Begin(m) PROVE Left(k)' = Left(k)
    <3>1. m # k /\ blocks' = blocks  BY <2>2 DEF Begin
    <3>2. ctx'[k] = ctx[k] /\ copied'[k] = copied[k]  BY <2>0, <2>2, <3>1 DEF Begin
    <3> QED BY <2>0, <3>1, <3>2, SameLeft
  <2>3. ASSUME NEW m \in live, NEW given, NEW shared, Enter(m, given, shared)
        PROVE  Left(k)' \subseteq Left(k)
    <3> DEFINE i == Len(layer) + 1
               n == [by |-> m, before |-> ctx[m], layer |-> i, shared |-> shared]
    <3>1. /\ ctx' = [ctx EXCEPT ![m] = Append(ctx[m], i)] /\ blocks' = blocks \cup {n}
          /\ copied' = copied
      BY <2>3 DEF Enter, Pushed
    <3>2. n.by = m /\ n.layer = i  OBVIOUS
    <3>3. i \in Nat  BY LenProperties DEF IInv, TypeOK
    <3> HIDE DEF n
    <3>4. CASE m = k
      <4>1. ToSet(ctx'[k]) = ToSet(ctx[k]) \cup {i}  BY <2>0, <3>1, <3>3, <3>4, Pushing
      <4>2. i \in Open(k)' /\ Open(k) \subseteq Open(k)'  BY <3>1, <3>2, <3>4 DEF Open
      <4> QED BY <3>1, <4>1, <4>2 DEF Left
    <3>5. CASE m # k  BY <2>0, <3>1, <3>2, <3>5, SameLeft
    <3> QED BY <3>4, <3>5
  <2>4. ASSUME NEW m \in live, Exit(m) PROVE Left(k)' \subseteq Left(k)
    <3>1. PICK b \in Own(m) : ctx' = [ctx EXCEPT ![m] = b.before] /\ blocks' = blocks \ {b}
      BY <2>4 DEF Exit
    <3>2. b \in blocks /\ b.by = m /\ copied' = copied  BY <2>4, <3>1 DEF Own, Exit
    <3>3. CASE m = k
      <4>1. ctx'[k] = b.before  BY <2>0, <3>1, <3>3
      <4>2. ToSet(b.before) \subseteq ToSet(ctx[k]) /\ b.layer \notin ToSet(b.before)
        <5>1. b.layer \in Nat  BY <3>2 DEF IInv, TypeOK, Block
        <5> QED BY <3>2, <3>3, <5>1 DEF IInv, Nested
      <4>3. Open(k) \subseteq Open(k)' \cup {b.layer}  BY <3>1 DEF Open
      <4> QED BY <3>2, <4>1, <4>2, <4>3 DEF Left
    <3>4. CASE m # k  BY <2>0, <3>1, <3>2, <3>4, SameLeft
    <3> QED BY <3>3, <3>4
  <2>5. ASSUME NEW m \in Mains \cup {Run}, ExitShared(m) PROVE Left(k)' \subseteq Left(k) \cup Back(k)
    <3>1. PICK b \in blocks : /\ b.shared /\ (b.by = m \/ b.by \in ended)
                              /\ blocks' = blocks \ {b}
                              /\ ctx' = IF b.by = m THEN [ctx EXCEPT ![m] = b.before] ELSE ctx
      BY <2>5 DEF ExitShared
    <3>2. copied' = copied  BY <2>5 DEF ExitShared
    <3>3. CASE b.by = k
      <4>1. ctx'[k] = b.before  BY <2>0, <3>1, <3>3
      <4>2. b.layer \notin ToSet(b.before)
        <5>1. b.layer \in Nat  BY DEF IInv, TypeOK, Block
        <5> QED BY <5>1 DEF IInv, Nested
      <4>3. Open(k) \subseteq Open(k)' \cup {b.layer}  BY <3>1 DEF Open
      <4>4. ToSet(b.before) \ Open(k) \subseteq Back(k)  BY <3>1, <3>3 DEF Back
      <4> QED BY <4>1, <4>2, <4>3, <4>4 DEF Left
    <3>4. CASE b.by # k
      <4>1. ctx'[k] = ctx[k]  BY <2>0, <3>1, <3>4
      <4> QED BY <2>0, <3>1, <3>2, <3>4, <4>1, SameLeft
    <3> QED BY <3>3, <3>4
  <2>6. ASSUME NEW m \in Tasks, End(m) \/ Clear(m) \/ Startup(m) PROVE UNCHANGED <<ctx, copied, blocks>>
    BY <2>6 DEF End, Clear, Puts, Startup
  <2>7. ASSUME NEW m \in Tasks, NEW a \in Attrs, NEW n \in Keys,
               Write(m, a, n) \/ Delete(m, a, n)
        PROVE  UNCHANGED <<ctx, copied, blocks>>
    BY <2>7 DEF Write, Delete, Puts
  <2>8. ASSUME NEW m \in Tasks, NEW a \in Attrs, Replace(m, a) PROVE UNCHANGED <<ctx, copied, blocks>>
    BY <2>8 DEF Replace
  <2>9. ASSUME NEW m \in Tasks, NEW given, EnterRaises(m, given) PROVE UNCHANGED <<ctx, copied, blocks>>
    BY <2>9 DEF EnterRaises
  <2>10. Uninstall => UNCHANGED <<ctx, copied, blocks>>  BY DEF Uninstall
  <2> QED BY <2>0, <2>1, <2>2, <2>3, <2>4, <2>5, <2>6, <2>7, <2>8, <2>9, <2>10 DEF Next
<1>2. IInv /\ [Next]_vars => [Behind]_vars  BY <1>1
<1> QED BY <1>2, Invariance, PTL DEF Spec, NothingLeftBehind

-----------------------------------------------------------------------------
(* What a task reads.                                                      *)

(* The innermost layer that has the name, as an index into the context,    *)
(* and what is read through a context.                                     *)
Innermost(c, l, a, n) == SelectLastInSeq(c, LAMBDA i : l[i][a][n] # Missing)

Read(c, l, held, a, n) ==
    IF Innermost(c, l, a, n) = 0 THEN held[a][n] ELSE l[c[Innermost(c, l, a, n)]][a][n]

(* Where the proxy stands, or no layer is pushed, this is what is read.    *)
LEMMA Reading ==
    ASSUME NEW k \in Tasks, NEW a \in Attrs, NEW n \in Names
    PROVE  /\ at[a] = "proxy" => View(k, a, n) = Read(ctx[k], layer, base, a, n)
           /\ at'[a] = "proxy" => View(k, a, n)' = Read(ctx'[k], layer', base', a, n)
<1>1. at[a] = "proxy" => View(k, a, n) = Read(ctx[k], layer, base, a, n)
  BY DEF View, Lookup, Found, Read, Innermost
<1>2. at'[a] = "proxy" => View(k, a, n)' = Read(ctx'[k], layer', base', a, n)
  <2>1. Found(k, a, n)' = Innermost(ctx'[k], layer', a, n)  BY DEF Found, Innermost, SelectLastInSeq
  <2> QED BY <2>1 DEF View, Lookup, Read
<1> QED BY <1>1, <1>2

(* x is the last index at which the context has the name, or 0.            *)
IsLastHit(x, c, l, a, n) ==
    \/ x = 0 /\ \A y \in 1..Len(c) : l[c[y]][a][n] = Missing
    \/ /\ x \in 1..Len(c) /\ l[c[x]][a][n] # Missing
       /\ \A y \in 1..Len(c) : l[c[y]][a][n] # Missing => y <= x

(* That is what the selection finds, and there is but one such.            *)
LEMMA LastHit ==
    ASSUME NEW c \in Seq(Nat), NEW l, NEW a, NEW n
    PROVE  /\ IsLastHit(Innermost(c, l, a, n), c, l, a, n)
           /\ \A x, y : IsLastHit(x, c, l, a, n) /\ IsLastHit(y, c, l, a, n) => x = y
<1> DEFINE Hits == {y \in 1..Len(c) : l[c[y]][a][n] # Missing}
<1>1. Innermost(c, l, a, n) = IF Hits # {} THEN Max(Hits) ELSE 0  BY DEF Innermost, SelectLastInSeq
<1>2. Len(c) \in Nat /\ Hits \in SUBSET (0..Len(c))  BY LenProperties
<1>3. \A y : y \in Hits <=> y \in 1..Len(c) /\ l[c[y]][a][n] # Missing  OBVIOUS
<1> HIDE DEF Hits
<1>4. Hits # {} => Max(Hits) \in Hits /\ \A y \in Hits : y <= Max(Hits)  BY <1>2, Greatest
<1>5. IsLastHit(Innermost(c, l, a, n), c, l, a, n)
  <2>1. CASE Hits = {}  BY <1>1, <1>3, <2>1 DEF IsLastHit
  <2>2. CASE Hits # {}  BY <1>1, <1>3, <1>4, <2>2 DEF IsLastHit
  <2> QED BY <2>1, <2>2
<1>6. ASSUME NEW x, NEW y, IsLastHit(x, c, l, a, n), IsLastHit(y, c, l, a, n) PROVE x = y
  BY <1>2, <1>6 DEF IsLastHit
<1> QED BY <1>5, <1>6

(* Layers that are not in a context do not count.                          *)
LEMMA SameReading ==
    ASSUME NEW c \in Seq(Nat), NEW l, NEW m, NEW held, NEW a, NEW n,
           \A i \in ToSet(c) : l[i][a][n] = m[i][a][n]
    PROVE  Read(c, l, held, a, n) = Read(c, m, held, a, n)
<1>1. DOMAIN c = 1..Len(c)  BY LenProperties
<1>2. \A x \in 1..Len(c) : c[x] \in ToSet(c)  BY <1>1 DEF ToSet
<1>3. {x \in 1..Len(c) : l[c[x]][a][n] # Missing} = {x \in 1..Len(c) : m[c[x]][a][n] # Missing}
  BY <1>2
<1>4. Innermost(c, l, a, n) = Innermost(c, m, a, n)  BY <1>3 DEF Innermost, SelectLastInSeq
<1>5. Innermost(c, l, a, n) = 0 \/ Innermost(c, l, a, n) \in 1..Len(c)  BY LastHit DEF IsLastHit
<1> QED BY <1>2, <1>4, <1>5 DEF Read

(* d is c with x pushed on it.                                             *)
Extends(d, c, x) == Len(d) = Len(c) + 1 /\ d[Len(c) + 1] = x /\ \A i \in 1..Len(c) : d[i] = c[i]

(* A layer that is pushed goes before all others.                          *)
LEMMA PushedReading ==
    ASSUME NEW c \in Seq(Nat), NEW l \in Seq(Layer), NEW g \in Layer, NEW d, NEW m,
           NEW held, NEW a, NEW n,
           ToSet(c) \subseteq 1..Len(l),
           Extends(d, c, Len(l) + 1), d \in Seq(Nat), Extends(m, l, g)
    PROVE  /\ g[a][n] # Missing => Read(d, m, held, a, n) = g[a][n]
           /\ g[a][n] = Missing => Read(d, m, held, a, n) = Read(c, l, held, a, n)
<1> DEFINE x == Innermost(c, l, a, n)
           y == Innermost(d, m, a, n)
<1>1. Len(c) \in Nat /\ Len(l) \in Nat  BY LenProperties
<1>2. /\ Len(d) = Len(c) + 1 /\ d[Len(c) + 1] = Len(l) + 1
      /\ \A i \in 1..Len(c) : d[i] = c[i]
  BY DEF Extends
<1>3. m[Len(l) + 1] = g /\ \A i \in 1..Len(l) : m[i] = l[i]  BY DEF Extends
<1>4. \A i \in 1..Len(c) : c[i] \in 1..Len(l)
  <2>1. DOMAIN c = 1..Len(c)  BY LenProperties
  <2> QED BY <2>1 DEF ToSet
<1>5. IsLastHit(x, c, l, a, n)  BY LastHit
<1>6. IsLastHit(y, d, m, a, n) /\ \A z : IsLastHit(z, d, m, a, n) => z = y  BY <1>2, LastHit
<1> HIDE DEF x, y
<1>7. CASE g[a][n] # Missing
  <2>1. IsLastHit(Len(c) + 1, d, m, a, n)  BY <1>1, <1>2, <1>3, <1>7 DEF IsLastHit
  <2>2. y = Len(c) + 1  BY <1>6, <2>1
  <2> QED BY <1>1, <1>2, <1>3, <1>7, <2>2 DEF Read, y
<1>8. CASE g[a][n] = Missing
  <2>1. IsLastHit(x, d, m, a, n)
    <3>1. \A i \in 1..Len(c) : m[d[i]] = l[c[i]]  BY <1>2, <1>3, <1>4
    <3>2. \A i \in 1..Len(d) : i = Len(c) + 1 \/ i \in 1..Len(c)  BY <1>1, <1>2
    <3>3. m[d[Len(c) + 1]][a][n] = Missing  BY <1>2, <1>3, <1>8
    <3>4. 1..Len(c) \subseteq 1..Len(d)  BY <1>1, <1>2
    <3> QED BY <1>5, <3>1, <3>2, <3>3, <3>4 DEF IsLastHit
  <2>2. x = y  BY <1>6, <2>1
  <2>3. x = 0 \/ x \in 1..Len(c)  BY <1>5 DEF IsLastHit
  <2>4. x # 0 => m[d[x]] = l[c[x]]  BY <1>2, <1>3, <1>4, <2>3
  <2> QED BY <1>8, <2>2, <2>4 DEF Read, x, y
<1> QED BY <1>7, <1>8

-----------------------------------------------------------------------------
(* The action properties.                                                  *)

(* A task of another test reads as before what only layers that it does    *)
(* not hold were touched for.                                              *)
LEMMA Untouched ==
    ASSUME IInv, NEW j \in Tasks, at = [a \in Attrs |-> "proxy"], at' = at,
           ctx'[j] = ctx[j], base' = base, \A i \in Held(j) : layer'[i] = layer[i],
           NEW a \in Attrs, NEW n \in Names
    PROVE  View(j, a, n)' = View(j, a, n)
<1>1. ctx[j] \in Seq(Nat) /\ ToSet(ctx[j]) \subseteq Held(j)  BY Holding DEF IInv, TypeOK
<1>2. Read(ctx[j], layer, base, a, n) = Read(ctx[j], layer', base, a, n)
  BY <1>1, SameReading
<1> QED BY <1>2, Reading

(* What a task inside a block does, no task of another test reads.         *)
THEOREM NoTestReadsAnothers == Spec => NoCrossTalk
<1> DEFINE Alone == \A k \in live :
        /\ ctx[k] # <<>> /\ at = [a \in Attrs |-> "proxy"] /\ at' = at
        /\ \/ \E a \in Attrs, n \in Keys : Write(k, a, n) \/ Delete(k, a, n)
           \/ Clear(k) \/ Exit(k) \/ ExitShared(k) \/ Startup(k)
           \/ \E given \in Given(k), shared \in BOOLEAN : Enter(k, given, shared)
        => \A j \in Tasks : TestOf[j] # TestOf[k] =>
              \A a \in Attrs, n \in Names : View(j, a, n)' = View(j, a, n)
<1>1. IInv => Alone
  <2> SUFFICES ASSUME IInv, NEW k \in live, NEW j \in Tasks, TestOf[j] # TestOf[k], ctx[k] # <<>>,
                      at = [a \in Attrs |-> "proxy"], at' = at,
                      \/ \E a \in Attrs, n \in Keys : Write(k, a, n) \/ Delete(k, a, n)
                      \/ Clear(k) \/ Exit(k) \/ ExitShared(k) \/ Startup(k)
                      \/ \E given \in Given(k), shared \in BOOLEAN : Enter(k, given, shared)
               PROVE  \A a \in Attrs, n \in Names : View(j, a, n)' = View(j, a, n)
    BY Zenon
  <2>1. /\ k \in Tasks /\ j # k /\ TestOf[k] \in Values /\ Missing \in Values
        /\ ctx \in [Tasks -> Seq(Nat)]
    BY OverridesAssumption DEF IInv, TypeOK, Values
  <2>2. Top(k) \in Held(k) /\ Held(k) \cap Held(j) = {} /\ Held(j) \subseteq 1..Len(layer)
    <3>1. Top(k) \in ToSet(ctx[k])  BY <2>1, Contexts DEF Top
    <3> QED BY <2>1, <3>1, Holding DEF IInv, Apart
  <2>3. ASSUME NEW a \in Attrs, NEW names, NEW v \in Values, Put(k, a, names, v)
        PROVE  base' = base /\ \A i \in Held(j) : layer'[i] = layer[i]
    <3>1. Layered(k, a)  BY DEF Layered
    <3> QED BY <2>1, <2>2, <2>3, <3>1, Putting DEF IInv
  <2>4. ASSUME NEW a \in Attrs, NEW names, NEW v \in Values, Puts(k, a, names, v)
        PROVE  ctx'[j] = ctx[j] /\ base' = base /\ \A i \in Held(j) : layer'[i] = layer[i]
    BY <2>3, <2>4 DEF Puts
  <2>5. CASE \E a \in Attrs, n \in Keys : Write(k, a, n) \/ Delete(k, a, n)
    BY <2>1, <2>4, <2>5, Untouched DEF Write, Delete
  <2>6. CASE Clear(k)
    <3>1. "overrides" \in Attrs  BY DEF Attrs
    <3> QED BY <2>1, <2>4, <2>6, <3>1, Untouched DEF Clear
  <2>7. CASE Exit(k)
    <3>1. ctx'[j] = ctx[j] /\ base' = base /\ layer' = layer  BY <2>1, <2>7 DEF Exit, app
    <3> QED BY <3>1, Untouched
  <2>8. CASE Startup(k)
    <3>1. "state" \in Attrs /\ "app" \in Values  BY DEF Attrs, Values
    <3>2. ctx'[j] = ctx[j] /\ base' = base /\ \A i \in Held(j) : layer'[i] = layer[i]
      BY <2>3, <2>8, <3>1 DEF Startup
    <3> QED BY <3>2, Untouched
  <2>9. CASE \E given \in Given(k), shared \in BOOLEAN : Enter(k, given, shared)
    <3>1. PICK given \in Given(k), shared \in BOOLEAN : Enter(k, given, shared)  BY <2>9
    <3>2. given \in Layer  BY <2>1, Givens DEF IInv
    <3>3. layer' = Append(layer, given) /\ base' = base /\ ctx'[j] = ctx[j]
      BY <2>1, <3>1 DEF Enter, Pushed
    <3>4. \A i \in Held(j) : layer'[i] = layer[i]
      BY <2>2, <3>2, <3>3, AppendProperties DEF IInv, TypeOK
    <3> QED BY <3>3, <3>4, Untouched
  <2>10. CASE ExitShared(k)
    <3>1. ctx'[j] = ctx[j] /\ base' = base /\ layer' = layer  BY <2>1, <2>10 DEF ExitShared, app
    <3> QED BY <3>1, Untouched
  <2> QED BY <2>5, <2>6, <2>7, <2>8, <2>9, <2>10
<1>2. IInv /\ [Next]_vars => [Alone]_vars  BY <1>1
<1> QED BY <1>2, Invariance, PTL DEF Spec, NoCrossTalk

(* Only entering opens a block.                                            *)
LEMMA OnlyEnterOpens ==
    ASSUME IInv, Next, NEW b \in blocks' \ blocks
    PROVE  \E k \in live, given \in Layer, shared \in BOOLEAN : Enter(k, given, shared)
<1>1. \A k \in live : Given(k) \subseteq Layer  BY Givens DEF IInv, TypeOK
<1>2. blocks' # blocks /\ ~(blocks' \subseteq blocks)  OBVIOUS
<1>3. ~Uninstall /\ \A k \in Mains \cup {Run} : ~ExitShared(k)  BY <1>2 DEF Uninstall, ExitShared
<1>4. \A k \in Tasks : ~Begin(k) /\ ~End(k) /\ ~Clear(k) /\ ~Exit(k) /\ ~Startup(k)
  BY <1>2 DEF Begin, End, Clear, Puts, Exit, Startup
<1>5. \A k \in Tasks, a \in Attrs : /\ ~Replace(k, a)
                                    /\ \A n \in Keys : ~Write(k, a, n) /\ ~Delete(k, a, n)
  BY <1>2 DEF Replace, Write, Delete, Puts
<1>6. \A k \in Tasks, given \in Layer : ~EnterRaises(k, given)  BY <1>2 DEF EnterRaises
<1>7. live \subseteq Tasks  BY DEF IInv, TypeOK
<1> QED BY <1>1, <1>3, <1>4, <1>5, <1>6, <1>7 DEF Next

(* A block that opens is in force in its task.                             *)
THEOREM BlocksAreInForce == Spec => OpensInForce
<1> DEFINE InForce == \A b \in blocks' \ blocks : \A a \in Attrs, n \in Names :
        LET given == layer'[b.layer][a][n]
        IN  View(b.by, a, n)' = IF given # Missing THEN given ELSE View(b.by, a, n)
<1>1. IInv /\ Next => InForce
  <2> SUFFICES ASSUME IInv, Next, NEW b \in blocks' \ blocks, NEW a \in Attrs, NEW n \in Names
               PROVE  View(b.by, a, n)' = IF layer'[b.layer][a][n] # Missing
                                          THEN layer'[b.layer][a][n] ELSE View(b.by, a, n)
    OBVIOUS
  <2>1. PICK k \in live, given \in Layer, shared \in BOOLEAN : Enter(k, given, shared)
    BY OnlyEnterOpens
  <2>2. /\ b.by = k /\ b.layer = Len(layer) + 1
        /\ layer' = Append(layer, given) /\ ctx' = [ctx EXCEPT ![k] = Append(ctx[k], Len(layer) + 1)]
        /\ base' = base /\ at' = Installed /\ at[a] # "other"
    BY <2>1 DEF Enter, Pushed
  <2>3. k \in Tasks /\ ctx \in [Tasks -> Seq(Nat)] /\ layer \in Seq(Layer)
        /\ at \in [Attrs -> {"own", "proxy", "other"}]
    BY DEF IInv, TypeOK
  <2>4. at'[a] = "proxy"  BY <2>2, <2>3 DEF Installed
  <2>5. View(k, a, n)' = Read(ctx'[k], layer', base, a, n)
    BY <2>2, <2>3, <2>4, Reading
  <2>6. View(k, a, n) = Read(ctx[k], layer, base, a, n)
    <3>1. CASE at[a] = "proxy"  BY <2>3, <3>1, Reading
    <3>2. CASE at[a] = "own"
      <4>1. ctx[k] = <<>>  BY <2>1, <3>2 DEF IInv, Lives
      <4>2. Innermost(ctx[k], layer, a, n) = 0
        <5>1. <<>> \in Seq(Nat) /\ Len(<<>>) = 0  BY EmptySeq
        <5>2. {y \in 1..Len(<<>>) : layer[<<>>[y]][a][n] # Missing} = {}  BY <5>1
        <5>3. Innermost(<<>>, layer, a, n) = 0  BY <5>2 DEF Innermost, SelectLastInSeq
        <5> QED BY <4>1, <5>3
      <4> QED BY <3>2, <4>2 DEF View, Read
    <3> QED BY <2>2, <2>3, <3>1, <3>2
  <2>7. layer'[b.layer] = given  BY <2>2, <2>3, AppendProperties
  <2>8. ToSet(ctx[k]) \subseteq 1..Len(layer)  BY <2>3, Holding DEF IInv
  <2>9. /\ given[a][n] # Missing => Read(ctx'[k], layer', base, a, n) = given[a][n]
        /\ given[a][n] = Missing => Read(ctx'[k], layer', base, a, n) = Read(ctx[k], layer, base, a, n)
    <3>1. given \in Layer /\ ctx[k] \in Seq(Nat) /\ layer \in Seq(Layer)  BY <2>1, <2>3
    <3>2. ctx'[k] = Append(ctx[k], Len(layer) + 1) /\ Len(layer) + 1 \in Nat
      BY <2>2, <2>3, LenProperties
    <3>3. ctx'[k] \in Seq(Nat) /\ Extends(ctx'[k], ctx[k], Len(layer) + 1)
      BY <3>1, <3>2, AppendProperties DEF Extends
    <3>4. Extends(layer', layer, given)  BY <2>2, <3>1, AppendProperties DEF Extends
    <3> QED BY <2>8, <3>1, <3>3, <3>4, PushedReading
  <2> QED BY <2>2, <2>5, <2>6, <2>7, <2>9
<1>2. IInv /\ [Next]_vars => [InForce]_vars  BY <1>1
<1> QED BY <1>2, Invariance, PTL DEF Spec, OpensInForce
=============================================================================
