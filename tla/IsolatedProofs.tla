--------------------------- MODULE IsolatedProofs ---------------------------
(***************************************************************************)
(* What holds of the session roots and of an isolated test for any number  *)
(* of runs, of roots and of retained ones, however they interleave, are    *)
(* killed or cancelled.                                                    *)
(***************************************************************************)
EXTENDS Isolated, FiniteSetsExt, FiniteSetTheorems, NaturalsInduction,
        WellFoundedInduction, TLAPS

----------------------------------------------------------------------------
(* Least and greatest members of sets of numbers.                          *)

(* A set of naturals has a least member, which Min is.                     *)
LEMMA Least ==
    ASSUME NEW S \in SUBSET Nat, S # {}
    PROVE  Min(S) \in S /\ \A n \in S : Min(S) <= n
<1>1. PICK x \in S : \A y \in S : ~(<<y, x>> \in OpToRel(<, Nat))
  BY NatLessThanWellFounded, WFMin
<1>2. \A y \in S : x <= y
  <2> SUFFICES ASSUME NEW y \in S PROVE x <= y  OBVIOUS
  <2>1. x \in Nat /\ y \in Nat  OBVIOUS
  <2>2. ~(y < x)  BY <1>1, <2>1 DEF OpToRel
  <2> QED BY <2>1, <2>2
<1> QED BY <1>2 DEF Min

(* A set of naturals up to k has a greatest one, which Max is.             *)
LEMMA Greatest ==
    ASSUME NEW k \in Nat, NEW S \in SUBSET (0..k), S # {}
    PROVE  Max(S) \in S /\ \A n \in S : n <= Max(S)
<1> DEFINE T == {k - n : n \in S}
<1>1. T \in SUBSET Nat /\ T # {}
  <2>1. \A n \in S : k - n \in Nat  OBVIOUS
  <2>2. \A m \in T : m \in Nat  BY <2>1
  <2>3. PICK n \in S : TRUE  OBVIOUS
  <2>4. k - n \in T  OBVIOUS
  <2> QED BY <2>2, <2>4
<1>2. Min(T) \in T /\ \A m \in T : Min(T) <= m  BY <1>1, Least
<1>3. PICK x \in S : Min(T) = k - x  BY <1>2
<1>4. \A y \in S : y <= x
  <2> SUFFICES ASSUME NEW y \in S PROVE y <= x  OBVIOUS
  <2>1. k - x <= k - y  BY <1>2, <1>3
  <2> QED BY <2>1
<1>5. \A y \in S : x >= y  BY <1>4
<1> QED BY <1>5 DEF Max

----------------------------------------------------------------------------
(* The inductive invariant.                                                *)

Contents == {Absent, Bare} \cup {Torn(p) : p \in Pids} \cup {Locked(p) : p \in Pids}
Places   == {"off", "naming", "locking", "writing", "sweeping", "discarding", "deleting", "up"}

Runs == [at : Places, root : 0..MaxRoots, seen : SUBSET Numbers, todo : SUBSET Numbers,
         doomed : 0..MaxRoots]

RootsTyped ==
    /\ dir \in [Numbers -> Contents]
    /\ garbage \subseteq Numbers /\ aged \subseteq Numbers /\ calm \subseteq Pids
    /\ run \in [Pids -> Runs]

TasksTyped ==
    /\ task \in [Pids -> {"none", "spawning", "talking", "woken", "killing", "returned", "raised"}]
    /\ child \in [Pids -> {"none", "running", "exited", "crashed"}]
    /\ file \in [Pids -> {"none", "torn"} \cup Verdicts]
    /\ report \in [Pids -> {"none", "error"} \cup Verdicts]

(* How the coroutine, its subprocess and the file between them fit.        *)
Fits(p) ==
    /\ task[p] = "none" <=> child[p] = "none"
    /\ task[p] = "none" => file[p] = "none"
    /\ task[p] \in {"woken", "killing", "returned", "raised"} => child[p] \in {"exited", "crashed"}
    /\ child[p] = "exited" => file[p] \in Verdicts
    /\ report[p] \in Verdicts => task[p] = "returned" /\ child[p] = "exited" /\ file[p] = report[p]

(* A lock that is old was cut short, by a run that is not at it any more;  *)
(* the one a run is about to write is young, and once it is written it has *)
(* the run's pid, if it is still there.                                    *)
OldAreTorn == \A n \in aged : LockOf(n) = "torn"

Marked(p) ==
    /\ run[p].at \notin {"off", "naming"} => run[p].root \in Numbers
    /\ run[p].at = "discarding" => run[p].doomed \in Numbers
    /\ run[p].at \in {"locking", "writing"} => run[p].root \notin aged
    /\ run[p].at \in {"sweeping", "discarding", "deleting", "up"} => dir[run[p].root] # Torn(p)

(* The roots that outlived others.                                         *)
Newer(n) == {m \in Existing : m > n}

(* What p saw and will not keep has newer ones enough, its own the last.   *)
Outlived(p) ==
    /\ run[p].at = "naming" => /\ \A m \in run[p].seen : m < run[p].root
                               /\ \A n \in run[p].seen \ Kept(run[p].seen) :
                                      Cardinality(Newer(n)) >= Retention
    /\ run[p].at \in {"locking", "writing"} =>
           \A n \in run[p].seen \ Kept(run[p].seen) : Cardinality(Newer(n)) > Retention
    /\ run[p].at \in {"sweeping", "discarding", "deleting"} =>
           \A n \in run[p].todo : Cardinality(Newer(n)) > Retention
    /\ run[p].at = "discarding" => Cardinality(Newer(run[p].doomed)) > Retention

(* No pid tells a run that these are over.                                 *)
Unsure(p, n) == dir[n] = Locked(p) \/ (LockOf(n) = "torn" /\ n \notin aged)

(* A run that nobody disturbs finds what it saw, and leaves what it must.  *)
Alone(p) ==
    p \in calm /\ Alive(p) =>
        /\ \A q \in Pids \ {p} : ~Alive(q)
        /\ run[p].at \in {"naming", "locking", "writing", "sweeping", "discarding"} => garbage = {}
        /\ run[p].at = "naming" => Existing = run[p].seen
        /\ run[p].at \in {"locking", "writing"} => Existing = run[p].seen \cup {run[p].root}
        /\ run[p].at \in {"sweeping", "discarding", "deleting"} =>
             \A n \in Existing \ Kept(run[p].seen) :
                 \/ n = run[p].root \/ n \in run[p].todo \/ Unsure(p, n)
                 \/ run[p].at = "discarding" /\ n = run[p].doomed
        /\ run[p].at = "deleting" => garbage \subseteq {run[p].doomed}

RootsInv == RootsTyped /\ OldAreTorn /\ \A p \in Pids : Marked(p) /\ Outlived(p) /\ Alone(p)
TasksInv == TasksTyped /\ \A p \in Pids : Fits(p)
IInv     == RootsInv /\ TasksInv

-----------------------------------------------------------------------------
(* Sets of roots.                                                          *)

(* The roots are finite in number, and so are the newer ones of each.      *)
LEMMA FewRoots ==
    ASSUME NEW S, S \subseteq Numbers
    PROVE  IsFiniteSet(S) /\ Cardinality(S) \in Nat
<1>1. MaxRoots \in Nat  BY RootsAssumption
<1>2. IsFiniteSet(0..(MaxRoots - 1))  BY <1>1, FS_Interval
<1> QED BY <1>2, FS_Subset, FS_CardinalityType DEF Numbers

(* Where nothing has gone, no fewer are newer.                             *)
LEMMA NewerKept ==
    ASSUME Existing \subseteq Existing', NEW n
    PROVE  Cardinality(Newer(n)) \in Nat /\ Cardinality(Newer(n)') \in Nat
           /\ Cardinality(Newer(n)) <= Cardinality(Newer(n)')
<1>1. Newer(n) \subseteq Newer(n)' /\ Newer(n) \subseteq Numbers /\ Newer(n)' \subseteq Numbers
  BY DEF Newer, Existing
<1> QED BY <1>1, FewRoots, FS_Subset

(* A root with more than Retention newer ones goes: any older root still   *)
(* has as many, and one that had that many keeps them.                     *)
LEMMA NewerLost ==
    ASSUME NEW d \in Numbers, Existing' = Existing \ {d}, Cardinality(Newer(d)) > Retention,
           NEW n \in Numbers
    PROVE  /\ Cardinality(Newer(n)) > Retention => Cardinality(Newer(n)') > Retention
           /\ Cardinality(Newer(n)) >= Retention => Cardinality(Newer(n)') >= Retention
<1>1. Newer(n) \subseteq Numbers /\ Newer(n)' \subseteq Numbers /\ Newer(d) \subseteq Numbers
  BY DEF Newer, Existing
<1>2. Cardinality(Newer(n)') \in Nat /\ IsFiniteSet(Newer(n)')  BY <1>1, FewRoots
<1>3. CASE d > n
  <2>1. Newer(d) \subseteq Newer(n)'
    <3> SUFFICES ASSUME NEW m \in Newer(d) PROVE m \in Newer(n)'  OBVIOUS
    <3>1. m \in Existing /\ m > d  BY DEF Newer
    <3>2. m \in Int /\ d \in Int /\ n \in Int  BY <1>1, RootsAssumption DEF Numbers
    <3> QED BY <1>3, <3>1, <3>2 DEF Newer
  <2>2. Cardinality(Newer(d)) <= Cardinality(Newer(n)') /\ Cardinality(Newer(d)) \in Nat
    BY <1>1, <1>2, <2>1, FewRoots, FS_Subset
  <2> QED BY <1>2, <2>2, RootsAssumption
<1>4. CASE ~(d > n)
  <2>1. Newer(n)' = Newer(n)  BY <1>4 DEF Newer
  <2> QED BY <2>1
<1> QED BY <1>3, <1>4

(* What is kept of the seen is in it; what is not has Retention newer.     *)
LEMMA KeptOf ==
    ASSUME NEW S \in SUBSET Numbers, NEW n \in S \ Kept(S)
    PROVE  Cardinality({m \in S : m > n}) >= Retention
<1>1. {m \in S : m > n} \subseteq Numbers  OBVIOUS
<1>2. Cardinality({m \in S : m > n}) \in Nat  BY <1>1, FewRoots
<1> QED BY <1>2, RootsAssumption DEF Kept

-----------------------------------------------------------------------------
(* The coroutine and its subprocess.                                       *)

(* A step of one run's task is nobody else's.                              *)
LEMMA TaskStep ==
    ASSUME TasksInv, NEW p \in Pids, TasksTyped', Fits(p)',
           \A q \in Pids \ {p} : /\ task'[q] = task[q] /\ child'[q] = child[q]
                                 /\ file'[q] = file[q] /\ report'[q] = report[q]
    PROVE  TasksInv'
<1> SUFFICES ASSUME NEW q \in Pids PROVE Fits(q)'  BY DEF TasksInv
<1>1. CASE q = p  BY <1>1
<1>2. CASE q # p  BY <1>2 DEF TasksInv, Fits
<1> QED BY <1>1, <1>2

(* What goes on around the subprocess keeps what holds of it, and no root. *)
LEMMA IsolatedStepKeeps ==
    ASSUME TasksInv, NEW p \in Pids, IsolatedStep(p) \/ Forgets(p)
    PROVE  TasksInv'
<1> USE DEF Verdicts
<1>1. TasksTyped /\ Fits(p)  BY DEF TasksInv
<1>2. TasksTyped' /\ \A q \in Pids \ {p} : /\ task'[q] = task[q] /\ child'[q] = child[q]
                                           /\ file'[q] = file[q] /\ report'[q] = report[q]
  <2>1. CASE Spawn(p) \/ Spawned(p) \/ ExitSeen(p) \/ WorkerExits(p) \/ WorkerCrashes(p)
    BY <1>1, <2>1 DEF TasksTyped, Spawn, Spawned, ExitSeen, WorkerExits, WorkerCrashes, Sets
  <2>2. CASE WorkerEnds(p) \/ WorkerWrites(p)
    BY <1>1, <2>2 DEF TasksTyped, WorkerEnds, WorkerWrites
  <2>3. CASE Resumes(p) \/ Reaped(p)
    BY <1>1, <2>3 DEF TasksTyped, Resumes, Reaped, Returns, Sets, Shipped
  <2>4. CASE Cancelled(p)
    BY <1>1, <2>4 DEF TasksTyped, Cancelled, Sets, Killing
  <2>5. CASE Forgets(p)
    BY <1>1, <2>5 DEF TasksTyped, Forgets, Sets
  <2> QED BY <2>1, <2>2, <2>3, <2>4, <2>5 DEF IsolatedStep
<1>3. Fits(p)'
  <2>1. CASE Spawn(p)
    BY <1>1, <2>1 DEF TasksTyped, Fits, Spawn, Sets
  <2>2. CASE Spawned(p) \/ ExitSeen(p) \/ WorkerExits(p) \/ WorkerCrashes(p)
    BY <1>1, <2>2 DEF TasksTyped, Fits, Spawned, ExitSeen, WorkerExits, WorkerCrashes, Sets
  <2>3. CASE WorkerEnds(p) \/ WorkerWrites(p)
    BY <1>1, <2>3 DEF TasksTyped, Fits, WorkerEnds, WorkerWrites
  <2>4. CASE Resumes(p) \/ Reaped(p)
    BY <1>1, <2>4 DEF TasksTyped, Fits, Resumes, Reaped, Returns, Sets, Shipped
  <2>5. CASE Cancelled(p)
    BY <1>1, <2>5 DEF TasksTyped, Fits, Cancelled, Sets, Killing
  <2>6. CASE Forgets(p)
    BY <1>1, <2>6 DEF TasksTyped, Fits, Forgets, Sets
  <2> QED BY <2>1, <2>2, <2>3, <2>4, <2>5, <2>6 DEF IsolatedStep
<1> QED BY <1>2, <1>3, TaskStep

-----------------------------------------------------------------------------
(* A step of one run at the roots.                                         *)

(* Whatever it does, the others' roots, old locks and sweeps stay in order, *)
(* so long as only roots go that have newer ones enough.                   *)
LEMMA RunStep ==
    ASSUME RootsInv, NEW p \in Pids, NEW r \in Runs, run' = [run EXCEPT ![p] = r],
           calm' \subseteq Pids, \A q \in Pids \ {p} : q \in calm' => q \in calm /\ Alive(p),
           dir' \in [Numbers -> Contents], garbage' \subseteq Numbers, aged' \subseteq aged,
           OldAreTorn',
           \A n \in Numbers, q \in Pids \ {p} : dir'[n] = Torn(q) => dir[n] = Torn(q),
           \/ Existing \subseteq Existing'
           \/ \E d \in Numbers : Existing' = Existing \ {d} /\ Cardinality(Newer(d)) > Retention,
           Marked(p)', Outlived(p)', Alone(p)'
    PROVE  RootsInv'
<1>1. RootsTyped  BY DEF RootsInv
<1>2. run'[p] = r /\ \A q \in Pids \ {p} : run'[q] = run[q]
  BY <1>1 DEF RootsTyped
<1>3. RootsTyped'
  BY <1>1 DEF RootsTyped
<1> SUFFICES ASSUME NEW q \in Pids \ {p} PROVE Marked(q)' /\ Outlived(q)' /\ Alone(q)'
  BY <1>3 DEF RootsInv
<1>4. run'[q] = run[q] /\ Marked(q) /\ Outlived(q) /\ Alone(q) /\ run[q] \in Runs
  BY <1>1, <1>2 DEF RootsInv, RootsTyped
<1>5. Marked(q)'
  BY <1>4 DEF Marked
<1>6. Alone(q)'
  <2>1. q \in calm' => ~Alive(q)  BY <1>4 DEF Alone
  <2> QED BY <1>4, <2>1 DEF Alone, Alive
<1>7. Outlived(q)'
  <2>1. \A n \in Numbers :
           /\ Cardinality(Newer(n)) > Retention => Cardinality(Newer(n)') > Retention
           /\ Cardinality(Newer(n)) >= Retention => Cardinality(Newer(n)') >= Retention
    <3> SUFFICES ASSUME NEW n \in Numbers
                 PROVE  /\ Cardinality(Newer(n)) > Retention => Cardinality(Newer(n)') > Retention
                        /\ Cardinality(Newer(n)) >= Retention => Cardinality(Newer(n)') >= Retention
      OBVIOUS
    <3>1. CASE Existing \subseteq Existing'  BY <3>1, NewerKept, RootsAssumption
    <3>2. CASE \E d \in Numbers : Existing' = Existing \ {d} /\ Cardinality(Newer(d)) > Retention
      BY <3>2, NewerLost
    <3> QED BY <3>1, <3>2
  <2>2. /\ run[q].seen \subseteq Numbers /\ run[q].todo \subseteq Numbers
        /\ run[q].at = "discarding" => run[q].doomed \in Numbers
    BY <1>4 DEF Runs, Marked
  <2> HIDE DEF Newer
  <2> QED BY <1>4, <2>1, <2>2 DEF Outlived
<1> QED BY <1>5, <1>6, <1>7

(* What a lock can be is told apart by its name, and by whose it is.       *)
LEMMA Locks ==
    /\ Absent.lock = "absent" /\ Bare.lock = "bare"
    /\ Bare # Absent
    /\ \A p, q : /\ Torn(p).lock = "torn" /\ Locked(p).lock = "pid"
                 /\ Torn(p).by = p /\ Locked(p).by = p
                 /\ Torn(p) # Absent /\ Torn(p) # Bare /\ Locked(p) # Absent /\ Locked(p) # Bare
                 /\ Torn(p) = Torn(q) => p = q
                 /\ Torn(p) # Locked(q)
<1>1. Absent.lock = "absent" /\ Bare.lock = "bare"  BY DEF Absent, Bare
<1>2. ASSUME NEW p PROVE /\ Torn(p).lock = "torn" /\ Locked(p).lock = "pid"
                         /\ Torn(p).by = p /\ Locked(p).by = p
  BY DEF Torn, Locked
<1> QED BY <1>1, <1>2

(* One directory changes: what is there, and which lock is old.            *)
LEMMA DirChanged ==
    ASSUME RootsTyped, OldAreTorn, NEW n \in Numbers, NEW c \in Contents, dir' = [dir EXCEPT ![n] = c]
    PROVE  /\ dir' \in [Numbers -> Contents] /\ dir'[n] = c
           /\ \A m \in Numbers \ {n} : dir'[m] = dir[m]
           /\ c # Absent => Existing' = Existing \cup {n}
           /\ c = Absent => Existing' = Existing \ {n}
           /\ aged' \subseteq aged /\ n \notin aged' => OldAreTorn'
BY DEF RootsTyped, OldAreTorn, Existing, LockOf

(* A run that looks around, alone or not, is owed what it sees.            *)
LEMMA ScanKeeps == ASSUME RootsInv, NEW p \in Pids, Scan(p) PROVE RootsInv'
<1>1. RootsTyped /\ OldAreTorn  BY DEF RootsInv
<1> DEFINE r == [Off EXCEPT !.at = "naming", !.seen = Existing,
                            !.root = IF Existing = {} THEN 0 ELSE Max(Existing) + 1]
<1>2. /\ run[p].at = "off" /\ run' = [run EXCEPT ![p] = r] /\ garbage' = {}
      /\ calm' = IF \E q \in Pids : Alive(q) THEN {} ELSE {p}
      /\ UNCHANGED <<dir, aged>>
  BY DEF Scan
<1>3. Existing \subseteq Numbers /\ Existing' = Existing  BY <1>2 DEF Existing
<1>4. MaxRoots \in Nat \ {0} /\ Retention \in Nat  BY RootsAssumption
<1>5. (\A m \in Existing : m < r.root) /\ r.root \in 0..MaxRoots
  <2>1. CASE Existing = {}  BY <1>4, <2>1 DEF Off, None
  <2>2. CASE Existing # {}
    <3>1. MaxRoots - 1 \in Nat /\ Existing \in SUBSET (0..(MaxRoots - 1))
      BY <1>3, <1>4 DEF Numbers
    <3>2. Max(Existing) \in Existing /\ \A m \in Existing : m <= Max(Existing)
      BY <2>2, <3>1, Greatest
    <3>3. r.root = Max(Existing) + 1  BY <2>2 DEF Off
    <3>4. Max(Existing) \in 0..(MaxRoots - 1)  BY <3>1, <3>2
    <3>5. \A m \in Existing : m \in Int  BY <3>1
    <3> QED BY <1>4, <3>2, <3>3, <3>4, <3>5
  <2> QED BY <2>1, <2>2
<1>6. /\ r.at = "naming" /\ r.seen = Existing /\ r.todo = {} /\ r.doomed = MaxRoots
      /\ r \in Runs
  <2>1. Off \in Runs /\ Off.todo = {} /\ Off.doomed = MaxRoots
    BY RootsAssumption DEF Off, Runs, Places, None
  <2>2. PICK x \in 0..MaxRoots : x = IF Existing = {} THEN 0 ELSE Max(Existing) + 1
    BY <1>5, <2>1 DEF Runs
  <2>3. r = [Off EXCEPT !.at = "naming", !.seen = Existing, !.root = x]  BY <2>2
  <2> HIDE DEF r
  <2> QED BY <1>3, <2>1, <2>3 DEF Runs, Places
<1> HIDE DEF r
<1>7. run'[p] = r  BY <1>1, <1>2 DEF RootsTyped
<1>8. Marked(p)'  BY <1>6, <1>7 DEF Marked
<1>9. Outlived(p)'
  <2>1. \A n \in Existing \ Kept(Existing) : Cardinality(Newer(n)) >= Retention
    BY <1>3, KeptOf DEF Newer
  <2>2. \A n : Newer(n)' = Newer(n)  BY <1>3 DEF Newer
  <2> QED BY <1>5, <1>6, <1>7, <2>1, <2>2 DEF Outlived
<1>10. Alone(p)'
  <2> SUFFICES ASSUME p \in calm' PROVE Alone(p)'  BY DEF Alone
  <2>1. \A q \in Pids : ~Alive(q)  BY <1>2
  <2>2. \A q \in Pids \ {p} : run'[q] = run[q]  BY <1>1, <1>2 DEF RootsTyped
  <2>3. \A q \in Pids \ {p} : ~Alive(q)'  BY <2>1, <2>2 DEF Alive
  <2> QED BY <1>2, <1>3, <1>6, <1>7, <2>3 DEF Alone
<1>11. OldAreTorn'  BY <1>1, <1>2 DEF OldAreTorn, LockOf
<1> QED BY <1>1, <1>2, <1>3, <1>6, <1>8, <1>9, <1>10, <1>11, RunStep DEF RootsTyped

(* A new root is newer than all that its run saw, whoever took the number. *)
LEMMA MakeRootKeeps == ASSUME RootsInv, NEW p \in Pids, MakeRoot(p) PROVE RootsInv'
<1>1. RootsTyped /\ OldAreTorn /\ Marked(p) /\ Outlived(p) /\ Alone(p)  BY DEF RootsInv
<1> DEFINE n == run[p].root
<1>2. /\ run[p] \in Runs /\ run[p].at = "naming" /\ n \in Numbers
      /\ UNCHANGED <<garbage, aged, calm>>
  BY <1>1 DEF MakeRoot, RootsTyped
<1>3. Alive(p)  BY <1>2 DEF Alive
<1>4. Retention \in Nat /\ MaxRoots \in Nat  BY RootsAssumption
<1>5. /\ \A m \in run[p].seen : m < n
      /\ \A m \in run[p].seen \ Kept(run[p].seen) : Cardinality(Newer(m)) >= Retention
  BY <1>1, <1>2 DEF Outlived
<1>6. CASE dir[n] # Absent /\ run' = [run EXCEPT ![p].root = n + 1] /\ UNCHANGED dir
  <2> DEFINE r == [run[p] EXCEPT !.root = n + 1]
  <2>1. /\ r \in Runs /\ r.at = "naming" /\ r.root = n + 1 /\ r.seen = run[p].seen
    BY <1>2, <1>4 DEF Runs, Numbers
  <2>2. run' = [run EXCEPT ![p] = r] /\ run'[p] = r  BY <1>1, <1>6 DEF RootsTyped
  <2> HIDE DEF r
  <2>3. Existing' = Existing /\ OldAreTorn'  BY <1>1, <1>2, <1>6 DEF Existing, OldAreTorn, LockOf
  <2>4. Marked(p)'  BY <2>1, <2>2 DEF Marked
  <2>5. Outlived(p)'
    <3>1. \A m : Newer(m)' = Newer(m)  BY <2>3 DEF Newer
    <3>2. run[p].seen \subseteq Int /\ n \in Int  BY <1>2 DEF Runs, Numbers
    <3>3. \A m \in run[p].seen : m < n + 1  BY <1>5, <3>2
    <3> QED BY <1>5, <2>1, <2>2, <3>1, <3>3 DEF Outlived
  <2>6. Alone(p)'
    <3>1. \A q \in Pids \ {p} : run'[q] = run[q]  BY <1>1, <2>2 DEF RootsTyped
    <3> QED BY <1>1, <1>2, <1>3, <2>1, <2>2, <2>3, <3>1 DEF Alone, Alive
  <2> QED BY <1>1, <1>2, <1>3, <1>6, <2>1, <2>2, <2>3, <2>4, <2>5, <2>6, RunStep DEF RootsTyped
<1>7. CASE dir[n] = Absent /\ run' = [run EXCEPT ![p].at = "locking"] /\ dir' = [dir EXCEPT ![n] = Bare]
  <2> DEFINE r == [run[p] EXCEPT !.at = "locking"]
  <2>1. /\ r \in Runs /\ r.at = "locking" /\ r.root = n /\ r.seen = run[p].seen
    BY <1>2 DEF Runs, Places
  <2>2. run' = [run EXCEPT ![p] = r] /\ run'[p] = r  BY <1>1, <1>7 DEF RootsTyped
  <2>3. n \notin aged  BY <1>1, <1>7, Locks DEF OldAreTorn, LockOf
  <2>4. /\ dir' \in [Numbers -> Contents] /\ dir'[n] = Bare /\ Existing' = Existing \cup {n}
        /\ \A m \in Numbers \ {n} : dir'[m] = dir[m]
        /\ OldAreTorn'
    BY <1>1, <1>2, <1>7, <2>3, Locks, DirChanged DEF Contents
  <2>5. \A m \in Numbers, q \in Pids \ {p} : dir'[m] = Torn(q) => dir[m] = Torn(q)
    BY <2>4, Locks
  <2>6. run[p].seen \subseteq Numbers /\ n \notin Existing  BY <1>2, <1>7 DEF Runs, Existing
  <2> HIDE DEF r, n
  <2>7. Marked(p)'  BY <1>2, <2>1, <2>2, <2>3 DEF Marked
  <2>8. Outlived(p)'
    <3> SUFFICES ASSUME NEW m \in run[p].seen \ Kept(run[p].seen)
                 PROVE  Cardinality(Newer(m)') > Retention
      BY <2>1, <2>2 DEF Outlived
    <3>1. Newer(m)' = Newer(m) \cup {n} /\ n \notin Newer(m) /\ Newer(m) \subseteq Numbers
      <4>1. m < n /\ m \in Int /\ n \in Int  BY <1>2, <1>5, <2>6 DEF Numbers
      <4>2. n > m  BY <4>1
      <4> QED BY <2>4, <2>6, <4>2 DEF Newer, Existing
    <3>2. Cardinality(Newer(m)') = Cardinality(Newer(m)) + 1 /\ Cardinality(Newer(m)) \in Nat
      BY <3>1, FewRoots, FS_AddElement
    <3> QED BY <1>4, <1>5, <3>2
  <2>9. Alone(p)'
    <3>1. \A q \in Pids \ {p} : run'[q] = run[q]  BY <1>1, <2>2 DEF RootsTyped
    <3> QED BY <1>1, <1>2, <1>3, <2>1, <2>2, <2>4, <3>1 DEF Alone, Alive
  <2> QED BY <1>1, <1>2, <1>3, <2>1, <2>2, <2>4, <2>5, <2>7, <2>8, <2>9, RunStep DEF RootsTyped
<1> QED BY <1>2, <1>6, <1>7 DEF MakeRoot

(* A run that gives up, or is killed, disturbs nobody.                     *)
LEMMA GoneStep ==
    ASSUME RootsInv, NEW p \in Pids, Alive(p), run' = [run EXCEPT ![p] = Off],
           UNCHANGED <<dir, garbage, aged, calm>>
    PROVE  RootsInv'
<1>1. RootsTyped /\ OldAreTorn  BY DEF RootsInv
<1>2. Off \in Runs /\ Off.at = "off"
  BY RootsAssumption DEF Off, Runs, Places, None
<1>3. run'[p] = Off  BY <1>1 DEF RootsTyped
<1>4. Marked(p)' /\ Outlived(p)' /\ Alone(p)'
  BY <1>2, <1>3 DEF Marked, Outlived, Alone, Alive
<1>5. OldAreTorn' /\ Existing' = Existing  BY <1>1 DEF OldAreTorn, LockOf, Existing
<1> QED BY <1>1, <1>2, <1>4, <1>5, RunStep DEF RootsTyped

(* A lock that is opened is young, and in the root of its run.             *)
LEMMA OpenLockKeeps == ASSUME RootsInv, NEW p \in Pids, OpenLock(p) PROVE RootsInv'
<1>1. RootsTyped /\ OldAreTorn /\ Marked(p) /\ Outlived(p) /\ Alone(p)  BY DEF RootsInv
<1> DEFINE n == run[p].root
<1>2. /\ run[p] \in Runs /\ run[p].at = "locking" /\ n \in Numbers /\ n \notin aged
      /\ UNCHANGED <<garbage, aged, calm>>
  BY <1>1 DEF OpenLock, RootsTyped, Marked
<1>3. Alive(p)  BY <1>2 DEF Alive
<1>4. CASE dir[n] = Absent /\ run' = [run EXCEPT ![p] = Off] /\ UNCHANGED dir
  BY <1>1, <1>2, <1>3, <1>4, GoneStep
<1>5. CASE dir[n] # Absent /\ run' = [run EXCEPT ![p].at = "writing"] /\ dir' = [dir EXCEPT ![n] = Torn(p)]
  <2> DEFINE r == [run[p] EXCEPT !.at = "writing"]
  <2>1. /\ r \in Runs /\ r.at = "writing" /\ r.root = n /\ r.seen = run[p].seen
    BY <1>2 DEF Runs, Places
  <2>2. run' = [run EXCEPT ![p] = r] /\ run'[p] = r  BY <1>1, <1>5 DEF RootsTyped
  <2>3. /\ dir' \in [Numbers -> Contents] /\ dir'[n] = Torn(p) /\ Existing' = Existing \cup {n}
        /\ \A m \in Numbers \ {n} : dir'[m] = dir[m]
        /\ OldAreTorn'
    <3>1. Torn(p) \in Contents /\ Torn(p) # Absent  BY Locks DEF Contents
    <3> QED BY <1>1, <1>2, <1>5, <3>1, DirChanged
  <2>4. \A m \in Numbers, q \in Pids \ {p} : dir'[m] = Torn(q) => dir[m] = Torn(q)
    BY <2>3, Locks
  <2>5. Existing' = Existing  BY <1>2, <1>5, <2>3 DEF Existing
  <2> HIDE DEF r, n
  <2>6. Marked(p)'  BY <1>2, <2>1, <2>2 DEF Marked
  <2>7. Outlived(p)'
    <3>1. \A m : Newer(m)' = Newer(m)  BY <2>5 DEF Newer
    <3> QED BY <1>1, <1>2, <2>1, <2>2, <3>1 DEF Outlived
  <2>8. Alone(p)'
    <3>1. \A q \in Pids \ {p} : run'[q] = run[q]  BY <1>1, <2>2 DEF RootsTyped
    <3> QED BY <1>1, <1>2, <1>3, <2>1, <2>2, <2>5, <3>1 DEF Alone, Alive, n
  <2> QED BY <1>1, <1>2, <1>3, <2>1, <2>2, <2>3, <2>4, <2>5, <2>6, <2>7, <2>8, RunStep DEF RootsTyped
<1> QED BY <1>2, <1>4, <1>5 DEF OpenLock

(* A pid that is written leaves no lock of its run cut short; what is old goes on the list. *)
LEMMA WriteLockKeeps == ASSUME RootsInv, NEW p \in Pids, WriteLock(p) PROVE RootsInv'
<1>1. RootsTyped /\ OldAreTorn /\ Marked(p) /\ Outlived(p) /\ Alone(p)  BY DEF RootsInv
<1> DEFINE n == run[p].root
<1>2. /\ run[p] \in Runs /\ run[p].at = "writing" /\ n \in Numbers /\ n \notin aged
      /\ UNCHANGED <<garbage, aged, calm>>
  BY <1>1 DEF WriteLock, RootsTyped, Marked
<1>3. Alive(p)  BY <1>2 DEF Alive
<1>4. dir' = [dir EXCEPT ![n] = IF @ = Torn(p) THEN Locked(p) ELSE @]  BY DEF WriteLock
<1>5. PICK c \in Contents : c = IF dir[n] = Torn(p) THEN Locked(p) ELSE dir[n]
  BY <1>1, <1>2 DEF RootsTyped, Contents
<1>6. dir' = [dir EXCEPT ![n] = c]  BY <1>1, <1>2, <1>4, <1>5 DEF RootsTyped
<1>7. /\ dir' \in [Numbers -> Contents] /\ dir'[n] = c
      /\ \A m \in Numbers \ {n} : dir'[m] = dir[m]
      /\ OldAreTorn'
  BY <1>1, <1>2, <1>6, DirChanged
<1>8. Existing' = Existing  BY <1>2, <1>5, <1>7, Locks DEF Existing
<1>9. \A m \in Numbers, q \in Pids \ {p} : dir'[m] = Torn(q) => dir[m] = Torn(q)
  BY <1>5, <1>7, Locks
<1>10. dir'[n] # Torn(p)  BY <1>5, <1>7, Locks
<1>11. \A m : Newer(m)' = Newer(m)  BY <1>8 DEF Newer
<1>12. CASE dir[n] = Absent /\ run' = [run EXCEPT ![p] = Off]
  <2>1. dir' = dir  BY <1>1, <1>4, <1>12, Locks DEF RootsTyped
  <2> QED BY <1>1, <1>2, <1>3, <1>12, <2>1, GoneStep
<1>13. CASE run' = [run EXCEPT ![p] = [@ EXCEPT !.at = "sweeping",
                                              !.todo = run[p].seen \ Kept(run[p].seen)]]
  <2> DEFINE r == [run[p] EXCEPT !.at = "sweeping", !.todo = run[p].seen \ Kept(run[p].seen)]
  <2>1. /\ r \in Runs /\ r.at = "sweeping" /\ r.root = n /\ r.seen = run[p].seen
        /\ r.todo = run[p].seen \ Kept(run[p].seen)
    BY <1>2 DEF Runs, Places
  <2>2. run' = [run EXCEPT ![p] = r] /\ run'[p] = r  BY <1>1, <1>13 DEF RootsTyped
  <2> HIDE DEF r
  <2>3. Marked(p)'  BY <1>2, <1>10, <2>1, <2>2 DEF Marked
  <2>4. Outlived(p)'  BY <1>1, <1>2, <1>11, <2>1, <2>2 DEF Outlived
  <2>5. Alone(p)'
    <3>1. \A q \in Pids \ {p} : run'[q] = run[q]  BY <1>1, <2>2 DEF RootsTyped
    <3> QED BY <1>1, <1>2, <1>3, <1>8, <2>1, <2>2, <3>1 DEF Alone, Alive
  <2> QED BY <1>1, <1>2, <1>3, <1>7, <1>8, <1>9, <2>1, <2>2, <2>3, <2>4, <2>5, RunStep DEF RootsTyped
<1> QED BY <1>12, <1>13 DEF WriteLock

(* A root that is doomed was on the list.                                  *)
LEMMA LookKeeps == ASSUME RootsInv, NEW p \in Pids, Look(p) PROVE RootsInv'
<1>1. RootsTyped /\ OldAreTorn /\ Marked(p) /\ Outlived(p) /\ Alone(p)  BY DEF RootsInv
<1> DEFINE n == Min(run[p].todo)
           r == [run[p] EXCEPT !.todo = @ \ {n},
                               !.at = IF InUse(n) THEN "sweeping" ELSE "discarding",
                               !.doomed = IF InUse(n) THEN None ELSE n]
<1>2. /\ run[p] \in Runs /\ run[p].at = "sweeping" /\ run[p].todo # {}
      /\ run' = [run EXCEPT ![p] = r] /\ UNCHANGED <<dir, garbage, aged, calm>>
  <2>1. run[p] \in Runs  BY <1>1 DEF RootsTyped
  <2> QED BY <2>1 DEF Look
<1>3. Alive(p)  BY <1>2 DEF Alive
<1>4. n \in run[p].todo /\ n \in Numbers
  <2>1. run[p].todo \in SUBSET Nat /\ run[p].todo \subseteq Numbers
    BY <1>2, RootsAssumption DEF Runs, Numbers
  <2> QED BY <1>2, <2>1, Least
<1>5. /\ r \in Runs /\ r.root = run[p].root /\ r.seen = run[p].seen /\ r.todo = run[p].todo \ {n}
      /\ r.at = IF InUse(n) THEN "sweeping" ELSE "discarding"
      /\ ~InUse(n) => r.doomed = n
  <2>1. PICK a \in {"sweeping", "discarding"} : a = IF InUse(n) THEN "sweeping" ELSE "discarding"
    OBVIOUS
  <2>2. PICK d \in 0..MaxRoots : d = IF InUse(n) THEN None ELSE n
    BY <1>4, RootsAssumption DEF None, Numbers
  <2>3. r = [run[p] EXCEPT !.todo = @ \ {n}, !.at = a, !.doomed = d]  BY <2>1, <2>2
  <2> HIDE DEF r, n
  <2> QED BY <1>2, <2>1, <2>2, <2>3 DEF Runs, Places
<1>6. run'[p] = r /\ \A q \in Pids \ {p} : run'[q] = run[q]  BY <1>1, <1>2 DEF RootsTyped
<1>7. Existing' = Existing /\ OldAreTorn' /\ \A m : Newer(m)' = Newer(m)
  BY <1>1, <1>2 DEF Existing, OldAreTorn, LockOf, Newer
<1> HIDE DEF r, n
<1>8. Marked(p)'  BY <1>1, <1>2, <1>4, <1>5, <1>6 DEF Marked
<1>9. Outlived(p)'  BY <1>1, <1>2, <1>4, <1>5, <1>6, <1>7 DEF Outlived
<1>10. Alone(p)'
  <2> SUFFICES ASSUME p \in calm PROVE Alone(p)'  BY <1>2 DEF Alone
  <2>1. InUse(n) => Unsure(p, n)
    <3>1. CASE LockOf(n) = "pid" /\ Alive(dir[n].by)
      <4>1. PICK q \in Pids : dir[n] = Locked(q)
        BY <1>1, <1>4, <3>1, Locks DEF RootsTyped, Contents, LockOf
      <4>2. q = p  BY <1>1, <1>3, <3>1, <4>1, Locks DEF Alone
      <4> QED BY <4>1, <4>2 DEF Unsure
    <3>2. CASE LockOf(n) = "torn" /\ n \notin aged  BY <3>2 DEF Unsure
    <3> QED BY <3>1, <3>2 DEF InUse
  <2>2. \A m : Unsure(p, m)' <=> Unsure(p, m)  BY <1>2 DEF Unsure, LockOf
  <2>3. (\A q \in Pids \ {p} : ~Alive(q)') /\ garbage' = {}
    BY <1>1, <1>2, <1>3, <1>6 DEF Alone, Alive
  <2>4. \A m \in Existing \ Kept(run[p].seen) :
           m = run[p].root \/ m \in run[p].todo \/ Unsure(p, m)
    BY <1>1, <1>2, <1>3 DEF Alone
  <2>5. \A m \in Existing \ Kept(run[p].seen) :
           \/ m = run'[p].root \/ m \in run'[p].todo \/ Unsure(p, m)'
           \/ run'[p].at = "discarding" /\ m = run'[p].doomed
    BY <1>5, <1>6, <2>1, <2>2, <2>4
  <2>6. run'[p].at \in {"sweeping", "discarding"} /\ run'[p].seen = run[p].seen  BY <1>5, <1>6
  <2>7. Existing' \ Kept(run'[p].seen) = Existing \ Kept(run[p].seen)  BY <1>7, <2>6
  <2>8. \A m \in Existing' \ Kept(run'[p].seen) :
           \/ m = run'[p].root \/ m \in run'[p].todo \/ Unsure(p, m)'
           \/ run'[p].at = "discarding" /\ m = run'[p].doomed
    BY <2>5, <2>7
  <2> QED BY <2>3, <2>6, <2>8 DEF Alone
<1> QED BY <1>1, <1>2, <1>3, <1>5, <1>7, <1>8, <1>9, <1>10, RunStep DEF RootsTyped

(* A root that goes was not among the newest, and takes its age with it.   *)
LEMMA DiscardKeeps == ASSUME RootsInv, NEW p \in Pids, Discard(p) PROVE RootsInv'
<1>1. RootsTyped /\ OldAreTorn /\ Marked(p) /\ Outlived(p) /\ Alone(p)  BY DEF RootsInv
<1> DEFINE n == run[p].doomed
<1>2. /\ run[p] \in Runs /\ run[p].at = "discarding" /\ n \in Numbers
      /\ dir' = [dir EXCEPT ![n] = Absent] /\ aged' = aged \ {n} /\ UNCHANGED calm
  BY <1>1 DEF Discard, RootsTyped, Marked
<1>3. Alive(p)  BY <1>2 DEF Alive
<1>4. Cardinality(Newer(n)) > Retention /\ \A m \in run[p].todo : Cardinality(Newer(m)) > Retention
  BY <1>1, <1>2 DEF Outlived
<1>5. /\ dir' \in [Numbers -> Contents] /\ dir'[n] = Absent /\ Existing' = Existing \ {n}
      /\ \A m \in Numbers \ {n} : dir'[m] = dir[m]
      /\ OldAreTorn'
  <2>1. Absent \in Contents  BY DEF Contents
  <2> QED BY <1>1, <1>2, <2>1, DirChanged
<1>6. \A m \in Numbers, q \in Pids \ {p} : dir'[m] = Torn(q) => dir[m] = Torn(q)
  BY <1>5, Locks
<1>7. PICK r \in Runs :
         /\ run' = [run EXCEPT ![p] = r] /\ r.root = run[p].root /\ r.seen = run[p].seen
         /\ r.todo = run[p].todo
         /\ \/ /\ dir[n] = Absent /\ r.at = "sweeping" /\ UNCHANGED garbage
            \/ /\ r.at = "deleting" /\ r.doomed = n /\ garbage' = garbage \cup {n}
  <2>1. CASE dir[n] = Absent /\ run' = [run EXCEPT ![p].at = "sweeping", ![p].doomed = None]
             /\ UNCHANGED garbage
    <3> DEFINE r == [run[p] EXCEPT !.at = "sweeping", !.doomed = None]
    <3>1. /\ r \in Runs /\ r.at = "sweeping" /\ r.root = run[p].root /\ r.seen = run[p].seen
          /\ r.todo = run[p].todo
      <4>1. None \in 0..MaxRoots  BY RootsAssumption DEF None
      <4> QED BY <1>2, <4>1 DEF Runs, Places
    <3>2. run' = [run EXCEPT ![p] = r]  BY <1>1, <2>1 DEF RootsTyped
    <3> QED BY <2>1, <3>1, <3>2
  <2>2. CASE run' = [run EXCEPT ![p].at = "deleting"] /\ garbage' = garbage \cup {n}
    <3> DEFINE r == [run[p] EXCEPT !.at = "deleting"]
    <3>1. /\ r \in Runs /\ r.at = "deleting" /\ r.root = run[p].root /\ r.seen = run[p].seen
          /\ r.todo = run[p].todo /\ r.doomed = n
      BY <1>2 DEF Runs, Places
    <3>2. run' = [run EXCEPT ![p] = r]  BY <1>1, <2>2 DEF RootsTyped
    <3> QED BY <2>2, <3>1, <3>2
  <2> QED BY <2>1, <2>2 DEF Discard
<1> HIDE DEF n
<1>8. run'[p] = r /\ \A q \in Pids \ {p} : run'[q] = run[q]  BY <1>1, <1>7 DEF RootsTyped
<1>9. Marked(p)'
  <2>1. dir'[run[p].root] # Torn(p)
    <3>1. run[p].root \in Numbers /\ dir[run[p].root] # Torn(p)  BY <1>1, <1>2 DEF Marked
    <3> QED BY <1>5, <3>1, Locks
  <2> QED BY <1>1, <1>2, <1>7, <1>8, <2>1 DEF Marked
<1>10. Outlived(p)'
  <2>1. \A m \in run[p].todo : Cardinality(Newer(m)') > Retention
    <3> SUFFICES ASSUME NEW m \in run[p].todo PROVE Cardinality(Newer(m)') > Retention  OBVIOUS
    <3>1. m \in Numbers  BY <1>2 DEF Runs
    <3> QED BY <1>2, <1>4, <1>5, <3>1, NewerLost
  <2> QED BY <1>7, <1>8, <2>1 DEF Outlived
<1>11. Alone(p)'
  <2> SUFFICES ASSUME p \in calm PROVE Alone(p)'  BY <1>2 DEF Alone
  <2>1. (\A q \in Pids \ {p} : ~Alive(q)') /\ garbage = {}
    BY <1>1, <1>2, <1>3, <1>8 DEF Alone, Alive
  <2>2. \A m \in Existing \ Kept(run[p].seen) :
           m = run[p].root \/ m \in run[p].todo \/ Unsure(p, m) \/ m = n
    BY <1>1, <1>2, <1>3 DEF Alone, n
  <2>3. \A m \in Numbers : m # n /\ Unsure(p, m) => Unsure(p, m)'
    BY <1>2, <1>5 DEF Unsure, LockOf
  <2>4. \A m \in Existing' \ Kept(run'[p].seen) :
           m = run'[p].root \/ m \in run'[p].todo \/ Unsure(p, m)'
    <3>1. \A m \in Existing' : m # n /\ m \in Existing /\ m \in Numbers
      BY <1>5 DEF Existing
    <3> QED BY <1>7, <1>8, <2>2, <2>3, <3>1
  <2>5. run'[p].at \in {"sweeping", "deleting"} BY <1>7, <1>8
  <2>6. /\ run'[p].at = "sweeping" => garbage' = {}
        /\ run'[p].at = "deleting" => garbage' \subseteq {run'[p].doomed}
    BY <1>7, <1>8, <2>1
  <2> QED BY <2>1, <2>4, <2>5, <2>6 DEF Alone
<1>12. garbage' \subseteq Numbers /\ aged' \subseteq aged /\ calm' \subseteq Pids
  BY <1>1, <1>2, <1>7 DEF RootsTyped
<1> QED BY <1>1, <1>2, <1>3, <1>4, <1>5, <1>6, <1>7, <1>9, <1>10, <1>11, <1>12, RunStep

(* What was renamed is deleted; a sweep that is done forgets what it saw.  *)
LEMMA DeleteKeeps == ASSUME RootsInv, NEW p \in Pids, Delete(p) \/ SweepEnds(p) PROVE RootsInv'
<1>1. RootsTyped /\ OldAreTorn /\ Marked(p) /\ Outlived(p) /\ Alone(p)  BY DEF RootsInv
<1>2. PICK r \in Runs :
         /\ run' = [run EXCEPT ![p] = r] /\ r.root = run[p].root
         /\ \/ /\ run[p].at = "deleting" /\ r.at = "sweeping" /\ r.seen = run[p].seen
               /\ r.todo = run[p].todo /\ garbage' = garbage \ {run[p].doomed}
            \/ run[p].at = "sweeping" /\ r.at = "up" /\ UNCHANGED garbage
  <2>1. run[p] \in Runs  BY <1>1 DEF RootsTyped
  <2>2. CASE Delete(p)
    <3> DEFINE r == [run[p] EXCEPT !.at = "sweeping", !.doomed = None]
    <3>1. /\ r \in Runs /\ r.at = "sweeping" /\ r.root = run[p].root /\ r.seen = run[p].seen
          /\ r.todo = run[p].todo
      <4>1. None \in 0..MaxRoots  BY RootsAssumption DEF None
      <4> QED BY <2>1, <4>1 DEF Runs, Places
    <3>2. run' = [run EXCEPT ![p] = r]  BY <1>1, <2>2 DEF RootsTyped, Delete
    <3> QED BY <2>2, <3>1, <3>2 DEF Delete
  <2>3. CASE SweepEnds(p)
    <3> DEFINE r == [run[p] EXCEPT !.at = "up", !.seen = {}]
    <3>1. r \in Runs /\ r.at = "up" /\ r.root = run[p].root  BY <2>1 DEF Runs, Places
    <3>2. run' = [run EXCEPT ![p] = r]  BY <1>1, <2>3 DEF RootsTyped, SweepEnds
    <3> QED BY <2>3, <3>1, <3>2 DEF SweepEnds
  <2> QED BY <2>2, <2>3
<1>3. UNCHANGED <<dir, aged, calm>>  BY DEF Delete, SweepEnds
<1>4. Alive(p)  BY <1>2 DEF Alive
<1>5. run'[p] = r /\ \A q \in Pids \ {p} : run'[q] = run[q]  BY <1>1, <1>2 DEF RootsTyped
<1>6. Existing' = Existing /\ OldAreTorn' /\ \A m : Newer(m)' = Newer(m)
  BY <1>1, <1>3 DEF Existing, OldAreTorn, LockOf, Newer
<1>7. Marked(p)'  BY <1>1, <1>2, <1>3, <1>5 DEF Marked
<1>8. Outlived(p)'  BY <1>1, <1>2, <1>5, <1>6 DEF Outlived
<1>9. Alone(p)'
  <2>1. \A m : Unsure(p, m)' <=> Unsure(p, m)  BY <1>3 DEF Unsure, LockOf
  <2>2. p \in calm => \A q \in Pids \ {p} : ~Alive(q)'
    BY <1>1, <1>4, <1>5 DEF Alone, Alive
  <2>3. CASE r.at = "up"  BY <1>3, <1>5, <2>2, <2>3 DEF Alone
  <2>4. CASE r.at = "sweeping"
    BY <1>1, <1>2, <1>3, <1>4, <1>5, <1>6, <2>1, <2>2, <2>4 DEF Alone
  <2> QED BY <1>2, <2>3, <2>4
<1>10. garbage' \subseteq Numbers  BY <1>1, <1>2 DEF RootsTyped
<1> QED BY <1>1, <1>2, <1>3, <1>4, <1>6, <1>7, <1>8, <1>9, <1>10, RunStep DEF RootsTyped

(* A run that ends leaves its root bare, and one killed leaves it as it was. *)
LEMMA UnlockKeeps == ASSUME RootsInv, NEW p \in Pids, Unlock(p) PROVE RootsInv'
<1>1. RootsTyped /\ OldAreTorn /\ Marked(p)  BY DEF RootsInv
<1> DEFINE n == run[p].root
<1>2. /\ run[p].at = "up" /\ n \in Numbers /\ run' = [run EXCEPT ![p] = Off]
      /\ dir' = [dir EXCEPT ![n] = IF @ = Absent THEN Absent ELSE Bare]
      /\ aged' = aged \ {n} /\ UNCHANGED <<garbage, calm>>
  BY <1>1 DEF Unlock, Marked
<1>3. Alive(p)  BY <1>2 DEF Alive
<1>4. PICK c \in Contents : c = (IF dir[n] = Absent THEN Absent ELSE Bare) /\ dir' = [dir EXCEPT ![n] = c]
  BY <1>2 DEF Contents
<1>5. /\ dir' \in [Numbers -> Contents] /\ dir'[n] = c
      /\ \A m \in Numbers \ {n} : dir'[m] = dir[m]
      /\ OldAreTorn'
  BY <1>1, <1>2, <1>4, DirChanged
<1>6. Existing' = Existing  BY <1>2, <1>4, <1>5, Locks DEF Existing
<1>7. \A m \in Numbers, q \in Pids \ {p} : dir'[m] = Torn(q) => dir[m] = Torn(q)
  BY <1>4, <1>5, Locks
<1>8. Off \in Runs /\ Off.at = "off"
  BY RootsAssumption DEF Off, Runs, Places, None
<1>9. run'[p] = Off  BY <1>1, <1>2 DEF RootsTyped
<1>10. Marked(p)' /\ Outlived(p)' /\ Alone(p)'
  BY <1>8, <1>9 DEF Marked, Outlived, Alone, Alive
<1>11. garbage' \subseteq Numbers /\ aged' \subseteq aged /\ calm' \subseteq Pids
  BY <1>1, <1>2 DEF RootsTyped
<1> QED BY <1>2, <1>3, <1>5, <1>6, <1>7, <1>8, <1>10, <1>11, RunStep

(* Time goes by while nobody starts.                                       *)
LEMMA AgeKeeps == ASSUME RootsInv, Age PROVE RootsInv'
<1>1. RootsTyped /\ OldAreTorn  BY DEF RootsInv
<1>2. PICK n \in Numbers : /\ LockOf(n) = "torn" /\ aged' = aged \cup {n}
                           /\ \A p \in Pids : run[p].at \in {"off", "up"}
                           /\ UNCHANGED <<dir, garbage, run, calm>>
  BY DEF Age
<1>3. RootsTyped' /\ OldAreTorn'  BY <1>1, <1>2 DEF RootsTyped, OldAreTorn, LockOf
<1> SUFFICES ASSUME NEW p \in Pids PROVE Marked(p)' /\ Outlived(p)' /\ Alone(p)'
  BY <1>3 DEF RootsInv
<1>4. Marked(p) /\ Alone(p) /\ run[p].at \in {"off", "up"}  BY <1>2 DEF RootsInv
<1> QED BY <1>2, <1>4 DEF Marked, Outlived, Alone, Alive

-----------------------------------------------------------------------------
(* The invariant, from the first state on and at every step.               *)

(* No run, no root and no test.                                            *)
LEMMA InitIInv == Init => IInv
<1> SUFFICES ASSUME Init PROVE IInv  OBVIOUS
<1>1. /\ dir = [n \in Numbers |-> Absent] /\ garbage = {} /\ aged = {}
      /\ run = [p \in Pids |-> Off] /\ calm = {}
      /\ task = [p \in Pids |-> "none"] /\ child = [p \in Pids |-> "none"]
      /\ file = [p \in Pids |-> "none"] /\ report = [p \in Pids |-> "none"]
  BY DEF Init, RootsInit
<1>2. Off \in Runs /\ Off.at = "off"
  BY RootsAssumption DEF Off, Runs, Places, None
<1>3. RootsInv
  BY <1>1, <1>2 DEF RootsInv, RootsTyped, Contents, OldAreTorn, Marked, Outlived, Alone
<1>4. TasksInv
  BY <1>1 DEF TasksInv, TasksTyped, Fits, Verdicts
<1> QED BY <1>3, <1>4 DEF IInv

(* Every step keeps the invariant.                                         *)
LEMMA NextStep == IInv /\ [Next]_vars => IInv'
<1> SUFFICES ASSUME IInv, [Next]_vars PROVE IInv'  OBVIOUS
<1>1. RootsInv /\ TasksInv  BY DEF IInv
<1>2. UNCHANGED rootVars => RootsInv'
  <2> SUFFICES ASSUME UNCHANGED rootVars PROVE RootsInv'  OBVIOUS
  <2>1. UNCHANGED <<dir, garbage, aged, run, calm>>  BY DEF rootVars
  <2>2. RootsTyped' /\ OldAreTorn'  BY <1>1, <2>1 DEF RootsInv, RootsTyped, OldAreTorn, LockOf
  <2> SUFFICES ASSUME NEW p \in Pids PROVE Marked(p)' /\ Outlived(p)' /\ Alone(p)'
    BY <2>2 DEF RootsInv
  <2>3. Marked(p) /\ Outlived(p) /\ Alone(p)  BY <1>1 DEF RootsInv
  <2>4. Existing' = Existing /\ \A n : (Newer(n)' = Newer(n)) /\ (Unsure(p, n)' <=> Unsure(p, n))
    BY <2>1 DEF Existing, Newer, Unsure, LockOf
  <2>5. Marked(p)' /\ Outlived(p)'  BY <2>1, <2>3, <2>4 DEF Marked, Outlived
  <2>6. Alone(p)'  BY <2>1, <2>3, <2>4 DEF Alone, Alive
  <2> QED BY <2>5, <2>6
<1>3. UNCHANGED isoVars => TasksInv'
  BY <1>1 DEF isoVars, TasksInv, TasksTyped, Fits
<1>4. ASSUME NEW p \in Pids, RootStep(p) PROVE RootsInv'
  BY <1>1, <1>4, ScanKeeps, MakeRootKeeps, OpenLockKeeps, WriteLockKeeps, LookKeeps, DiscardKeeps,
     DeleteKeeps DEF RootStep
<1>5. ASSUME NEW p \in Pids, IsolatedStep(p) PROVE UNCHANGED rootVars
  BY <1>5 DEF IsolatedStep, Spawn, Spawned, ExitSeen, Resumes, Reaped, Cancelled,
              WorkerEnds, WorkerWrites, WorkerExits, WorkerCrashes
<1>6. ASSUME NEW p \in Pids, Ends(p) PROVE IInv'
  BY <1>1, <1>6, UnlockKeeps, IsolatedStepKeeps DEF Ends, IInv
<1>7. ASSUME NEW p \in Pids, Dies(p) PROVE IInv'
  BY <1>1, <1>7, GoneStep, IsolatedStepKeeps DEF Dies, Killed, IInv
<1>8. CASE Age /\ UNCHANGED isoVars  BY <1>1, <1>3, <1>8, AgeKeeps DEF IInv
<1>9. CASE UNCHANGED vars  BY <1>2, <1>3, <1>9 DEF vars, IInv
<1> QED BY <1>1, <1>2, <1>3, <1>4, <1>5, <1>6, <1>7, <1>8, <1>9, IsolatedStepKeeps DEF Next, IInv

(* The inductive invariant.                                                *)
THEOREM Invariance == Spec => []IInv
BY InitIInv, NextStep, PTL DEF Spec

-----------------------------------------------------------------------------
(* What the runs promise each other, and their tests.                      *)

(* The coroutine is over only when its subprocess is, and reports as the   *)
(* test's only what that one wrote, whole, before it exited with 0.        *)
THEOREM TestsSettle == Spec => []IsolatedSettles
<1>1. IInv => IsolatedSettles
  BY DEF IInv, TasksInv, Fits, IsolatedSettles, Verdicts
<1> QED BY <1>1, Invariance, PTL

(* A step moves no run but the one it is of.                               *)
LEMMA OneMoves ==
    ASSUME RootsTyped, Next, NEW p \in Pids, run'[p] # run[p]
    PROVE  RootStep(p) \/ Unlock(p) \/ Killed(p)
<1>1. \A q \in Pids : RootStep(q) \/ Unlock(q) \/ Killed(q) => q = p
  BY DEF RootsTyped, RootStep, Scan, MakeRoot, OpenLock, WriteLock, Look, Discard, Delete, SweepEnds,
         Unlock, Killed
<1>2. \A q \in Pids : ~IsolatedStep(q)
  BY DEF IsolatedStep, Spawn, Spawned, ExitSeen, Resumes, Reaped, Cancelled,
         WorkerEnds, WorkerWrites, WorkerExits, WorkerCrashes, rootVars
<1>3. ~Age  BY DEF Age
<1> QED BY <1>1, <1>2, <1>3 DEF Next, Ends, Dies

(* A root that goes was some run's to discard.                             *)
LEMMA OnlyDiscardsRemove ==
    ASSUME RootsTyped, Next, NEW n \in Existing, n \notin Existing'
    PROVE  \E p \in Pids : Discard(p) /\ n = run[p].doomed
<1>1. n \in Numbers /\ dir[n] # Absent /\ dir'[n] = Absent  BY DEF Existing
<1>2. \A q \in Pids : ~(Scan(q) \/ Look(q) \/ Delete(q) \/ SweepEnds(q) \/ Killed(q) \/ IsolatedStep(q))
  BY <1>1 DEF Scan, Look, Delete, SweepEnds, Killed, IsolatedStep, Spawn, Spawned, ExitSeen, Resumes,
              Reaped, Cancelled, WorkerEnds, WorkerWrites, WorkerExits, WorkerCrashes, rootVars
<1>3. \A q \in Pids : ~(MakeRoot(q) \/ OpenLock(q))
  BY <1>1, Locks DEF MakeRoot, OpenLock, RootsTyped
<1>4. \A q \in Pids : ~(WriteLock(q) \/ Unlock(q))
  BY <1>1, Locks DEF WriteLock, Unlock, RootsTyped
<1>5. ~Age  BY <1>1 DEF Age
<1>6. PICK p \in Pids : Discard(p)  BY <1>2, <1>3, <1>4, <1>5 DEF Next, RootStep, Ends, Dies
<1>7. n = run[p].doomed  BY <1>1, <1>6 DEF Discard, RootsTyped
<1> QED BY <1>6, <1>7

(* No sweep dooms the root of a live run that has opened its lock.         *)
THEOREM LockedAreSpared == Spec => SweepSparesTheLocked
<1> DEFINE Spared == \A p, q \in Pids :
      (run[p].at = "sweeping" /\ run'[p].at = "discarding" /\ run'[p].doomed = run[q].root)
      => ~(run[q].at \notin {"off", "naming", "locking"} /\ MadeBy(run[q].root, q))
<1>1. IInv /\ Next => Spared
  <2> SUFFICES ASSUME IInv, Next, NEW p \in Pids, NEW q \in Pids,
                      run[p].at = "sweeping", run'[p].at = "discarding", run'[p].doomed = run[q].root,
                      run[q].at \notin {"off", "naming", "locking"}, MadeBy(run[q].root, q)
               PROVE  FALSE
    OBVIOUS
  <2> DEFINE n == run[q].root
  <2>1. RootsTyped /\ Marked(q) /\ run[q] \in Runs /\ run[p] \in Runs
    BY DEF IInv, RootsInv, RootsTyped
  <2>2. Look(p)
    <3>1. RootStep(p) \/ Unlock(p) \/ Killed(p)  BY <2>1, OneMoves
    <3>2. ~Killed(p)  BY <2>1 DEF Killed, Off, RootsTyped
    <3>3. ~SweepEnds(p)
      <4>1. SweepEnds(p) => run'[p].at = "up"  BY <2>1 DEF SweepEnds, RootsTyped, Runs
      <4> QED BY <4>1
    <3> QED BY <3>1, <3>2, <3>3 DEF RootStep, Scan, MakeRoot, OpenLock, WriteLock, Discard, Delete, Unlock
  <2>3. ~InUse(n)
    <3>1. PICK m : m = Min(run[p].todo)  OBVIOUS
    <3>2. /\ run' = [run EXCEPT ![p] = [run[p] EXCEPT !.todo = run[p].todo \ {m},
                                     !.at = IF InUse(m) THEN "sweeping" ELSE "discarding",
                                     !.doomed = IF InUse(m) THEN None ELSE m]]
      BY <2>2, <3>1 DEF Look
    <3>3. ~InUse(m)  BY <2>1, <3>2 DEF RootsTyped, Runs
    <3>4. m = n  BY <2>1, <3>2, <3>3 DEF RootsTyped, Runs
    <3> QED BY <3>3, <3>4
  <2>4. LockOf(n) \in {"torn", "pid"} /\ dir[n].by = q /\ Alive(q) /\ n \in Numbers
    BY <2>1 DEF MadeBy, Marked, Alive
  <2>5. LockOf(n) = "torn" /\ n \in aged  BY <2>3, <2>4 DEF InUse
  <2>6. dir[n] = Torn(q)  BY <2>1, <2>4, <2>5, Locks DEF RootsTyped, Contents, LockOf
  <2> QED BY <2>1, <2>5, <2>6 DEF Marked, Runs, Places
<1>2. IInv /\ [Next]_vars => [Spared]_rootVars
  <2>1. UNCHANGED vars => UNCHANGED rootVars  BY DEF vars
  <2> QED BY <1>1, <2>1
<1> QED BY <1>2, Invariance, PTL DEF Spec, SweepSparesTheLocked

(* The newest root and Retention before it survive any number of sweeps.   *)
THEOREM NewestAreKept == Spec => NewestKept
<1> DEFINE Spared == \A n \in Numbers :
      (n \in Existing /\ n \notin Existing') => Cardinality({m \in Existing : m > n}) > Retention
<1>1. IInv /\ Next => Spared
  <2> SUFFICES ASSUME IInv, Next, NEW n \in Existing, n \notin Existing'
               PROVE  Cardinality(Newer(n)) > Retention
    BY DEF Newer
  <2>1. PICK p \in Pids : Discard(p) /\ n = run[p].doomed
    BY OnlyDiscardsRemove DEF IInv, RootsInv
  <2>2. Outlived(p) /\ run[p].at = "discarding"  BY <2>1 DEF IInv, RootsInv, Discard
  <2> QED BY <2>1, <2>2 DEF Outlived
<1>2. IInv /\ [Next]_vars => [Spared]_rootVars
  <2>1. UNCHANGED vars => UNCHANGED rootVars  BY DEF vars
  <2> QED BY <1>1, <2>1
<1> QED BY <1>2, Invariance, PTL DEF Spec, NewestKept

(* A run that nobody came up beside leaves nothing of those that crashed   *)
(* but what no pid tells it is over.                                       *)
THEOREM CrashesAreSwept == Spec => CrashLeavesNothing
<1> DEFINE Swept == \A p \in Pids :
      (run[p].at = "sweeping" /\ run'[p].at = "up" /\ p \in calm)
      => /\ garbage = {}
         /\ \A n \in Existing \ Kept(run[p].seen) :
                n = run[p].root \/ dir[n] = Locked(p) \/ (LockOf(n) = "torn" /\ n \notin aged)
<1>1. IInv /\ Next => Swept
  <2> SUFFICES ASSUME IInv, Next, NEW p \in Pids, run[p].at = "sweeping", run'[p].at = "up", p \in calm
               PROVE  /\ garbage = {}
                      /\ \A n \in Existing \ Kept(run[p].seen) : n = run[p].root \/ Unsure(p, n)
    BY DEF Unsure
  <2>1. RootsTyped /\ Alone(p) /\ Alive(p) /\ run[p] \in Runs
    BY DEF IInv, RootsInv, RootsTyped, Alive
  <2>2. run[p].todo = {}
    <3>1. RootStep(p) \/ Unlock(p) \/ Killed(p)  BY <2>1, OneMoves
    <3>2. ~Killed(p)  BY <2>1 DEF Killed, Off, RootsTyped
    <3>3. ASSUME Look(p) PROVE FALSE
      <4>1. PICK m : m = Min(run[p].todo)  OBVIOUS
      <4>2. run' = [run EXCEPT ![p] = [run[p] EXCEPT !.todo = run[p].todo \ {m},
                                   !.at = IF InUse(m) THEN "sweeping" ELSE "discarding",
                                   !.doomed = IF InUse(m) THEN None ELSE m]]
        BY <3>3, <4>1 DEF Look
      <4>3. run'[p] = [run[p] EXCEPT !.todo = run[p].todo \ {m},
                                     !.at = IF InUse(m) THEN "sweeping" ELSE "discarding",
                                     !.doomed = IF InUse(m) THEN None ELSE m]
        BY <2>1, <4>2 DEF RootsTyped
      <4>4. run'[p].at # "up"  BY <2>1, <4>3 DEF Runs
      <4> QED BY <4>4
    <3> QED BY <3>1, <3>2, <3>3 DEF RootStep, Scan, MakeRoot, OpenLock, WriteLock, Discard, Delete, Unlock,
                                    SweepEnds
  <2> QED BY <2>1, <2>2 DEF Alone
<1>2. IInv /\ [Next]_vars => [Swept]_rootVars
  <2>1. UNCHANGED vars => UNCHANGED rootVars  BY DEF vars
  <2> QED BY <1>1, <2>1
<1> QED BY <1>2, Invariance, PTL DEF Spec, CrashLeavesNothing
=============================================================================
