---------------------------- MODULE SessionRoots ----------------------------
(***************************************************************************)
(* The numbered directories under one user's temporary directory that runs *)
(* of voci keep their tmp_path trees in (voci/_builtins/capture.py).  Every *)
(* run makes one, locks it, and sweeps those of runs that are over; several *)
(* do so at once, nothing but mkdir, rename and a lock file between them,   *)
(* and any of them may be killed.  A run is named by its pid, which the     *)
(* system may give again to a later one.                                   *)
(***************************************************************************)
EXTENDS Naturals, FiniteSets, FiniteSetsExt

CONSTANTS
    Pids,
    Retention,  \* how many of the previous roots a sweep leaves alone
    MaxRoots    \* bounds the numbers

ASSUME RootsAssumption == Retention \in Nat /\ MaxRoots \in Nat \ {0}

VARIABLES
    dir,      \* dir[n]: voci-<n>, and the lock in it with the run that made it
    garbage,  \* the numbers of the roots renamed to be deleted
    aged,     \* the roots whose lock is older than LOCK_STALE_AFTER
    run,      \* run[p]: where the run p stands
    calm      \* the runs that no other one was up beside, since they looked around

rootVars == <<dir, garbage, aged, run, calm>>

Numbers == 0..(MaxRoots - 1)
None    == MaxRoots  \* no root

Absent     == [lock |-> "absent"]           \* not even the directory
Bare       == [lock |-> "bare"]             \* the directory, and no lock in it
Torn(p)    == [lock |-> "torn", by |-> p]   \* the lock, and no pid in it yet
Locked(p)  == [lock |-> "pid", by |-> p]
LockOf(n)  == dir[n].lock
MadeBy(n, p) == LockOf(n) \in {"torn", "pid"} /\ dir[n].by = p

Off == [at |-> "off", root |-> None, seen |-> {}, todo |-> {}, doomed |-> None]

Alive(p)    == run[p].at # "off"
Existing    == {n \in Numbers : dir[n] # Absent}

RootsInit ==
    /\ dir = [n \in Numbers |-> Absent]
    /\ garbage = {} /\ aged = {}
    /\ run = [p \in Pids |-> Off]
    /\ calm = {}

----------------------------------------------------------------------------
(* _allocate_session_root.                                                 *)

\* parent.iterdir(), and what others left of a deletion goes.
Scan(p) ==
    /\ run[p].at = "off"
    /\ run' = [run EXCEPT ![p] = [Off EXCEPT !.at = "naming", !.seen = Existing,
                                    !.root = IF Existing = {} THEN 0 ELSE Max(Existing) + 1]]
    /\ garbage' = {}
    /\ calm' = IF \E q \in Pids : Alive(q) THEN {} ELSE {p}
    /\ UNCHANGED <<dir, aged>>

\* mkdir: the next number when another run took this one.
MakeRoot(p) ==
    LET n == run[p].root
    IN  /\ run[p].at = "naming" /\ n \in Numbers
        /\ IF dir[n] # Absent
           THEN run' = [run EXCEPT ![p].root = n + 1] /\ UNCHANGED dir
           ELSE run' = [run EXCEPT ![p].at = "locking"] /\ dir' = [dir EXCEPT ![n] = Bare]
        /\ UNCHANGED <<garbage, aged, calm>>

\* write_text makes the file before there is a pid in it, and fails when the
\* directory was swept meanwhile.
OpenLock(p) ==
    LET n == run[p].root
    IN  /\ run[p].at = "locking"
        /\ IF dir[n] = Absent
           THEN run' = [run EXCEPT ![p] = Off] /\ UNCHANGED dir
           ELSE run' = [run EXCEPT ![p].at = "writing"] /\ dir' = [dir EXCEPT ![n] = Torn(p)]
        /\ UNCHANGED <<garbage, aged, calm>>

\* MUTANT of Kept: `existing[-retention + 1:]`.
Kept_OneShort(seen) == {n \in seen : Cardinality({m \in seen : m > n}) + 1 < Retention}

\* `existing[-retention:]`: the last of those it saw.
Kept(seen) == {n \in seen : Cardinality({m \in seen : m > n}) < Retention}

\* The pid goes into the file that was opened, wherever it is now; the marker
\* goes by the path, and fails when there is nothing there.
WriteLock(p) ==
    LET n == run[p].root
    IN  /\ run[p].at = "writing"
        /\ dir' = [dir EXCEPT ![n] = IF @ = Torn(p) THEN Locked(p) ELSE @]
        /\ run' = [run EXCEPT ![p] = IF dir[n] = Absent THEN Off
                                     ELSE [@ EXCEPT !.at = "sweeping",
                                                    !.todo = run[p].seen \ Kept(run[p].seen)]]
        /\ UNCHANGED <<garbage, aged, calm>>

\* MUTANTS of InUse: what has no pid to read is over; only the age counts.
InUse_PidOnly(n) == LockOf(n) = "pid" /\ Alive(dir[n].by)
InUse_ByAge(n)   == LockOf(n) \in {"torn", "pid"} /\ n \notin aged

\* _is_in_use.  A pid that cannot be read says nothing: the age decides.
InUse(n) ==
    \/ LockOf(n) = "pid" /\ Alive(dir[n].by)
    \/ LockOf(n) = "torn" /\ n \notin aged

Look(p) ==
    /\ run[p].at = "sweeping" /\ run[p].todo # {}
    /\ LET n == Min(run[p].todo)
       IN  run' = [run EXCEPT ![p] = [@ EXCEPT !.todo = run[p].todo \ {n},
                                               !.at = IF InUse(n) THEN "sweeping" ELSE "discarding",
                                               !.doomed = IF InUse(n) THEN None ELSE n]]
    /\ UNCHANGED <<dir, garbage, aged, calm>>

\* The rename; another sweeper may have been first.
Discard(p) ==
    LET n == run[p].doomed
    IN  /\ run[p].at = "discarding"
        /\ dir' = [dir EXCEPT ![n] = Absent]
        /\ aged' = aged \ {n}
        /\ IF dir[n] = Absent
           THEN run' = [run EXCEPT ![p].at = "sweeping", ![p].doomed = None] /\ UNCHANGED garbage
           ELSE run' = [run EXCEPT ![p].at = "deleting"] /\ garbage' = garbage \cup {n}
        /\ UNCHANGED calm

Delete(p) ==
    /\ run[p].at = "deleting"
    /\ garbage' = garbage \ {run[p].doomed}
    /\ run' = [run EXCEPT ![p].at = "sweeping", ![p].doomed = None]
    /\ UNCHANGED <<dir, aged, calm>>

SweepEnds(p) ==
    /\ run[p].at = "sweeping" /\ run[p].todo = {}
    /\ run' = [run EXCEPT ![p].at = "up", ![p].seen = {}]
    /\ UNCHANGED <<dir, garbage, aged, calm>>

\* `uninstall`: the lock goes, whoever's it is by now; the artifacts stay.
Unlock(p) ==
    LET n == run[p].root
    IN  /\ run[p].at = "up"
        /\ dir' = [dir EXCEPT ![n] = IF @ = Absent THEN Absent ELSE Bare]
        /\ aged' = aged \ {n}
        /\ run' = [run EXCEPT ![p] = Off]
        /\ UNCHANGED <<garbage, calm>>

\* Killed: not even atexit runs.
Killed(p) ==
    /\ Alive(p)
    /\ run' = [run EXCEPT ![p] = Off]
    /\ UNCHANGED <<dir, garbage, aged, calm>>

\* Three days go by over a lock cut short, and no run takes that long to start.
Age == \E n \in Numbers :
    /\ LockOf(n) = "torn" /\ n \notin aged
    /\ \A p \in Pids : run[p].at \in {"off", "up"}
    /\ aged' = aged \cup {n}
    /\ UNCHANGED <<dir, garbage, run, calm>>

RootStep(p) ==
    \/ Scan(p) \/ MakeRoot(p) \/ OpenLock(p) \/ WriteLock(p)
    \/ Look(p) \/ Discard(p) \/ Delete(p) \/ SweepEnds(p)

----------------------------------------------------------------------------
(* Properties.                                                             *)

\* A sweep never dooms the root of a live run that has so much as opened its
\* lock, whatever was killed, reused a pid or is being written at that moment
\* (capture.py:498-510).  Before that, between its mkdir and its lock, a run
\* has nothing but the newer roots' being fewer than Retention to protect it.
SweepSparesTheLocked == [][\A p, q \in Pids :
    (run[p].at = "sweeping" /\ run'[p].at = "discarding" /\ run'[p].doomed = run[q].root)
    => ~(run[q].at \notin {"off", "naming", "locking"} /\ MadeBy(run[q].root, q))]_rootVars

\* However many sweep at once, each by what it saw when it began, the newest
\* root and `Retention` before it survive: one goes only while more than that
\* many newer ones stand (capture.py:559-563).
NewestKept == [][\A n \in Numbers :
    (n \in Existing /\ n \notin Existing')
    => Cardinality({m \in Existing : m > n}) > Retention]_rootVars

\* What runs that were killed leave behind does not pile up: a run that was
\* alone from its first look on leaves its own root, those retained, and the
\* ones no pid can tell it are over -- a lock cut short that is not old yet, and
\* the lock of a dead run whose pid is its own (capture.py:476-510, 533-538).
CrashLeavesNothing == [][\A p \in Pids :
    (run[p].at = "sweeping" /\ run'[p].at = "up" /\ p \in calm)
    => /\ garbage = {}
       /\ \A n \in Existing \ Kept(run[p].seen) :
              n = run[p].root \/ dir[n] = Locked(p) \/ (LockOf(n) = "torn" /\ n \notin aged)]_rootVars
=============================================================================
