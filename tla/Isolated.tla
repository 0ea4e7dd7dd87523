------------------------------ MODULE Isolated ------------------------------
(***************************************************************************)
(* Runs that hold a session root each, and in it the test marked isolated  *)
(* that some of them give a subprocess of its own (`run_isolated` of       *)
(* voci/_run/isolated.py, with voci/_run/_isolated_worker.py on the other  *)
(* side): they share a pair of files and an exit code, either side may die *)
(* at any point, and the coroutine may be cancelled at each of its awaits. *)
(***************************************************************************)
EXTENDS SessionRoots

CONSTANTS
    Isolating,   \* the runs with an isolated test
    MaxCancels   \* bounds the cancellations of that test's task

VARIABLES
    task,     \* task[p]: where the coroutine stands
    child,    \* child[p]: "none", "running", "exited" with code 0, "crashed"
    file,     \* file[p]: the result file, "none", "torn" or what the test came to
    report,   \* report[p]: what the coroutine returned
    cancels

isoVars == <<task, child, file, report, cancels>>
vars    == <<rootVars, isoVars>>

Verdicts == {"passed", "failed"}
Over(p)  == task[p] \in {"none", "returned", "raised"}

Init ==
    /\ RootsInit
    /\ task = [p \in Pids |-> "none"] /\ child = [p \in Pids |-> "none"]
    /\ file = [p \in Pids |-> "none"] /\ report = [p \in Pids |-> "none"]
    /\ cancels = 0

Sets(p, t, c) == task' = [task EXCEPT ![p] = t] /\ child' = [child EXCEPT ![p] = c]

\* The subprocess runs from inside the await that waits for its transport.
Spawn(p) ==
    /\ run[p].at = "up" /\ p \in Isolating /\ task[p] = "none"
    /\ Sets(p, "spawning", "running")
    /\ UNCHANGED <<rootVars, file, report, cancels>>

Spawned(p) ==
    /\ task[p] = "spawning"
    /\ Sets(p, "talking", child[p])
    /\ UNCHANGED <<rootVars, file, report, cancels>>

----------------------------------------------------------------------------
(* The subprocess.                                                         *)

\* The test has run; write_text has made the file.
WorkerEnds(p) ==
    /\ child[p] = "running" /\ file[p] = "none"
    /\ file' = [file EXCEPT ![p] = "torn"]
    /\ UNCHANGED <<rootVars, task, child, report, cancels>>

WorkerWrites(p) ==
    /\ child[p] = "running" /\ file[p] = "torn"
    /\ \E v \in Verdicts : file' = [file EXCEPT ![p] = v]
    /\ UNCHANGED <<rootVars, task, child, report, cancels>>

WorkerExits(p) ==
    /\ child[p] = "running" /\ file[p] \in Verdicts
    /\ Sets(p, task[p], "exited")
    /\ UNCHANGED <<rootVars, file, report, cancels>>

\* At any point, also once it has written.
WorkerCrashes(p) ==
    /\ child[p] = "running"
    /\ Sets(p, task[p], "crashed")
    /\ UNCHANGED <<rootVars, file, report, cancels>>

----------------------------------------------------------------------------
(* The coroutine.                                                          *)

\* The loop has seen the exit and closed the transport; communicate() is to resume.
ExitSeen(p) ==
    /\ task[p] = "talking" /\ child[p] # "running"
    /\ Sets(p, "woken", child[p])
    /\ UNCHANGED <<rootVars, file, report, cancels>>

\* MUTANT of Shipped: the exit code is not looked at.
Shipped_AnyExit(p) == IF file[p] \in Verdicts THEN file[p] ELSE "error"

\* The result file counts when the exit code is 0, and it can be read.
Shipped(p) == IF child[p] = "exited" /\ file[p] \in Verdicts THEN file[p] ELSE "error"

Returns(p, r) ==
    /\ Sets(p, "returned", child[p])
    /\ report' = [report EXCEPT ![p] = r]

Resumes(p) ==
    /\ task[p] = "woken"
    /\ Returns(p, Shipped(p))
    /\ UNCHANGED <<rootVars, file, cancels>>

\* proc.wait() of one that was killed.
Reaped(p) ==
    /\ task[p] = "killing"
    /\ Returns(p, "error")
    /\ UNCHANGED <<rootVars, file, cancels>>

Killing(p) == IF child[p] = "running" THEN "crashed" ELSE child[p]

\* A stop, or a sibling's interrupt.  While it is being spawned asyncio kills
\* the subprocess and lets the cancellation through; proc.kill() raises when the
\* transport is closed already; a second one ends the wait for the killed.
Cancelled(p) ==
    /\ cancels < MaxCancels /\ cancels' = cancels + 1
    /\ \/ task[p] = "talking" /\ Sets(p, "killing", Killing(p))
       \/ task[p] \in {"spawning", "woken", "killing"} /\ Sets(p, "raised", Killing(p))
    /\ UNCHANGED <<rootVars, file, report>>

----------------------------------------------------------------------------

\* The run ends once the task has, and another may come by its pid.
Forgets(p) ==
    /\ Sets(p, "none", "none")
    /\ file' = [file EXCEPT ![p] = "none"] /\ report' = [report EXCEPT ![p] = "none"]
    /\ UNCHANGED cancels

Ends(p) == Over(p) /\ Unlock(p) /\ Forgets(p)
Dies(p) == Killed(p) /\ Forgets(p)

IsolatedStep(p) ==
    \/ Spawn(p) \/ Spawned(p) \/ ExitSeen(p) \/ Resumes(p) \/ Reaped(p) \/ Cancelled(p)
    \/ WorkerEnds(p) \/ WorkerWrites(p) \/ WorkerExits(p) \/ WorkerCrashes(p)

Next ==
    \/ \E p \in Pids : \/ RootStep(p) /\ UNCHANGED isoVars
                       \/ IsolatedStep(p) \/ Ends(p) \/ Dies(p)
    \/ Age /\ UNCHANGED isoVars

Spec == Init /\ [][Next]_vars

----------------------------------------------------------------------------
(* Properties.                                                             *)

\* The coroutine is not over before its subprocess is, and what it returns as
\* the test's verdict is the one the subprocess wrote, whole, before it exited
\* with 0: neither a cancellation nor a crash after the write leaves a process
\* behind or reports a pass (isolated.py:192-234).
IsolatedSettles == \A p \in Pids :
    /\ task[p] \in {"returned", "raised"} => child[p] \in {"exited", "crashed"}
    /\ report[p] \in Verdicts => child[p] = "exited" /\ file[p] = report[p]
=============================================================================
