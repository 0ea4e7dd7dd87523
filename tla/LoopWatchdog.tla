---------------------------- MODULE LoopWatchdog ----------------------------
(***************************************************************************)
(* The watchdog of voci/_run/safety.py: the loop leaves a heartbeat, and a *)
(* daemon thread reads it and says what holds the loop.  Two threads share *)
(* _beat and _stalled_at without a lock, so that every read and write of   *)
(* them is an action.                                                      *)
(*                                                                         *)
(* Times are counted from now: age is how old the heartbeat is, timer and  *)
(* poll how long until the loop's timer and the thread's wait are due.     *)
(* What a thread does between two waits takes no time, and a test may hold *)
(* the loop for any time.                                                  *)
(***************************************************************************)
EXTENDS Naturals, FiniteSetsExt

CONSTANTS
    Threshold,  \* the age at which the loop counts as blocked, more than
    Interval    \* the time between two heartbeats, and between two looks at them

\* Where an age stops counting.
Cap == Threshold + Interval

VARIABLES
    loop,       \* the loop's thread: free, held by a test, or within _tick
    timer,      \* until the loop's next heartbeat is due
    age,        \* of _beat
    stalled,    \* whether _stalled_at is set
    watch,      \* the daemon thread: waiting, within _watch, or ended
    poll,       \* until its wait is over
    done,       \* the event _done
    said        \* what was last reported

vars == <<loop, timer, age, stalled, watch, poll, done, said>>

\* start, from inside the loop.
Init ==
    /\ loop = "free" /\ timer = Interval /\ age = 0
    /\ watch = "waiting" /\ poll = Interval
    /\ stalled = FALSE /\ done = FALSE /\ said = "nothing"

----------------------------------------------------------------------------
(* _tick, on the loop: what was stalled is cleared, and told, before the   *)
(* new heartbeat is left.                                                  *)

Due == loop = "free" /\ timer = 0 /\ ~done

Tick ==
    /\ Due
    /\ loop' = IF stalled THEN "clears" ELSE "beats"
    /\ UNCHANGED <<timer, age, stalled, watch, poll, done, said>>

Clear ==
    /\ loop = "clears" /\ loop' = "tells" /\ stalled' = FALSE
    /\ UNCHANGED <<timer, age, watch, poll, done, said>>

Tell ==
    /\ loop = "tells" /\ loop' = "beats" /\ said' = "running again"
    /\ UNCHANGED <<timer, age, stalled, watch, poll, done>>

Beat ==
    /\ loop = "beats" /\ loop' = "free" /\ age' = 0 /\ timer' = Interval
    /\ UNCHANGED <<stalled, watch, poll, done, said>>

\* A test, or a fixture, calls what blocks, and returns.
Hold ==
    /\ \/ loop = "free" /\ loop' = "held"
       \/ loop = "held" /\ loop' = "free"
    /\ UNCHANGED <<timer, age, stalled, watch, poll, done, said>>

----------------------------------------------------------------------------
(* _watch, on its thread.                                                  *)

Expired == watch = "waiting" /\ (poll = 0 \/ done)

ReadBeat ==
    /\ Expired
    /\ IF done THEN watch' = "ended" /\ UNCHANGED poll
       ELSE IF age < Threshold THEN poll' = Interval /\ UNCHANGED watch
       ELSE watch' = "looks" /\ UNCHANGED poll
    /\ UNCHANGED <<loop, timer, age, stalled, done, said>>

ReadStalled ==
    /\ watch = "looks"
    /\ IF stalled THEN watch' = "waiting" /\ poll' = Interval
       ELSE watch' = "marks" /\ UNCHANGED poll
    /\ UNCHANGED <<loop, timer, age, stalled, done, said>>

Mark ==
    /\ watch = "marks" /\ watch' = "reports" /\ stalled' = TRUE
    /\ UNCHANGED <<loop, timer, age, poll, done, said>>

Report ==
    /\ watch = "reports" /\ watch' = "waiting" /\ poll' = Interval /\ said' = "blocked"
    /\ UNCHANGED <<loop, timer, age, stalled, done>>

----------------------------------------------------------------------------
\* stop, once all tests are done: the timer is cancelled, the thread joined.
Stop ==
    /\ loop = "free" /\ ~done /\ done' = TRUE
    /\ UNCHANGED <<loop, timer, age, stalled, watch, poll, said>>

\* Time passes when no thread has anything to do.
Earlier(n) == IF n = 0 THEN 0 ELSE n - 1
Elapse ==
    /\ loop \in {"free", "held"} /\ ~Due
    /\ watch \in {"waiting", "ended"} /\ ~Expired
    /\ age' = Min({age + 1, Cap}) /\ timer' = Earlier(timer) /\ poll' = Earlier(poll)
    /\ UNCHANGED <<loop, stalled, watch, done, said>>

Next == Tick \/ Clear \/ Tell \/ Beat \/ Hold \/ ReadBeat \/ ReadStalled \/ Mark \/ Report \/ Stop \/ Elapse

Spec == Init /\ [][Next]_vars

----------------------------------------------------------------------------
\* "Warn when the event loop has been blocked this long, naming the call
\* holding it" (docs/reference/cli.md:153): once a call has held the loop for
\* a threshold and a look more, what was said last is that it is blocked
\* (safety.py:199-223).
HangNamed ==
    (loop = "held" /\ age = Cap /\ watch = "waiting" /\ ~Expired) => said = "blocked"
=============================================================================
