------------------------------ MODULE Outcomes ------------------------------
(***************************************************************************)
(* How voci/_run/run.py folds what a test's phases did into one `Outcome`, *)
(* and a run's outcomes into an exit code.  Pure operators; Session and    *)
(* the reports of a run are built on them.                                 *)
(***************************************************************************)

Outcome == {"passed", "failed", "error", "skipped", "timeout", "xfailed", "xpassed",
            "cancelled"}

FAILING_OUTCOMES == {"failed", "error", "timeout"}

(* What a phase of a test can come to.  "expected" is a call failure the   *)
(* test's xfail mark expects; "none" is a phase that never ended.          *)
SetupEnds_    == {"none", "ok", "failed", "skipped"}
CallEnds_     == {"none", "passed", "expected", "failed", "skipped"}
TeardownEnds_ == {"ok", "failed"}

(* _resolve_call_outcome; xfail is "none", "lenient" or "strict". *)
ResolveCallOutcome(call, xfail) ==
    CASE call = "failed"   -> "failed"
      [] call = "expected" -> "xfailed"
      [] OTHER -> CASE xfail = "none"    -> "passed"
                    [] xfail = "strict"  -> "failed"
                    [] xfail = "lenient" -> "xpassed"

(* A bug of _resolve_outcome: the stop is asked for before the deadline.   *)
ResolveOutcome_StopFirst(f, xfail) ==
    CASE f.cancelled                                  -> "cancelled"
      [] ~f.cancelled /\ f.expired                    -> "timeout"
      [] ~f.cancelled /\ ~f.expired /\ f.setup = "failed" -> "error"
      [] OTHER -> IF f.teardown = "failed" THEN "error"
                  ELSE IF "skipped" \in {f.setup, f.call} THEN "skipped"
                  ELSE ResolveCallOutcome(f.call, xfail)

(* _resolve_outcome: timed out, then cancelled, then setup, then teardown, *)
(* then a skip, and only then the call reread through the xfail mark.      *)
ResolveOutcome(f, xfail) ==
    LET clean == ~f.expired /\ ~f.cancelled
        sound == clean /\ f.setup # "failed" /\ f.teardown # "failed"
        skips == "skipped" \in {f.setup, f.call}
    IN  CASE f.expired                     -> "timeout"
          [] ~f.expired /\ f.cancelled     -> "cancelled"
          [] clean /\ "failed" \in {f.setup, f.teardown} -> "error"
          [] sound /\ skips                -> "skipped"
          [] sound /\ ~skips               -> ResolveCallOutcome(f.call, xfail)

(* exit_code_for, over the outcomes a run returned: R, with no collection  *)
(* error and no collection-time skip.                                      *)
ExitCodeFor(R) ==
    IF R = {} THEN 5 ELSE IF R \cap FAILING_OUTCOMES # {} THEN 1 ELSE 0
=============================================================================
