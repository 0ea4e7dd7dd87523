---------------------------- MODULE Invocations ----------------------------
(***************************************************************************)
(* Invocations of voci that share a rootdir, one after another and at the  *)
(* same time, while the suite is being edited: what each of them selects,  *)
(* runs, and makes of the record of failures (`main`, `_execute` and       *)
(* `_settle` of voci/cli.py, `update` of voci/_cache.py).                  *)
(*                                                                         *)
(* An invocation collects (Begin), has run its tests and read the record   *)
(* again (Settle) and replaces it (Write); it may die at any point, and    *)
(* the tree may change under it.  Nothing is locked.                       *)
(***************************************************************************)
EXTENDS LastFailed

CONSTANTS
    Procs,      \* the invocations that can be under way at once
    Commands,   \* the command lines: a request of Collection and whether --lf is given
    FirstTrees, \* the trees there may be at first
    MaxEdits,   \* bounds the edits
    MaxRuns     \* bounds the invocations

Requests == [lf : BOOLEAN, walks : SUBSET Files, named : BOOLEAN, covers : SUBSET Paths,
             keyword : SUBSET Ids, tagged : SUBSET Tests, names : SUBSET Ids]

ASSUME InvocationsAssumption ==
    Commands \subseteq Requests /\ FirstTrees \subseteq Trees /\ MaxEdits \in Nat /\ MaxRuns \in Nat

VARIABLES
    tree,       \* the suite on disk
    record,     \* .voci_cache/lastfailed.json, Unreadable when nothing can be read there
    run,        \* run[p]: what p knows, [at |-> "idle"] when it is not running
    edits, runs \* how often the tree was edited, a run was begun

vars == <<tree, record, run, edits, runs>>

Unreadable == [lost |-> TRUE]
Readable   == record # Unreadable
\* `load`: no usable file says that nothing is recorded.
Load(rec)  == IF rec = Unreadable THEN Nothing ELSE rec

Idle == [at |-> "idle"]

Init ==
    /\ tree \in FirstTrees
    /\ record = Unreadable
    /\ run = [p \in Procs |-> Idle]
    /\ edits = 0 /\ runs = 0

----------------------------------------------------------------------------
(* What a run works out, as functions of what it holds.                    *)

Empty(last) == last = Nothing

Replays(r) == r.req.lf /\ ~Empty(r.last)

\* _discover, _collect_and_narrow: what a run begun now has in hand.
Begun(req, last) ==
    LET replays   == Replays([req |-> req, last |-> last])
        yielded   == Discovered(tree, req)
        files     == IF replays THEN CandidateFiles(yielded, last) ELSE yielded
        found     == Collect(tree, req, files)
    IN  [at |-> "running", req |-> req, last |-> last, saw |-> tree, files |-> files,
         found |-> found, collected |-> IF replays THEN Select(found, last) ELSE found]

\* The run ends with status 4 before anything runs.
UsageError(r) == ~Replays(r) /\ r.found.errors = {} /\ Unmatched(r.req, r.found) # {}

\* `update`: merged into what the record says now, or said at the start.
Baseline(r) == IF Readable THEN record ELSE r.last

\* _settle, `ran` being the ids whose result is not CANCELLED.
Settled(r, ran) ==
    LET answered == SettledPaths(tree.disk, r.files)
        errored  == ErrorPaths(r.collected.errors, answered)
        gone     == IF Empty(r.last) THEN {}
                    ELSE DeadPaths(tree.disk, r.last, Discovered(r.saw, r.req), r.req)
        produced == {PathOf(id) : id \in r.found.records \cup r.found.skipped}
        known    == ReadFiles(r.files, errored \ produced) \cup gone
    IN  Merge(Baseline(r), ran \cap r.saw.fails, errored,
              ran \cup r.collected.skipped \cup Vanished(r.last, r.found, known),
              answered \cup gone)

----------------------------------------------------------------------------
(* The steps of an invocation.                                             *)

\* A root that is no directory must be there.
Reachable(req) == req.named => \A f \in req.walks : tree.disk[f] # "gone"

Begin(p) == \E command \in Commands :
    LET r == Begun(command, Load(record))
    IN  /\ run[p].at = "idle" /\ runs < MaxRuns
        /\ Reachable(command) /\ ~UsageError(r)
        /\ run' = [run EXCEPT ![p] = r]
        /\ runs' = runs + 1
        /\ UNCHANGED <<tree, record, edits>>

\* --maxfail or a Ctrl-C may have left any of the planned tests unanswered.
Settle(p) == run[p].at = "running" /\ \E ran \in SUBSET run[p].collected.records :
    LET r == run[p]
    IN  /\ run' = [run EXCEPT ![p] =
                     [at |-> "writing", req |-> r.req, last |-> r.last, saw |-> r.saw,
                      files |-> r.files, collected |-> r.collected, ran |-> ran,
                      fresh |-> Baseline(r), disk |-> tree.disk, merged |-> Settled(r, ran)]]
        /\ UNCHANGED <<tree, record, edits, runs>>

Write(p) ==
    /\ run[p].at = "writing"
    /\ record' = run[p].merged
    /\ run' = [run EXCEPT ![p] = Idle]
    /\ UNCHANGED <<tree, edits, runs>>

\* It is killed, or what it writes cannot be put in place.
Die(p) ==
    /\ run[p].at # "idle"
    /\ run' = [run EXCEPT ![p] = Idle]
    /\ UNCHANGED <<tree, record, edits, runs>>

----------------------------------------------------------------------------
(* What happens to the rootdir.                                            *)

Edited(next) ==
    /\ edits < MaxEdits /\ edits' = edits + 1
    /\ runs > 0  \* a bound: before the first run, an edit is another first tree
    /\ tree' = next /\ next # tree
    /\ UNCHANGED <<record, run, runs>>

EditFile == \/ \E f \in Files, state \in {"gone", "hidden", "broken", "fine"} :
                  Edited([tree EXCEPT !.disk[f] = state])
            \/ \E i \in Inits, state \in {"gone", "broken", "fine"} :
                  Edited([tree EXCEPT !.disk[i] = state])

EditTest == \E t \in Tests, s \in Shapes :
    /\ s = "cased" => CasesOf[t] # {}
    /\ Edited([tree EXCEPT !.shape[t] = s])

EditBody == \E id \in Ids :
    \/ Edited([tree EXCEPT !.fails = @ \cup {id}])
    \/ Edited([tree EXCEPT !.fails = @ \ {id}])

EditHelper == Edited([tree EXCEPT !.misplaced = ~@])

\* The directory is cleaned, or its file cannot be parsed.
LoseRecord ==
    /\ Readable /\ edits < MaxEdits /\ edits' = edits + 1
    /\ record' = Unreadable
    /\ UNCHANGED <<tree, run, runs>>

Next ==
    \/ \E p \in Procs : Begin(p) \/ Settle(p) \/ Write(p) \/ Die(p)
    \/ EditFile \/ EditTest \/ EditBody \/ EditHelper \/ LoseRecord

Spec == Init /\ [][Next]_vars

----------------------------------------------------------------------------
(* Properties.                                                             *)

Writes(p) == run[p].at = "writing" /\ run'[p].at = "idle" /\ record' = run[p].merged

\* The test stands in a file p could read, and its id is one p could have built.
Exists(r, id) ==
    LET t == Function(id)
    IN  /\ FileOf[t] \in Discovered(r.saw, r.req) /\ Importable(r.saw.disk, FileOf[t])
        /\ r.saw.shape[t] \notin {"absent", "bad"} /\ id \in Expansion(r.saw, t)

\* The packages above f are not the ones they were when p collected it.
Unpacked(r, f) == Chain(r.saw.disk, f) # Chain(r.disk, f)

\* A run takes a failure out of the record only for a reason: it ran the test,
\* or met it as skipped; its file was read and the id is no more; its file is
\* gone, or out of what discovery yields where the run looked.  In every other
\* case, whatever the request, the edits under the run and the tests it never
\* got to, --lf still replays it after the write: by its id, with its file, or
\* with the tree of a broken package (`_settle`, cli.py:953-1022).
NoFailureForgotten == [][\A p \in Procs : Writes(p) =>
    \A id \in run[p].fresh.failed :
        LET r == run[p]  f == PathOf(id)  t == Function(id)
        IN  \/ Names(record', id)
            \/ id \in r.ran
            \/ r.saw.shape[t] = "skip" /\ f \in r.files
            \/ f \in r.files /\ Importable(r.saw.disk, f) /\ ~Exists(r, id)
            \/ r.disk[f] = "gone"
            \/ f \in r.req.covers \ Discovered(r.saw, r.req)
            \/ Unpacked(r, f)]_vars

\* A path leaves `error_files` only when collection read it without that error,
\* when a broken package above stands for it, or when nothing can hand it to
\* collection any more: clearing is by evidence, not by having been asked for.
NoErrorForgotten == [][\A p \in Procs : Writes(p) =>
    \A path \in run[p].fresh.errors \ record'.errors :
        LET r == run[p]
        IN  \/ r.disk[path] = "gone"
            \/ path \in r.req.covers \ Discovered(r.saw, r.req)
            \/ \E f \in r.files :
                  \/ path = f /\ Importable(r.saw.disk, f)
                  \/ path \in Chain(r.saw.disk, f) /\ Blockers(r.saw.disk, f) = {}
                  \/ /\ path \in {f} \cup Chain(r.saw.disk, f)
                     /\ Blockers(r.saw.disk, f) \cap record'.errors # {}
                  \/ Unpacked(r, f)]_vars

\* Nothing wedges --lf: when a run over the whole tree, --lf or not, gets to
\* all of its tests, with no other run writing and nobody editing meanwhile,
\* and nothing fails, the record is empty after it, whatever was recorded of
\* tests and files that have since been renamed, moved, ignored or skipped
\* (rationale/cache.md, "every entry the cache accepts is one some run can take
\* back out").
GreenRunClears == [][\A p \in Procs :
    LET r == run[p]
    IN  /\ Writes(p) /\ r.fresh = r.last /\ r.disk = r.saw.disk
        /\ r.req.covers = Paths
        /\ r.req.keyword = Ids /\ r.req.tagged = Tests /\ r.req.names = {}
        /\ r.ran = r.collected.records /\ r.ran \cap r.saw.fails = {}
        /\ r.collected.errors \subseteq {Helper}
        => record' = Nothing]_vars

\* --lf narrows the files before it collects them and never loses by it: the
\* tests it keeps, and the files it reports as broken among those recorded, are
\* the ones it would keep had it collected every file (cli.py:1388-1445).
NarrowingLosesNothing == \A p \in Procs : run[p].at = "running" =>
    LET r == run[p]  all == Collect(r.saw, r.req, Discovered(r.saw, r.req))
    IN  Replays(r) =>
          /\ r.collected.records = {id \in all.records : Names(r.last, id)}
          /\ r.collected.skipped = {id \in all.skipped : Names(r.last, id)}
          /\ \A path \in all.errors \cap Paths :
                 (path \in r.last.errors /\ path \in SettledPaths(r.saw.disk, r.files))
                 => path \in r.collected.errors
=============================================================================
