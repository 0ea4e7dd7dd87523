-------------------------- MODULE CollectionIndex --------------------------
(***************************************************************************)
(* The collection index: what each file collected when it was last         *)
(* imported, under the modification time and size it has when the run      *)
(* ends, and what `--collect-only` answers from it without importing       *)
(* anything (voci/_collection/index.py and its callers in voci/cli.py).    *)
(* Runs overlap, may die, and the suite is edited meanwhile.               *)
(***************************************************************************)
EXTENDS Collection

CONSTANTS
    Procs,      \* the runs that can be under way at once
    Requests,   \* what command lines ask for
    FirstTrees, \* the trees there may be at first
    MaxEdits,   \* bounds the edits
    MaxRuns     \* bounds the runs

VARIABLES
    tree,       \* the suite on disk
    stamp,      \* stamp[f]: the modification time and size of f, as a count of its edits
    index,      \* .voci_cache/collection.json: index[f], or NoEntry
    run,        \* run[p]: what p has collected, Idle when it is not running
    edits, runs \* how often the suite was edited, a run was begun

vars == <<tree, stamp, index, run, edits, runs>>

NoEntry == [stamp |-> 0, ids |-> {}, skipped |-> {}]
Idle    == [at |-> "idle"]

Init ==
    /\ tree \in FirstTrees
    /\ stamp = [f \in Files |-> 1]
    /\ index = [f \in Files |-> NoEntry]
    /\ run = [p \in Procs |-> Idle]
    /\ edits = 0 /\ runs = 0

----------------------------------------------------------------------------
(* What an index answers, and what a run makes of one.                     *)

\* -k, -m and named ids ask for something the index does not hold.
Narrowed(req) == req.keyword # Ids \/ req.tagged # Tests \/ req.names # {}

Answers(req) == ~Narrowed(req) /\ \A f \in Discovered(tree, req) : index[f].stamp = stamp[f]

Answer(req) == [records |-> UNION {index[f].ids : f \in Discovered(tree, req)},
                skipped |-> UNION {index[f].skipped : f \in Discovered(tree, req)},
                errors  |-> {}]

\* A file that errored, or sits under a package that did.
Dead(r) == r.found.errors \cup {f \in r.files : Chain(tree.disk, f) \cap r.found.errors # {}}

\* Statted now, whatever was imported then.
FreshEntry(r, f) == [stamp   |-> stamp[f],
                     ids     |-> {id \in r.found.records : PathOf(id) = f},
                     skipped |-> {id \in r.found.skipped : PathOf(id) = f}]

Refreshed(r, previous) == [f \in Files |->
    IF f \in r.files \ Dead(r) /\ tree.disk[f] # "gone" THEN FreshEntry(r, f)
    ELSE IF f \in Dead(r) \/ f \in r.req.covers \ r.discovered THEN NoEntry
    ELSE previous[f]]

\* Re-read at the write, and laid over what was read at the start.
Latest(r) == [f \in Files |-> IF index[f] # NoEntry THEN index[f] ELSE r.previous[f]]

----------------------------------------------------------------------------
(* Runs.                                                                   *)

Reachable(req) == req.named => \A f \in req.walks : tree.disk[f] # "gone"

\* --lf and --affected narrow the files to any of those discovered.
Begin(p) == \E req \in Requests : \E files \in SUBSET Discovered(tree, req) :
    LET found == Collect(tree, req, files)
    IN  /\ run[p] = Idle /\ runs < MaxRuns
        /\ Reachable(req) /\ Unmatched(req, found) = {}
        /\ run' = [run EXCEPT ![p] =
                     [at |-> "running", req |-> req, files |-> files, found |-> found,
                      discovered |-> Discovered(tree, req), previous |-> index]]
        /\ runs' = runs + 1
        /\ UNCHANGED <<tree, stamp, index, edits>>

\* The last thing a run does, after its tests.
Finish(p) ==
    LET r == run[p]
    IN  /\ r # Idle
        /\ index' = IF Narrowed(r.req) THEN index ELSE Refreshed(r, Latest(r))
        /\ run' = [run EXCEPT ![p] = Idle]
        /\ UNCHANGED <<tree, stamp, edits, runs>>

Die(p) ==
    /\ run[p] # Idle
    /\ run' = [run EXCEPT ![p] = Idle]
    /\ UNCHANGED <<tree, stamp, index, edits, runs>>

----------------------------------------------------------------------------
(* Edits.                                                                  *)

Edited(next, touched) ==
    /\ edits < MaxEdits /\ edits' = edits + 1
    /\ tree' = next /\ next # tree
    /\ stamp' = [f \in Files |-> IF f \in touched THEN stamp[f] + 1 ELSE stamp[f]]
    /\ UNCHANGED <<index, run, runs>>

EditFile == \E f \in Files, state \in {"gone", "hidden", "broken", "fine"} :
    Edited([tree EXCEPT !.disk[f] = state], {f})

EditTest == \E t \in Tests, s \in Shapes :
    /\ s = "cased" => CasesOf[t] # {}
    /\ Edited([tree EXCEPT !.shape[t] = s], {FileOf[t]})

\* What a file imports is edited, and the file is not.
EditImported ==
    \/ \E i \in Inits, state \in {"gone", "broken", "fine"} :
          Edited([tree EXCEPT !.disk[i] = state], {})
    \/ Edited([tree EXCEPT !.misplaced = ~@], {})

Next ==
    \/ \E p \in Procs : Begin(p) \/ Finish(p) \/ Die(p)
    \/ EditFile \/ EditTest \/ EditImported

Spec == Init /\ [][Next]_vars

----------------------------------------------------------------------------
(* Properties.                                                             *)

\* Claimed: a stale entry costs a future --collect-only an import, "never a wrong
\* report" (index.py:12-13): what the index answers is what collecting would find.
NeverAWrongReport == \A req \in Requests : Answers(req) =>
    LET found == Collect(tree, req, Discovered(tree, req))
    IN  Answer(req) = [records |-> found.records, skipped |-> found.skipped,
                       errors |-> found.errors]
=============================================================================
