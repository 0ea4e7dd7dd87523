----------------------------- MODULE LastFailed -----------------------------
(***************************************************************************)
(* The record of failures: what `--lf` makes of it and what a run may take *)
(* out of it or put into it (voci/_collection/lastfailed.py and            *)
(* voci/_cache.py).  A record is [failed, errors]: test ids, and the paths *)
(* that did not collect.                                                   *)
(***************************************************************************)
EXTENDS Collection

Nothing  == [failed |-> {}, errors |-> {}]
Records_ == [failed : SUBSET Ids, errors : SUBSET Paths]

----------------------------------------------------------------------------
(* Recorded.                                                               *)

InTree(last, f) == \E i \in last.errors \cap Inits : f \in Under[i]

RecordedPaths(last) == last.errors \cup {PathOf(id) : id \in last.failed}

\* Mutant: only the files recorded themselves are worth importing.
CouldHoldOneByPath(last, f) == f \in RecordedPaths(last)

CouldHoldOne(last, f) == f \in RecordedPaths(last) \/ InTree(last, f)

Names(last, id) ==
    id \in last.failed \/ PathOf(id) \in last.errors \/ InTree(last, PathOf(id))

CandidateFiles(files, last) == {f \in files : CouldHoldOne(last, f)}

Select(found, last) ==
    LET kept(ids) == {id \in ids : Names(last, id)}
    IN  [found EXCEPT !.records = kept(@), !.skipped = kept(@),
                      !.deselected = @ \cup {id \in found.records \cup found.skipped :
                                                 ~Names(last, id)}]

----------------------------------------------------------------------------
(* What a run may settle.  `disk` is read when the run settles, not when   *)
(* it collected.                                                           *)

SettledPaths(disk, attempted) == attempted \cup UNION {Chain(disk, f) : f \in attempted}

\* Mutant: a path that is not discovered is dead wherever the run looked.
DeadPathsAnywhere(disk, last, discovered, req) ==
    {path \in RecordedPaths(last) \cap Paths :
        disk[path] = "gone" \/ path \notin SettledPaths(disk, discovered)}

\* Mutant: only a path gone from disk is dead.
DeadPathsOnDisk(disk, last, discovered, req) ==
    {path \in RecordedPaths(last) \cap Paths : disk[path] = "gone"}

DeadPaths(disk, last, discovered, req) ==
    {path \in RecordedPaths(last) \cap Paths :
        \/ disk[path] = "gone"
        \/ path \in req.covers /\ path \notin SettledPaths(disk, discovered)}

ErrorPaths(errors, answered) == errors \cap answered

\* A broken __init__.py takes its whole tree with it.
ReadFiles(attempted, unread) ==
    {f \in attempted : f \notin unread /\ ~\E i \in unread \cap Inits : f \in Under[i]}

\* Mutant: a deselected test that was never expanded has no cases.
VanishedUnexpanded(last, found, known) ==
    {id \in last.failed \ (found.deselected \cup found.records \cup found.skipped) :
        PathOf(id) \in known}

Vanished(last, found, known) ==
    LET existing == found.deselected \cup found.records \cup found.skipped
        stopped  == found.unexpanded \cap found.deselected
    IN  {id \in last.failed \ existing :
            PathOf(id) \in known /\ ~\E t \in stopped : id \in CasesOf[t]}

Merge(previous, failed, errored, settledIds, settledFiles) ==
    [failed |-> failed \cup (previous.failed \ settledIds),
     errors |-> errored \cup (previous.errors \ settledFiles)]
=============================================================================
