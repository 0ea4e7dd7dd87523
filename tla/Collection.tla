----------------------------- MODULE Collection -----------------------------
(***************************************************************************)
(* What one run finds on disk: voci/_collection/discovery.py, requires.py, *)
(* collect.py and targets.py as functions of the tree and of the request.  *)
(*                                                                         *)
(* A tree is a record: disk[path] says what stands at a test file or an    *)
(* __init__.py, shape[t] what the test t looks like in its file, fails the *)
(* ids that would fail, misplaced whether a helper every file imports      *)
(* calls voci.use(...) where it means nothing.  A request is what the      *)
(* command line asks for: the files its roots lead to, the paths whose     *)
(* directory those roots contain, and -k, -m and the named ids as the sets *)
(* they match.                                                             *)
(***************************************************************************)
EXTENDS Naturals, Sequences, FiniteSets

CONSTANTS
    Files,      \* the paths test files may stand at
    Inits,      \* the paths of the packages' __init__.py
    Helper,     \* the path of that helper module, no test file
    InitsOf,    \* InitsOf[f]: the __init__.py in f's directory, in its parent's, ...
    Under,      \* Under[i]: the files beneath the directory of i
    Tests,      \* the test functions, by their bare ids
    FileOf,     \* FileOf[t]: the file that holds t
    CasesOf     \* CasesOf[t]: the ids t[case] once t is parametrized

Paths  == Files \cup Inits
Ids    == Tests \cup UNION {CasesOf[t] : t \in Tests}
Shapes == {"absent",    \* renamed or deleted
           "bad",       \* its graph of fixtures does not resolve
           "skip", "plain", "cased"}

Trees == [disk : [Paths -> {"gone", "hidden", "broken", "fine"}],
          shape : [Tests -> Shapes], fails : SUBSET Ids, misplaced : BOOLEAN]

\* An __init__.py takes the files beneath it with it, and an id is one test's.
ASSUME SuiteAssumption ==
    /\ Files \cap Inits = {} /\ Helper \notin Files \cup Inits
    /\ InitsOf \in [Files -> Seq(Inits)]
    /\ \A f \in Files : \A k \in DOMAIN InitsOf[f] : f \in Under[InitsOf[f][k]]
    /\ FileOf \in [Tests -> Files]
    /\ \A t \in Tests : CasesOf[t] \cap Tests = {}
    /\ \A t, u \in Tests : t # u => CasesOf[t] \cap CasesOf[u] = {}

Function(id) == CHOOSE t \in Tests : id = t \/ id \in CasesOf[t]
PathOf(id)   == FileOf[Function(id)]

----------------------------------------------------------------------------
(* discover_files: a directory is walked through the patterns and the      *)
(* ignores; a file that was named is taken as it is.                       *)

Discovered(tree, req) ==
    {f \in req.walks : tree.disk[f] \in {"broken", "fine"}
                       \/ (req.named /\ tree.disk[f] = "hidden")}

\* package_inits: the unbroken chain above a file, by what is on disk now.
Chain(disk, f) ==
    {InitsOf[f][k] : k \in {j \in DOMAIN InitsOf[f] :
                              \A n \in 1..j : disk[InitsOf[f][n]] # "gone"}}

\* The __init__.py that stops f from being read: the outermost broken one.
Blockers(disk, f) ==
    LET broken == {k \in DOMAIN InitsOf[f] : InitsOf[f][k] \in Chain(disk, f)
                                             /\ disk[InitsOf[f][k]] = "broken"}
    IN  {InitsOf[f][k] : k \in {j \in broken : \A n \in broken : n <= j}}

Importable(disk, f) == disk[f] \in {"hidden", "fine"} /\ Blockers(disk, f) = {}

----------------------------------------------------------------------------
(* IdSelection: a name constrains its own file only.                       *)

NamesFor(req, id) == {n \in req.names : PathOf(n) = PathOf(id)}

\* `_matches`: the name itself, or a case of the function it names.
Matches(id, name) == id = name \/ (name \in Tests /\ id \in CasesOf[name])
\* `_covers`: also the function a named case belongs to.
Covers(id, name)  == Matches(id, name) \/ (id \in Tests /\ name \in CasesOf[id])

Selects(req, id) ==
    NamesFor(req, id) = {} \/ \E n \in NamesFor(req, id) : Matches(id, n)
SelectsUnexpanded(req, t) ==
    NamesFor(req, t) = {} \/ \E n \in NamesFor(req, t) : Covers(t, n)

----------------------------------------------------------------------------
(* collect over `files`.                                                   *)

ReadFrom(tree, files) == {f \in files : Importable(tree.disk, f)}

\* _module_candidates: a test that is renamed or deleted is not among them.
Candidates(tree, files) ==
    {t \in Tests : FileOf[t] \in ReadFrom(tree, files) /\ tree.shape[t] # "absent"}

\* _skip_candidate: under its bare name, its cases never worked out.
SkipMarked(tree, here) == {t \in here : tree.shape[t] = "skip"}
SkippedOf(tree, req, here) ==
    {t \in SkipMarked(tree, here) : t \in req.keyword /\ SelectsUnexpanded(req, t)}

\* _collect_candidate: a skip outranks -m, and -m a graph that does not resolve.
Untagged(tree, req, here) == {t \in here \ SkipMarked(tree, here) : t \notin req.tagged}
Resolved(tree, req, here) == here \ (SkipMarked(tree, here) \cup Untagged(tree, req, here))

\* _resolve_expansions.
Expansion(tree, t) == IF tree.shape[t] = "cased" THEN CasesOf[t] ELSE {t}
Malformed(tree, req, here) == {t \in Resolved(tree, req, here) : tree.shape[t] = "bad"}
Expanded(tree, req, here) ==
    UNION {Expansion(tree, t) : t \in Resolved(tree, req, here) \ Malformed(tree, req, here)}

\* _append_records: -k and the named ids look at each case's whole id.
Kept(req, ids) == {id \in ids : id \in req.keyword /\ Selects(req, id)}

\* _import_module, _package_declarations: one error for a broken package, the
\* files under it unread.
ImportErrors(tree, files) ==
    (UNION {Blockers(tree.disk, f) : f \in files})
    \cup {f \in files : Blockers(tree.disk, f) = {} /\ tree.disk[f] = "broken"}

Misplaced(tree, files) ==
    IF tree.misplaced /\ ReadFrom(tree, files) # {} THEN {Helper} ELSE {}

Collect(tree, req, files) ==
    LET here    == Candidates(tree, files)
        skipped == SkippedOf(tree, req, here)
        built   == Expanded(tree, req, here)
        records == Kept(req, built)
        untold  == SkipMarked(tree, here) \cup Untagged(tree, req, here)
    IN  [records    |-> records,
         skipped    |-> skipped,
         deselected |-> (built \ records) \cup (untold \ skipped),
         unexpanded |-> untold,
         errors     |-> ImportErrors(tree, files) \cup Misplaced(tree, files)
                        \cup {FileOf[t] : t \in Malformed(tree, req, here)}]

\* _unmatched_id_status: a named id that nothing found answers to.
Unmatched(req, found) ==
    {n \in req.names :
        /\ ~\E id \in found.records \cup found.skipped \cup found.deselected : Matches(id, n)
        /\ ~\E t \in found.unexpanded : Covers(t, n)}
=============================================================================
