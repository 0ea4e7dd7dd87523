------------------------- MODULE InvocationsProofs -------------------------
(***************************************************************************)
(* What holds of the record of failures for every suite, every request and *)
(* every number of invocations, whatever is edited between and under them. *)
(* Next to nothing of it is about interleaving: what a run writes is a     *)
(* function of what it read, saw and ran, so the proofs keep that function *)
(* with the run (IInv) and argue about what it forgets.                    *)
(***************************************************************************)
EXTENDS Invocations, TLAPS

----------------------------------------------------------------------------
(* The inductive invariant.                                                *)

(* What a run looked at, and what it takes from it.                        *)
FoundBy(r) == Collect(r.saw, r.req, r.files)

Looked(r) ==
    /\ r.req \in Requests /\ r.last \in Records_ /\ r.saw \in Trees
    /\ r.files = IF Replays(r) THEN CandidateFiles(Discovered(r.saw, r.req), r.last)
                 ELSE Discovered(r.saw, r.req)
    /\ r.collected = IF Replays(r) THEN Select(FoundBy(r), r.last) ELSE FoundBy(r)

(* The parts of what it is about to write.                                 *)
Answered(r) == SettledPaths(r.disk, r.files)
Errored(r)  == ErrorPaths(r.collected.errors, Answered(r))
Gone(r)     == IF Empty(r.last) THEN {}
               ELSE DeadPaths(r.disk, r.last, Discovered(r.saw, r.req), r.req)
Produced(r) == {PathOf(id) : id \in FoundBy(r).records \cup FoundBy(r).skipped}
Known(r)    == ReadFiles(r.files, Errored(r) \ Produced(r)) \cup Gone(r)
Told(r)     == r.ran \cup r.collected.skipped \cup Vanished(r.last, FoundBy(r), Known(r))
Written(r)  == Merge(r.fresh, r.ran \cap r.saw.fails, Errored(r), Told(r),
                     Answered(r) \cup Gone(r))

Disks == [Paths -> {"gone", "hidden", "broken", "fine"}]

Running(r) == r.at = "running" /\ Looked(r) /\ r.found = FoundBy(r)
Writing(r) == /\ r.at = "writing" /\ Looked(r)
              /\ r.ran \subseteq r.collected.records
              /\ r.fresh \in Records_ /\ r.disk \in Disks
              /\ r.merged = Written(r)

IInv ==
    /\ tree \in Trees
    /\ record \in Records_ \cup {Unreadable}
    /\ run = [p \in Procs |-> run[p]]
    /\ \A p \in Procs : run[p] = Idle \/ Running(run[p]) \/ Writing(run[p])

----------------------------------------------------------------------------
(* Of ids, packages, and what collection yields.                           *)

(* An id is one test's, and so in one file.                                *)
LEMMA Owners ==
    /\ \A id \in Ids : /\ Function(id) \in Tests /\ PathOf(id) \in Files
                       /\ id = Function(id) \/ id \in CasesOf[Function(id)]
    /\ \A t \in Tests : \A id : id = t \/ id \in CasesOf[t] =>
           id \in Ids /\ Function(id) = t /\ PathOf(id) = FileOf[t]
<1>1. ASSUME NEW t \in Tests, NEW id, id = t \/ id \in CasesOf[t]
      PROVE  id \in Ids /\ Function(id) = t /\ PathOf(id) = FileOf[t]
  <2>1. id \in Ids  BY <1>1 DEF Ids
  <2>2. \A u \in Tests : id = u \/ id \in CasesOf[u] => u = t
    BY <1>1, SuiteAssumption
  <2>3. Function(id) = t  BY <1>1, <2>2 DEF Function
  <2> QED BY <2>1, <2>3 DEF PathOf
<1>2. ASSUME NEW id \in Ids
      PROVE  \E t \in Tests : id = t \/ id \in CasesOf[t]
  BY DEF Ids
<1>3. ASSUME NEW id \in Ids
      PROVE  /\ Function(id) \in Tests /\ PathOf(id) \in Files
             /\ id = Function(id) \/ id \in CasesOf[Function(id)]
  BY <1>1, <1>2, SuiteAssumption
<1> QED BY <1>1, <1>3

(* The packages above a file, of which those that break it are some.       *)
LEMMA Packages ==
    ASSUME NEW disk, NEW f \in Files
    PROVE  /\ Chain(disk, f) \subseteq Inits
           /\ \A i \in Chain(disk, f) : f \in Under[i]
           /\ Blockers(disk, f) \subseteq Chain(disk, f)
<1>1. InitsOf[f] \in Seq(Inits)  BY SuiteAssumption
<1>2. \A k \in DOMAIN InitsOf[f] : InitsOf[f][k] \in Inits /\ f \in Under[InitsOf[f][k]]
  BY <1>1, SuiteAssumption
<1>3. \A i \in Chain(disk, f) : \E k \in DOMAIN InitsOf[f] : i = InitsOf[f][k]
  BY DEF Chain
<1>4. \A i \in Blockers(disk, f) : i \in Chain(disk, f)
  BY DEF Blockers
<1> QED BY <1>2, <1>3, <1>4

(* What settles at `disk` when `attempted` was looked at.                  *)
LEMMA Settling ==
    ASSUME NEW disk, NEW attempted \in SUBSET Files
    PROVE  /\ \A path : path \in SettledPaths(disk, attempted) <=>
                  \/ path \in attempted
                  \/ \E f \in attempted : path \in Chain(disk, f)
           /\ SettledPaths(disk, attempted) \subseteq Paths
           /\ SettledPaths(disk, attempted) \cap Files = attempted
<1>1. \A path : path \in SettledPaths(disk, attempted) <=>
          path \in attempted \/ \E f \in attempted : path \in Chain(disk, f)
  BY DEF SettledPaths
<1>2. \A f \in attempted : Chain(disk, f) \subseteq Inits  BY Packages
<1> QED BY <1>1, <1>2, SuiteAssumption DEF Paths

----------------------------------------------------------------------------
(* What collection yields, read from the tree test by test.                *)

(* A test whose file was read, and that still stands in it.                *)
Here(saw, files, t) ==
    /\ t \in Tests /\ FileOf[t] \in files
    /\ Importable(saw.disk, FileOf[t]) /\ saw.shape[t] # "absent"

LEMMA Collecting ==
    ASSUME NEW saw \in Trees, NEW req \in Requests, NEW files \in SUBSET Files
    PROVE  LET found == Collect(saw, req, files) IN
           /\ \A id : id \in found.records => \E t \in Tests :
                  /\ Here(saw, files, t) /\ id \in Expansion(saw, t)
                  /\ id \in Ids /\ PathOf(id) = FileOf[t]
           /\ \A t : t \in found.skipped =>
                  /\ Here(saw, files, t) /\ saw.shape[t] = "skip"
                  /\ t \in Ids /\ PathOf(t) = FileOf[t] /\ Function(t) = t
           /\ \A t \in Tests : \A id \in Expansion(saw, t) :
                  Here(saw, files, t) /\ saw.shape[t] \notin {"skip", "bad"} =>
                      \/ id \in found.records \cup found.deselected
                      \/ t \in found.deselected \cap found.unexpanded
           /\ \A path : path \in found.errors <=>
                  \/ \E f \in files : path \in Blockers(saw.disk, f)
                  \/ path \in files /\ Blockers(saw.disk, path) = {}
                                    /\ saw.disk[path] = "broken"
                  \/ path \in Misplaced(saw, files)
                  \/ \E t \in Tests : path = FileOf[t] /\ Here(saw, files, t)
                                      /\ saw.shape[t] = "bad" /\ t \in req.tagged
           /\ found.errors \subseteq Paths \cup {Helper}
<1> DEFINE here    == Candidates(saw, files)
           built   == Expanded(saw, req, here)
           records == Kept(req, built)
           skipped == SkippedOf(saw, req, here)
           untold  == SkipMarked(saw, here) \cup Untagged(saw, req, here)
           found   == Collect(saw, req, files)
<1>1. /\ found.records = records /\ found.skipped = skipped /\ found.unexpanded = untold
      /\ found.deselected = (built \ records) \cup (untold \ skipped)
      /\ found.errors = ImportErrors(saw, files) \cup Misplaced(saw, files)
                        \cup {FileOf[t] : t \in Malformed(saw, req, here)}
  BY DEF Collect
<1>2. \A t : t \in here <=> Here(saw, files, t)
  BY DEF Candidates, ReadFrom, Here
<1>3. \A t : t \in Resolved(saw, req, here) <=>
          Here(saw, files, t) /\ saw.shape[t] # "skip" /\ t \in req.tagged
  BY <1>2 DEF Resolved, SkipMarked, Untagged
<1>4. \A t : t \in Malformed(saw, req, here) <=>
          Here(saw, files, t) /\ saw.shape[t] = "bad" /\ t \in req.tagged
  BY <1>3 DEF Malformed
<1>5. \A t \in Tests : \A id \in Expansion(saw, t) :
          id \in Ids /\ Function(id) = t /\ PathOf(id) = FileOf[t]
  BY Owners DEF Expansion
<1>6. \A id : id \in built <=> \E t \in Tests :
          /\ Here(saw, files, t) /\ saw.shape[t] \notin {"skip", "bad"} /\ t \in req.tagged
          /\ id \in Expansion(saw, t)
  BY <1>3, <1>4 DEF Expanded, Here
<1>7. records \subseteq built  BY DEF Kept
<1>8. \A t : t \in skipped => Here(saw, files, t) /\ saw.shape[t] = "skip"
  BY <1>2 DEF SkippedOf, SkipMarked
<1>9. \A t : t \in untold <=>
          Here(saw, files, t) /\ (saw.shape[t] = "skip" \/ t \notin req.tagged)
  BY <1>2 DEF SkipMarked, Untagged
<1>10. \A id : id \in records => \E t \in Tests :
          /\ Here(saw, files, t) /\ id \in Expansion(saw, t)
          /\ id \in Ids /\ PathOf(id) = FileOf[t]
  BY <1>5, <1>6, <1>7
<1>11. \A t : t \in skipped => /\ t \in Ids /\ PathOf(t) = FileOf[t] /\ Function(t) = t
  BY <1>8, Owners DEF Here
<1>12. ASSUME NEW t \in Tests, NEW id \in Expansion(saw, t), Here(saw, files, t),
              saw.shape[t] \notin {"skip", "bad"}
       PROVE  \/ id \in records \cup ((built \ records) \cup (untold \ skipped))
              \/ t \in ((built \ records) \cup (untold \ skipped)) \cap untold
  <2>1. CASE t \in req.tagged
    BY <1>6, <1>12, <2>1
  <2>2. CASE t \notin req.tagged
    BY <1>8, <1>9, <1>12, <2>2
  <2> QED BY <2>1, <2>2
<1>13. \A path : path \in ImportErrors(saw, files) <=>
          \/ \E f \in files : path \in Blockers(saw.disk, f)
          \/ path \in files /\ Blockers(saw.disk, path) = {} /\ saw.disk[path] = "broken"
  <2>1. \A path : path \in UNION {Blockers(saw.disk, f) : f \in files} <=>
            \E f \in files : path \in Blockers(saw.disk, f)
    OBVIOUS
  <2> QED BY <2>1 DEF ImportErrors
<1>14. \A path : path \in {FileOf[t] : t \in Malformed(saw, req, here)} <=>
          \E t \in Tests : path = FileOf[t] /\ Here(saw, files, t)
                           /\ saw.shape[t] = "bad" /\ t \in req.tagged
  BY <1>4 DEF Here
<1>15. found.errors \subseteq Paths \cup {Helper}
  <2>1. \A f \in files : Blockers(saw.disk, f) \subseteq Inits  BY Packages
  <2>2. Misplaced(saw, files) \subseteq {Helper}  BY DEF Misplaced
  <2>3. \A path : path \in ImportErrors(saw, files) => path \in Files \cup Inits
    BY <1>13, <2>1
  <2>4. \A path : path \in {FileOf[t] : t \in Malformed(saw, req, here)} => path \in Files
    <3>1. \A t \in Tests : FileOf[t] \in Files  BY SuiteAssumption
    <3> QED BY <1>14, <3>1
  <2> QED BY <1>1, <2>2, <2>3, <2>4 DEF Paths
<1>16. \A path : path \in found.errors <=>
          \/ \E f \in files : path \in Blockers(saw.disk, f)
          \/ path \in files /\ Blockers(saw.disk, path) = {} /\ saw.disk[path] = "broken"
          \/ path \in Misplaced(saw, files)
          \/ \E t \in Tests : path = FileOf[t] /\ Here(saw, files, t)
                              /\ saw.shape[t] = "bad" /\ t \in req.tagged
  BY <1>1, <1>13, <1>14
<1> HIDE DEF here, built, records, skipped, untold
<1>17. \A t \in Tests : \A id \in Expansion(saw, t) :
          Here(saw, files, t) /\ saw.shape[t] \notin {"skip", "bad"} =>
              \/ id \in found.records \cup found.deselected
              \/ t \in found.deselected \cap found.unexpanded
  BY <1>1, <1>12
<1>18. \A id : id \in found.records => \E t \in Tests :
          /\ Here(saw, files, t) /\ id \in Expansion(saw, t)
          /\ id \in Ids /\ PathOf(id) = FileOf[t]
  BY <1>1, <1>10
<1>19. \A t : t \in found.skipped =>
          /\ Here(saw, files, t) /\ saw.shape[t] = "skip"
          /\ t \in Ids /\ PathOf(t) = FileOf[t] /\ Function(t) = t
  BY <1>1, <1>8, <1>11
<1> QED BY <1>15, <1>16, <1>17, <1>18, <1>19

----------------------------------------------------------------------------
(* What a run has in hand.                                                 *)

(* The file of whatever the record names could hold one of those tests.    *)
LEMMA Naming ==
    ASSUME NEW last \in Records_, NEW id \in Ids, Names(last, id)
    PROVE  CouldHoldOne(last, PathOf(id))
BY DEF Names, CouldHoldOne, RecordedPaths

LEMMA Selecting ==
    ASSUME NEW saw, NEW req, NEW files, NEW last
    PROVE  LET found == Collect(saw, req, files)
               kept  == Select(found, last)
           IN  /\ kept.records = {id \in found.records : Names(last, id)}
               /\ kept.skipped = {id \in found.skipped : Names(last, id)}
               /\ kept.errors = found.errors
BY DEF Collect, Select

LEMMA Looking ==
    ASSUME NEW r, Looked(r)
    PROVE  /\ Discovered(r.saw, r.req) \subseteq Files
           /\ r.files \subseteq Discovered(r.saw, r.req) /\ r.files \in SUBSET Files
           /\ \A f \in r.files : r.saw.disk[f] \in {"broken", "fine", "hidden"}
           /\ \A f \in Discovered(r.saw, r.req) :
                  ~Replays(r) \/ CouldHoldOne(r.last, f) => f \in r.files
           /\ r.collected.errors = FoundBy(r).errors
           /\ \A id : id \in r.collected.records <=>
                  id \in FoundBy(r).records /\ (Replays(r) => Names(r.last, id))
           /\ \A id : id \in r.collected.skipped <=>
                  id \in FoundBy(r).skipped /\ (Replays(r) => Names(r.last, id))
<1>1. r.req.walks \subseteq Files  BY DEF Looked, Requests
<1>2. \A f \in Discovered(r.saw, r.req) :
          f \in r.req.walks /\ r.saw.disk[f] \in {"broken", "fine", "hidden"}
  BY DEF Discovered
<1>3. \A f : f \in r.files <=>
          f \in Discovered(r.saw, r.req) /\ (~Replays(r) \/ CouldHoldOne(r.last, f))
  <2>1. CASE Replays(r)
    BY <2>1 DEF Looked, CandidateFiles
  <2>2. CASE ~Replays(r)
    BY <2>2 DEF Looked
  <2> QED BY <2>1, <2>2
<1>4. /\ r.collected.errors = FoundBy(r).errors
      /\ \A id : id \in r.collected.records <=>
             id \in FoundBy(r).records /\ (Replays(r) => Names(r.last, id))
      /\ \A id : id \in r.collected.skipped <=>
             id \in FoundBy(r).skipped /\ (Replays(r) => Names(r.last, id))
  <2>1. CASE Replays(r)
    <3>1. r.collected = Select(Collect(r.saw, r.req, r.files), r.last)
      BY <2>1 DEF Looked, FoundBy
    <3> QED BY <2>1, <3>1, Selecting DEF FoundBy
  <2>2. CASE ~Replays(r)
    BY <2>2 DEF Looked
  <2> QED BY <2>1, <2>2
<1>5. Discovered(r.saw, r.req) \subseteq Files  BY <1>1, <1>2
<1>6. r.files \subseteq Discovered(r.saw, r.req)  BY <1>3
<1>7. \A f \in r.files : r.saw.disk[f] \in {"broken", "fine", "hidden"}  BY <1>2, <1>6
<1>8. \A f \in Discovered(r.saw, r.req) :
          ~Replays(r) \/ CouldHoldOne(r.last, f) => f \in r.files
  BY <1>3
<1> QED BY <1>4, <1>5, <1>6, <1>7, <1>8

(* Ids, paths and nothing else.                                            *)
LEMMA Yielding ==
    ASSUME NEW r, Looked(r)
    PROVE  /\ r.collected.records \subseteq Ids /\ r.collected.skipped \subseteq Ids
           /\ r.collected.errors \subseteq Paths \cup {Helper}
<1>1. r.saw \in Trees /\ r.req \in Requests  BY DEF Looked
<1>2. r.files \in SUBSET Files  BY Looking
<1>3. /\ \A id \in FoundBy(r).records : id \in Ids
      /\ \A id \in FoundBy(r).skipped : id \in Ids
      /\ FoundBy(r).errors \subseteq Paths \cup {Helper}
  BY <1>1, <1>2, Collecting DEF FoundBy
<1> QED BY <1>3, Looking

(* What is written, and that it is a record of ids and paths: the helper's *)
(* error is no path that collection answers for.                           *)
LEMMA Merging ==
    ASSUME NEW r, Looked(r), r.ran \subseteq r.collected.records, r.fresh \in Records_,
           r.merged = Written(r)
    PROVE  /\ r.merged \in Records_
           /\ r.merged.failed = (r.ran \cap r.saw.fails) \cup (r.fresh.failed \ Told(r))
           /\ r.merged.errors = Errored(r) \cup (r.fresh.errors \ (Answered(r) \cup Gone(r)))
           /\ \A path : path \in Errored(r) <=>
                  path \in FoundBy(r).errors /\ path \in Answered(r)
           /\ Answered(r) \subseteq Paths /\ Answered(r) \cap Files = r.files
<1>1. /\ r.merged.failed = (r.ran \cap r.saw.fails) \cup (r.fresh.failed \ Told(r))
      /\ r.merged.errors = Errored(r) \cup (r.fresh.errors \ (Answered(r) \cup Gone(r)))
      /\ r.merged = [failed |-> r.merged.failed, errors |-> r.merged.errors]
  BY DEF Written, Merge
<1>2. Answered(r) \subseteq Paths /\ Answered(r) \cap Files = r.files
  BY Looking, Settling DEF Answered
<1>3. \A path : path \in Errored(r) <=> path \in FoundBy(r).errors /\ path \in Answered(r)
  BY Looking DEF Errored, ErrorPaths
<1>4. r.ran \subseteq Ids  BY Yielding
<1>5. r.fresh.failed \subseteq Ids /\ r.fresh.errors \subseteq Paths  BY DEF Records_
<1>6. r.merged.failed \subseteq Ids /\ r.merged.errors \subseteq Paths
  BY <1>1, <1>2, <1>3, <1>4, <1>5
<1> QED BY <1>1, <1>2, <1>3, <1>6 DEF Records_

----------------------------------------------------------------------------
(* The invariant is one.                                                   *)

LEMMA Recorded ==
    ASSUME record \in Records_ \cup {Unreadable}
    PROVE  /\ Load(record) \in Records_
           /\ \A r : r.last \in Records_ => Baseline(r) \in Records_
<1>1. Nothing \in Records_  BY DEF Nothing, Records_
<1>2. Load(record) \in Records_  BY <1>1 DEF Load
<1>3. \A r : r.last \in Records_ => Baseline(r) \in Records_  BY DEF Baseline, Readable
<1> QED BY <1>2, <1>3

LEMMA IInvInit == ASSUME Init PROVE IInv
<1>1. tree \in Trees  BY InvocationsAssumption DEF Init
<1> QED BY <1>1 DEF Init, IInv

LEMMA IInvBegin == ASSUME IInv, NEW p \in Procs, Begin(p) PROVE IInv'
<1>1. PICK command \in Commands :
        /\ run' = [run EXCEPT ![p] = Begun(command, Load(record))]
        /\ UNCHANGED <<tree, record>>
  BY DEF Begin
<1> DEFINE r == Begun(command, Load(record))
<1>2. command \in Requests /\ Load(record) \in Records_ /\ tree \in Trees
  BY Recorded, InvocationsAssumption DEF IInv
<1>3. /\ r.at = "running" /\ r.req = command /\ r.last = Load(record) /\ r.saw = tree
      /\ Replays(r) <=> Replays([req |-> command, last |-> Load(record)])
  BY DEF Begun, Replays
<1>4. /\ r.files = IF Replays(r) THEN CandidateFiles(Discovered(r.saw, r.req), r.last)
                   ELSE Discovered(r.saw, r.req)
      /\ r.found = Collect(r.saw, r.req, r.files)
      /\ r.collected = IF Replays(r) THEN Select(r.found, r.last) ELSE r.found
  BY <1>3 DEF Begun
<1>5. Running(r)
  BY <1>2, <1>3, <1>4 DEF Running, Looked, FoundBy
<1> HIDE DEF r
<1>6. run' = [q \in Procs |-> run'[q]] /\ run'[p] = r
      /\ \A q \in Procs \ {p} : run'[q] = run[q]
  BY <1>1 DEF IInv, r
<1> QED BY <1>1, <1>5, <1>6 DEF IInv

LEMMA IInvSettle == ASSUME IInv, NEW p \in Procs, Settle(p) PROVE IInv'
<1> DEFINE r == run[p]
<1>1. PICK ran \in SUBSET r.collected.records :
        run' = [run EXCEPT ![p] =
                  [at |-> "writing", req |-> r.req, last |-> r.last, saw |-> r.saw,
                   files |-> r.files, collected |-> r.collected, ran |-> ran,
                   fresh |-> Baseline(r), disk |-> tree.disk, merged |-> Settled(r, ran)]]
  BY DEF Settle
<1>2. Running(r)
  BY DEF IInv, Settle, Idle, Writing
<1> DEFINE s == [at |-> "writing", req |-> r.req, last |-> r.last, saw |-> r.saw,
                 files |-> r.files, collected |-> r.collected, ran |-> ran,
                 fresh |-> Baseline(r), disk |-> tree.disk, merged |-> Settled(r, ran)]
<1>3. /\ s.at = "writing" /\ s.req = r.req /\ s.last = r.last /\ s.saw = r.saw
      /\ s.files = r.files /\ s.collected = r.collected /\ s.ran = ran
      /\ s.fresh = Baseline(r) /\ s.disk = tree.disk /\ s.merged = Settled(r, ran)
  OBVIOUS
<1>4. s.fresh \in Records_ /\ s.disk \in Disks
  BY <1>2, <1>3, Recorded DEF IInv, Running, Looked, Trees, Disks
<1>5. s.merged = Written(s)
  BY <1>2, <1>3 DEF Settled, Written, Told, Known, Produced, Gone, Errored, Answered, FoundBy,
     Running
<1> HIDE DEF s
<1>6. Looked(s)
  BY <1>2, <1>3 DEF Running, Looked, FoundBy, Replays
<1>7. Writing(s)  BY <1>3, <1>4, <1>5, <1>6 DEF Writing
<1>8. run' = [q \in Procs |-> run'[q]] /\ run'[p] = s
      /\ \A q \in Procs \ {p} : run'[q] = run[q]
  BY <1>1 DEF IInv, s
<1> QED BY <1>7, <1>8 DEF IInv, Settle

LEMMA IInvEnds == ASSUME IInv, NEW p \in Procs, Write(p) \/ Die(p) PROVE IInv'
<1>1. run' = [run EXCEPT ![p] = Idle] /\ tree' = tree  BY DEF Write, Die
<1>2. record' \in Records_ \cup {Unreadable}
  <2>1. CASE Write(p)
    <3>1. Writing(run[p])  BY <2>1 DEF IInv, Write, Idle, Running
    <3>2. run[p].merged \in Records_  BY <3>1, Merging DEF Writing
    <3> QED BY <2>1, <3>2 DEF Write
  <2> QED BY <2>1 DEF Die, IInv
<1>3. run' = [q \in Procs |-> run'[q]] /\ run'[p] = Idle
      /\ \A q \in Procs \ {p} : run'[q] = run[q]
  BY <1>1 DEF IInv
<1> QED BY <1>1, <1>2, <1>3 DEF IInv

LEMMA IInvEdited ==
    ASSUME IInv, EditFile \/ EditTest \/ EditBody \/ EditHelper \/ LoseRecord
    PROVE  IInv'
<1>1. CASE LoseRecord
  BY <1>1 DEF LoseRecord, IInv
<1>2. tree \in Trees  BY DEF IInv
<1>3. ASSUME NEW next \in Trees, Edited(next) PROVE IInv'
  BY <1>3 DEF Edited, IInv
<1>4. CASE EditFile
  <2>1. PICK path \in Paths, state \in {"gone", "hidden", "broken", "fine"} :
           Edited([tree EXCEPT !.disk[path] = state])
    BY <1>4 DEF EditFile, Paths
  <2>2. [tree EXCEPT !.disk[path] = state] \in Trees
    <3>1. [tree.disk EXCEPT ![path] = state] \in Disks  BY <1>2 DEF Trees, Disks
    <3> QED BY <1>2, <3>1 DEF Trees, Disks
  <2> QED BY <1>3, <2>1, <2>2
<1>5. CASE EditTest
  <2>1. PICK t \in Tests, s \in Shapes : Edited([tree EXCEPT !.shape[t] = s])
    BY <1>5 DEF EditTest
  <2>2. [tree EXCEPT !.shape[t] = s] \in Trees
    <3>1. [tree.shape EXCEPT ![t] = s] \in [Tests -> Shapes]  BY <1>2 DEF Trees
    <3> QED BY <1>2, <3>1 DEF Trees
  <2> QED BY <1>3, <2>1, <2>2
<1>6. CASE EditBody
  <2>1. PICK id \in Ids : \/ Edited([tree EXCEPT !.fails = tree.fails \cup {id}])
                          \/ Edited([tree EXCEPT !.fails = tree.fails \ {id}])
    BY <1>6 DEF EditBody
  <2>2. /\ [tree EXCEPT !.fails = tree.fails \cup {id}] \in Trees
        /\ [tree EXCEPT !.fails = tree.fails \ {id}] \in Trees
    BY <1>2 DEF Trees
  <2> QED BY <1>3, <2>1, <2>2
<1>7. CASE EditHelper
  <2>1. [tree EXCEPT !.misplaced = ~tree.misplaced] \in Trees
    BY <1>2 DEF Trees
  <2>2. Edited([tree EXCEPT !.misplaced = ~tree.misplaced])
    BY <1>7 DEF EditHelper
  <2> QED BY <1>3, <2>1, <2>2
<1> QED BY <1>1, <1>4, <1>5, <1>6, <1>7

(* In every reachable state, what a run is about to write is what it found *)
(* and ran, merged into a record of ids and paths.                         *)
THEOREM Invariance == Spec => []IInv
<1>1. IInv /\ [Next]_vars => IInv'
  <2> SUFFICES ASSUME IInv, [Next]_vars PROVE IInv'
    OBVIOUS
  <2>1. CASE UNCHANGED vars
    BY <2>1 DEF vars, IInv
  <2> QED BY <2>1, IInvBegin, IInvSettle, IInvEnds, IInvEdited DEF Next
<1> QED BY <1>1, IInvInit, PTL DEF Spec

----------------------------------------------------------------------------
(* What a run forgets.                                                     *)

(* A file that could not be read leaves an error behind, its own or that   *)
(* of a package above it, unless the packages above it changed meanwhile.  *)
LEMMA Unread ==
    ASSUME NEW r, Writing(r), NEW f \in r.files, ~Unpacked(r, f), ~Importable(r.saw.disk, f)
    PROVE  \/ f \in Errored(r) /\ Blockers(r.saw.disk, f) = {}
           \/ \E i \in Blockers(r.saw.disk, f) : i \in Errored(r) /\ i \in Inits /\ f \in Under[i]
<1>1. /\ r.saw \in Trees /\ r.req \in Requests /\ r.files \in SUBSET Files
      /\ r.saw.disk[f] \in {"broken", "fine", "hidden"} /\ f \in Files
  BY Looking DEF Writing, Looked
<1>2. \A path : path \in Errored(r) <=> path \in FoundBy(r).errors /\ path \in Answered(r)
  BY Merging DEF Writing
<1>3. \A path : path \in Answered(r) <=>
          path \in r.files \/ \E g \in r.files : path \in Chain(r.disk, g)
  BY <1>1, Settling DEF Answered
<1>4. /\ \A g \in r.files : \A path \in Blockers(r.saw.disk, g) : path \in FoundBy(r).errors
      /\ \A path \in r.files : Blockers(r.saw.disk, path) = {} /\ r.saw.disk[path] = "broken"
                               => path \in FoundBy(r).errors
  BY <1>1, Collecting DEF FoundBy
<1>5. CASE Blockers(r.saw.disk, f) = {}
  <2>1. r.saw.disk[f] = "broken"  BY <1>1, <1>5 DEF Importable
  <2> QED BY <1>2, <1>3, <1>4, <1>5, <2>1
<1>6. CASE Blockers(r.saw.disk, f) # {}
  <2>1. PICK i \in Blockers(r.saw.disk, f) : TRUE  BY <1>6
  <2>2. i \in Chain(r.saw.disk, f) /\ i \in Inits /\ f \in Under[i]
    BY <1>1, <2>1, Packages
  <2>3. i \in Chain(r.disk, f)  BY <2>2 DEF Unpacked
  <2> QED BY <1>2, <1>3, <1>4, <2>1, <2>2, <2>3
<1> QED BY <1>5, <1>6

(* A path is dead for a reason.                                            *)
LEMMA Dying ==
    ASSUME NEW r, Writing(r), NEW path \in Gone(r)
    PROVE  /\ r.disk[path] = "gone" \/ path \in r.req.covers \ Discovered(r.saw, r.req)
           /\ path \in Paths
<1>1. path \in DeadPaths(r.disk, r.last, Discovered(r.saw, r.req), r.req)
  BY DEF Gone
<1>2. \A f \in Discovered(r.saw, r.req) : f \in SettledPaths(r.disk, Discovered(r.saw, r.req))
  BY DEF SettledPaths
<1> QED BY <1>1, <1>2 DEF DeadPaths

(* An id that was in no file of the run's is in no file of the run's.      *)
LEMMA Vanishing ==
    ASSUME NEW r, Writing(r), NEW id \in Ids, PathOf(id) \in r.files,
           id \in Vanished(r.last, FoundBy(r), Known(r)), Exists(r, id)
    PROVE  r.saw.shape[Function(id)] = "skip"
<1> DEFINE t == Function(id)
           found == FoundBy(r)
<1>1. t \in Tests /\ (id = t \/ id \in CasesOf[t]) /\ PathOf(id) = FileOf[t]
  BY Owners DEF PathOf
<1>2. r.saw \in Trees /\ r.req \in Requests /\ r.files \in SUBSET Files
  BY Looking DEF Writing, Looked
<1>3. /\ id \notin found.deselected \cup found.records \cup found.skipped
      /\ \A u \in found.unexpanded \cap found.deselected : id \notin CasesOf[u]
  BY DEF Vanished
<1>4. /\ Importable(r.saw.disk, FileOf[t]) /\ r.saw.shape[t] \notin {"absent", "bad"}
      /\ id \in Expansion(r.saw, t)
  BY <1>1 DEF Exists
<1> SUFFICES ASSUME r.saw.shape[t] # "skip" PROVE FALSE
  OBVIOUS
<1>5. Here(r.saw, r.files, t)  BY <1>1, <1>4 DEF Here
<1>6. \/ id \in found.records \cup found.deselected
      \/ t \in found.deselected \cap found.unexpanded
  BY <1>1, <1>2, <1>4, <1>5, Collecting DEF FoundBy
<1>7. t \in found.deselected \cap found.unexpanded  BY <1>3, <1>6
<1>8. id = t \/ id \in CasesOf[t]  BY <1>1
<1> QED BY <1>3, <1>7, <1>8

LEMMA Forgetting ==
    ASSUME NEW r, Writing(r), NEW id \in r.fresh.failed
    PROVE  \/ Names(r.merged, id)
           \/ id \in r.ran
           \/ r.saw.shape[Function(id)] = "skip" /\ PathOf(id) \in r.files
           \/ PathOf(id) \in r.files /\ Importable(r.saw.disk, PathOf(id)) /\ ~Exists(r, id)
           \/ r.disk[PathOf(id)] = "gone"
           \/ PathOf(id) \in r.req.covers \ Discovered(r.saw, r.req)
           \/ Unpacked(r, PathOf(id))
<1> DEFINE f == PathOf(id)
<1>1. id \in Ids  BY DEF Writing, Records_
<1>2. f \in Files  BY <1>1, Owners
<1>3. r.saw \in Trees /\ r.req \in Requests /\ r.files \in SUBSET Files
  BY Looking DEF Writing, Looked
<1>4. /\ r.merged.failed = (r.ran \cap r.saw.fails) \cup (r.fresh.failed \ Told(r))
      /\ Errored(r) \subseteq r.merged.errors
  BY Merging DEF Writing
<1> SUFFICES ASSUME ~Names(r.merged, id), id \notin r.ran, ~Unpacked(r, f)
             PROVE  \/ r.saw.shape[Function(id)] = "skip" /\ f \in r.files
                    \/ f \in r.files /\ Importable(r.saw.disk, f) /\ ~Exists(r, id)
                    \/ r.disk[f] = "gone"
                    \/ f \in r.req.covers \ Discovered(r.saw, r.req)
  OBVIOUS
<1>5. id \in r.collected.skipped \/ id \in Vanished(r.last, FoundBy(r), Known(r))
  BY <1>4 DEF Names, Told
<1>6. CASE id \in r.collected.skipped
  <2>1. id \in FoundBy(r).skipped  BY <1>6, Looking DEF Writing
  <2>2. Here(r.saw, r.files, id) /\ r.saw.shape[id] = "skip"
        /\ PathOf(id) = FileOf[id] /\ Function(id) = id
    BY <1>3, <2>1, Collecting DEF FoundBy
  <2> QED BY <2>2 DEF Here
<1>7. CASE id \in Vanished(r.last, FoundBy(r), Known(r))
  <2>1. f \in Known(r)  BY <1>7 DEF Vanished
  <2>2. CASE f \in Gone(r)
    BY <2>2, Dying
  <2>3. CASE f \notin Gone(r)
    <3>1. f \in r.files  BY <2>1, <2>3 DEF Known, ReadFiles
    <3>2. Importable(r.saw.disk, f)
      <4>1. ~\E i \in Errored(r) : i = f \/ (i \in Inits /\ f \in Under[i])
        BY <1>4 DEF Names, InTree
      <4> QED BY <3>1, <4>1, Unread
    <3> QED BY <1>1, <1>7, <3>1, <3>2, Vanishing
  <2> QED BY <2>2, <2>3
<1> QED BY <1>5, <1>6, <1>7

LEMMA Clearing ==
    ASSUME NEW r, Writing(r), NEW path \in r.fresh.errors \ r.merged.errors
    PROVE  \/ r.disk[path] = "gone"
           \/ path \in r.req.covers \ Discovered(r.saw, r.req)
           \/ \E f \in r.files :
                 \/ path = f /\ Importable(r.saw.disk, f)
                 \/ path \in Chain(r.saw.disk, f) /\ Blockers(r.saw.disk, f) = {}
                 \/ /\ path \in {f} \cup Chain(r.saw.disk, f)
                    /\ Blockers(r.saw.disk, f) \cap r.merged.errors # {}
                 \/ Unpacked(r, f)
<1>1. r.saw \in Trees /\ r.req \in Requests /\ r.files \in SUBSET Files
  BY Looking DEF Writing, Looked
<1>2. path \in Answered(r) \cup Gone(r) /\ path \notin Errored(r)
      /\ Errored(r) \subseteq r.merged.errors
  BY Merging DEF Writing
<1>3. CASE path \in Gone(r)
  BY <1>3, Dying
<1>4. ASSUME path \in Answered(r)
      PROVE  \E f \in r.files : path = f \/ path \in Chain(r.disk, f)
  BY <1>1, <1>4, Settling DEF Answered
<1>5. ASSUME NEW f \in r.files, path = f \/ path \in Chain(r.disk, f), ~Unpacked(r, f)
      PROVE  \/ path = f /\ Importable(r.saw.disk, f)
             \/ path \in Chain(r.saw.disk, f) /\ Blockers(r.saw.disk, f) = {}
             \/ /\ path \in {f} \cup Chain(r.saw.disk, f)
                /\ Blockers(r.saw.disk, f) \cap r.merged.errors # {}
  <2>1. path = f \/ path \in Chain(r.saw.disk, f)  BY <1>5 DEF Unpacked
  <2>2. CASE Importable(r.saw.disk, f)
    BY <2>1, <2>2 DEF Importable
  <2>3. CASE ~Importable(r.saw.disk, f)
    <3>1. \/ f \in Errored(r) /\ Blockers(r.saw.disk, f) = {}
          \/ \E i \in Blockers(r.saw.disk, f) : i \in Errored(r)
      BY <1>5, <2>3, Unread
    <3> QED BY <1>2, <2>1, <3>1
  <2> QED BY <2>2, <2>3
<1> QED BY <1>2, <1>3, <1>4, <1>5

----------------------------------------------------------------------------
(* What a green run leaves.                                                *)

(* A run over everything has an answer for every path of the record: it    *)
(* looked at it, or nothing leads there.                                   *)
LEMMA Answering ==
    ASSUME NEW r, Writing(r), r.req.covers = Paths, r.disk = r.saw.disk,
           NEW path \in RecordedPaths(r.last) \cap Paths
    PROVE  path \in Gone(r) \cup Answered(r)
<1> DEFINE discovered == Discovered(r.saw, r.req)
<1>1. discovered \subseteq Files /\ r.files \in SUBSET Files  BY Looking DEF Writing
<1>2. \A f \in discovered : ~Replays(r) \/ CouldHoldOne(r.last, f) => f \in r.files
  BY Looking DEF Writing
<1>3. ~Empty(r.last)  BY DEF Empty, Nothing, RecordedPaths
<1>4. CASE path \notin SettledPaths(r.disk, discovered)
  BY <1>3, <1>4 DEF Gone, DeadPaths
<1>5. CASE path \in SettledPaths(r.disk, discovered)
  <2>1. PICK f \in discovered : path = f \/ path \in Chain(r.disk, f)
    BY <1>1, <1>5, Settling
  <2>2. path = f => f \in r.files
    BY <1>2, <2>1 DEF CouldHoldOne
  <2>3. path \in Chain(r.disk, f) => f \in r.files
    <3> SUFFICES ASSUME path \in Chain(r.disk, f) PROVE CouldHoldOne(r.last, f)
      BY <1>2, <2>1
    <3>1. f \in Files /\ path \in Inits /\ f \in Under[path]  BY <1>1, <2>1, Packages
    <3>2. path \notin Files  BY <3>1, SuiteAssumption
    <3>3. \A id \in r.last.failed : PathOf(id) \in Files
      BY Owners DEF Writing, Looked, Records_
    <3>4. path \in r.last.errors  BY <3>2, <3>3 DEF RecordedPaths
    <3> QED BY <3>1, <3>4 DEF CouldHoldOne, InTree
  <2>4. f \in r.files  BY <2>1, <2>2, <2>3
  <2> QED BY <1>1, <2>1, <2>4, Settling DEF Answered
<1> QED BY <1>4, <1>5

(* With no option to leave any out, collection leaves no test out.         *)
LEMMA Everything ==
    ASSUME NEW saw \in Trees, NEW req \in Requests, NEW files \in SUBSET Files,
           req.keyword = Ids, req.tagged = Tests, req.names = {}
    PROVE  Collect(saw, req, files).deselected = {}
<1> DEFINE here == Candidates(saw, files)
<1>1. \A id : NamesFor(req, id) = {}  BY DEF NamesFor
<1>2. Expanded(saw, req, here) \subseteq Ids
  <2>1. \A t \in Tests : Expansion(saw, t) \subseteq Ids  BY DEF Expansion, Ids
  <2>2. Resolved(saw, req, here) \subseteq Tests  BY DEF Resolved, Candidates
  <2> QED BY <2>1, <2>2 DEF Expanded
<1>3. Kept(req, Expanded(saw, req, here)) = Expanded(saw, req, here)
  BY <1>1, <1>2 DEF Kept, Selects
<1>4. here \subseteq Tests /\ Tests \subseteq Ids  BY DEF Candidates, Ids
<1>5. SkippedOf(saw, req, here) = SkipMarked(saw, here) /\ Untagged(saw, req, here) = {}
  BY <1>1, <1>4 DEF SkippedOf, SkipMarked, Untagged, SelectsUnexpanded
<1> QED BY <1>3, <1>5 DEF Collect

LEMMA Greening ==
    ASSUME NEW r, Writing(r), r.fresh = r.last, r.disk = r.saw.disk, r.req.covers = Paths,
           r.req.keyword = Ids, r.req.tagged = Tests, r.req.names = {},
           r.ran = r.collected.records, r.ran \cap r.saw.fails = {},
           r.collected.errors \subseteq {Helper}
    PROVE  r.merged = Nothing
<1>1. /\ r.merged \in Records_
      /\ r.merged.failed = r.last.failed \ Told(r)
      /\ r.merged.errors = Errored(r) \cup (r.last.errors \ (Answered(r) \cup Gone(r)))
      /\ \A path : path \in Errored(r) <=> path \in FoundBy(r).errors /\ path \in Answered(r)
      /\ Answered(r) \subseteq Paths /\ Answered(r) \cap Files = r.files
  BY Merging DEF Writing
<1>2. r.last \in Records_ /\ r.saw \in Trees /\ r.req \in Requests /\ r.files \in SUBSET Files
  BY Looking DEF Writing, Looked
<1>3. Errored(r) = {}
  <2>1. FoundBy(r).errors \subseteq {Helper}  BY Looking DEF Writing
  <2>2. Helper \notin Paths  BY SuiteAssumption DEF Paths
  <2> QED BY <1>1, <2>1, <2>2
<1>4. r.last.errors \subseteq Answered(r) \cup Gone(r)
  <2>1. r.last.errors \subseteq RecordedPaths(r.last) \cap Paths
    BY <1>2 DEF RecordedPaths, Records_
  <2> QED BY <2>1, Answering
<1>5. ASSUME NEW id \in r.last.failed PROVE id \in Told(r)
  <2>1. id \in Ids /\ PathOf(id) \in Files /\ PathOf(id) \in RecordedPaths(r.last)
    BY <1>2, Owners DEF Records_, RecordedPaths
  <2>2. PathOf(id) \in Gone(r) \cup r.files
    BY <1>1, <2>1, Answering DEF Paths
  <2>3. PathOf(id) \in Known(r)
    BY <1>3, <2>2 DEF Known, ReadFiles
  <2>4. FoundBy(r).deselected = {}  BY <1>2, Everything DEF FoundBy
  <2>5. Names(r.last, id)  BY DEF Names
  <2>6. CASE id \in FoundBy(r).records \/ id \in FoundBy(r).skipped
    <3>1. id \in r.collected.records \/ id \in r.collected.skipped
      BY <2>5, <2>6, Looking DEF Writing
    <3> QED BY <3>1 DEF Told
  <2>7. CASE id \notin FoundBy(r).records /\ id \notin FoundBy(r).skipped
    <3>1. id \in Vanished(r.last, FoundBy(r), Known(r))
      BY <2>3, <2>4, <2>7 DEF Vanished
    <3> QED BY <3>1 DEF Told
  <2> QED BY <2>6, <2>7
<1>6. r.merged.failed = {} /\ r.merged.errors = {}
  BY <1>1, <1>3, <1>4, <1>5
<1> QED BY <1>1, <1>6 DEF Records_, Nothing

----------------------------------------------------------------------------
(* What narrowing loses.                                                   *)

(* Of a wider collection, a narrower one yields what stands in its files.  *)
LEMMA Narrowing ==
    ASSUME NEW saw \in Trees, NEW req \in Requests,
           NEW files \in SUBSET Files, NEW wider \in SUBSET Files, files \subseteq wider
    PROVE  LET few == Collect(saw, req, files)
               all == Collect(saw, req, wider)
           IN  /\ few.records \subseteq all.records /\ few.skipped \subseteq all.skipped
               /\ \A id \in all.records : PathOf(id) \in files => id \in few.records
               /\ \A id \in all.skipped : PathOf(id) \in files => id \in few.skipped
<1> DEFINE Of(fs) == Candidates(saw, fs)
<1>1. \A t : t \in Of(files) <=> t \in Of(wider) /\ FileOf[t] \in files
  BY DEF Candidates, ReadFrom
<1>2. \A fs \in SUBSET Files : \A id : id \in Expanded(saw, req, Of(fs)) <=>
          \E t \in Of(fs) : /\ t \in req.tagged /\ saw.shape[t] \notin {"skip", "bad"}
                            /\ id \in Expansion(saw, t)
  BY DEF Expanded, Resolved, Malformed, SkipMarked, Untagged
<1>3. \A t \in Of(wider) : t \in Tests  BY DEF Candidates
<1>4. \A t \in Tests : \A id \in Expansion(saw, t) : PathOf(id) = FileOf[t]
  BY Owners DEF Expansion
<1>5. \A t \in Tests : PathOf(t) = FileOf[t]  BY Owners
<1> HIDE DEF Of
<1>6. /\ \A id : id \in Expanded(saw, req, Of(files)) => id \in Expanded(saw, req, Of(wider))
      /\ \A id \in Expanded(saw, req, Of(wider)) :
             PathOf(id) \in files => id \in Expanded(saw, req, Of(files))
  BY <1>1, <1>2, <1>3, <1>4
<1>7. /\ \A t : t \in SkippedOf(saw, req, Of(files)) => t \in SkippedOf(saw, req, Of(wider))
      /\ \A t \in SkippedOf(saw, req, Of(wider)) :
             PathOf(t) \in files => t \in SkippedOf(saw, req, Of(files))
  BY <1>1, <1>3, <1>5 DEF SkippedOf, SkipMarked
<1>8. \A fs : /\ Collect(saw, req, fs).records = Kept(req, Expanded(saw, req, Of(fs)))
              /\ Collect(saw, req, fs).skipped = SkippedOf(saw, req, Of(fs))
  BY DEF Collect, Of
<1> QED BY <1>6, <1>7, <1>8 DEF Kept

LEMMA Losing ==
    ASSUME NEW r, Running(r), Replays(r)
    PROVE  LET all == Collect(r.saw, r.req, Discovered(r.saw, r.req))
           IN  /\ r.collected.records = {id \in all.records : Names(r.last, id)}
               /\ r.collected.skipped = {id \in all.skipped : Names(r.last, id)}
               /\ \A path \in all.errors \cap Paths :
                      path \in r.last.errors => path \in r.collected.errors
<1> DEFINE discovered == Discovered(r.saw, r.req)
           all == Collect(r.saw, r.req, discovered)
<1>1. /\ r.saw \in Trees /\ r.req \in Requests /\ r.last \in Records_
      /\ discovered \in SUBSET Files /\ r.files \in SUBSET Files /\ r.files \subseteq discovered
  BY Looking DEF Running, Looked
<1>2. \A f \in discovered : CouldHoldOne(r.last, f) => f \in r.files
  BY Looking DEF Running
<1>3. /\ \A id : id \in r.collected.records <=> id \in FoundBy(r).records /\ Names(r.last, id)
      /\ \A id : id \in r.collected.skipped <=> id \in FoundBy(r).skipped /\ Names(r.last, id)
      /\ r.collected.errors = FoundBy(r).errors
  BY Looking DEF Running
<1>4. /\ FoundBy(r).records \subseteq all.records /\ FoundBy(r).skipped \subseteq all.skipped
      /\ \A id \in all.records : PathOf(id) \in r.files => id \in FoundBy(r).records
      /\ \A id \in all.skipped : PathOf(id) \in r.files => id \in FoundBy(r).skipped
  BY <1>1, Narrowing DEF FoundBy
<1>5. /\ \A id \in all.records : id \in Ids /\ PathOf(id) \in discovered
      /\ \A id \in all.skipped : id \in Ids /\ PathOf(id) \in discovered
  BY <1>1, Collecting DEF Here
<1>6. \A id \in Ids : Names(r.last, id) => CouldHoldOne(r.last, PathOf(id))
  BY <1>1, Naming
<1> HIDE DEF all, discovered
<1>7. /\ r.collected.records = {id \in all.records : Names(r.last, id)}
      /\ r.collected.skipped = {id \in all.skipped : Names(r.last, id)}
  BY <1>2, <1>3, <1>4, <1>5, <1>6
<1>8. ASSUME NEW path \in all.errors \cap Paths, path \in r.last.errors
      PROVE  path \in r.collected.errors
  <2>1. \A f \in discovered : f = path => f \in r.files
    BY <1>2, <1>8 DEF CouldHoldOne, RecordedPaths
  <2>2. \A f \in discovered : path \in Blockers(r.saw.disk, f) => f \in r.files
    <3> SUFFICES ASSUME NEW f \in discovered, path \in Blockers(r.saw.disk, f)
                 PROVE  CouldHoldOne(r.last, f)
      BY <1>2
    <3>1. path \in Inits /\ f \in Under[path]  BY <1>1, Packages
    <3> QED BY <1>8, <3>1 DEF CouldHoldOne, InTree
  <2>3. path \notin Misplaced(r.saw, discovered)
    BY <1>8, SuiteAssumption DEF Misplaced, Paths
  <2>4. \/ \E f \in discovered : path \in Blockers(r.saw.disk, f)
        \/ path \in discovered /\ Blockers(r.saw.disk, path) = {}
                               /\ r.saw.disk[path] = "broken"
        \/ \E t \in Tests : path = FileOf[t] /\ Here(r.saw, discovered, t)
                            /\ r.saw.shape[t] = "bad" /\ t \in r.req.tagged
    <3>1. path \in Collect(r.saw, r.req, discovered).errors  BY <1>8 DEF all
    <3>2. r.saw \in Trees /\ r.req \in Requests /\ discovered \in SUBSET Files  BY <1>1
    <3> QED BY ONLY <2>3, <3>1, <3>2, Collecting
  <2>5. \/ \E f \in r.files : path \in Blockers(r.saw.disk, f)
        \/ path \in r.files /\ Blockers(r.saw.disk, path) = {}
                            /\ r.saw.disk[path] = "broken"
        \/ \E t \in Tests : path = FileOf[t] /\ Here(r.saw, r.files, t)
                            /\ r.saw.shape[t] = "bad" /\ t \in r.req.tagged
    BY <2>1, <2>2, <2>4 DEF Here
  <2>6. path \in FoundBy(r).errors
    BY <1>1, <2>5, Collecting DEF FoundBy
  <2> QED BY <1>3, <2>6
<1> QED BY <1>7, <1>8 DEF all, discovered

----------------------------------------------------------------------------
(* The theorems.                                                           *)

LEMMA WritesWhatItMerged ==
    ASSUME IInv, NEW p \in Procs, Writes(p)
    PROVE  Writing(run[p]) /\ record' = run[p].merged
BY DEF IInv, Writes, Running, Idle

(* --lf narrows the files before it collects them and never loses by it.   *)
THEOREM NarrowingIsSafe == Spec => []NarrowingLosesNothing
<1>1. IInv => NarrowingLosesNothing
  <2> SUFFICES ASSUME IInv, NEW p \in Procs, run[p].at = "running", Replays(run[p])
               PROVE  LET r == run[p]  all == Collect(r.saw, r.req, Discovered(r.saw, r.req))
                      IN  /\ r.collected.records = {id \in all.records : Names(r.last, id)}
                          /\ r.collected.skipped = {id \in all.skipped : Names(r.last, id)}
                          /\ \A path \in all.errors \cap Paths :
                                 path \in r.last.errors => path \in r.collected.errors
    BY DEF NarrowingLosesNothing
  <2>1. Running(run[p])  BY DEF IInv, Writing, Idle
  <2> QED BY <2>1, Losing
<1> QED BY <1>1, Invariance, PTL

(* A failure leaves the record because the run ran it, met it skipped, read *)
(* a file it is no longer in, or found nothing that leads to that file.     *)
THEOREM FailuresAreKept == Spec => NoFailureForgotten
<1> DEFINE Accounted(p, id) ==
      LET r == run[p]  f == PathOf(id)  t == Function(id)
      IN  \/ Names(record', id)
          \/ id \in r.ran
          \/ r.saw.shape[t] = "skip" /\ f \in r.files
          \/ f \in r.files /\ Importable(r.saw.disk, f) /\ ~Exists(r, id)
          \/ r.disk[f] = "gone"
          \/ f \in r.req.covers \ Discovered(r.saw, r.req)
          \/ Unpacked(r, f)
<1>1. ASSUME IInv, NEW p \in Procs, Writes(p), NEW id \in run[p].fresh.failed
      PROVE  Accounted(p, id)
  <2>1. Writing(run[p]) /\ record' = run[p].merged  BY <1>1, WritesWhatItMerged
  <2>2. Names(record', id) <=> Names(run[p].merged, id)  BY <2>1 DEF Names, InTree
  <2> QED BY <1>1, <2>1, <2>2, Forgetting
<1>2. IInv => [\A p \in Procs : Writes(p) => \A id \in run[p].fresh.failed : Accounted(p, id)]_vars
  BY <1>1
<1> QED BY <1>2, Invariance, PTL DEF NoFailureForgotten

(* A broken file leaves it by evidence.                                    *)
THEOREM ErrorsAreKept == Spec => NoErrorForgotten
<1> DEFINE Accounted(p, path) ==
      LET r == run[p]
      IN  \/ r.disk[path] = "gone"
          \/ path \in r.req.covers \ Discovered(r.saw, r.req)
          \/ \E f \in r.files :
                \/ path = f /\ Importable(r.saw.disk, f)
                \/ path \in Chain(r.saw.disk, f) /\ Blockers(r.saw.disk, f) = {}
                \/ /\ path \in {f} \cup Chain(r.saw.disk, f)
                   /\ Blockers(r.saw.disk, f) \cap record'.errors # {}
                \/ Unpacked(r, f)
<1>1. ASSUME IInv, NEW p \in Procs, Writes(p), NEW path \in run[p].fresh.errors \ record'.errors
      PROVE  Accounted(p, path)
  <2>1. Writing(run[p]) /\ record' = run[p].merged  BY <1>1, WritesWhatItMerged
  <2> QED BY <1>1, <2>1, Clearing
<1>2. IInv => [\A p \in Procs : Writes(p) =>
                  \A path \in run[p].fresh.errors \ record'.errors : Accounted(p, path)]_vars
  BY <1>1
<1> QED BY <1>2, Invariance, PTL DEF NoErrorForgotten

(* And nothing wedges --lf: a green run over the whole tree empties it.    *)
THEOREM GreenRunsClear == Spec => GreenRunClears
<1> DEFINE Cleared(p) ==
      LET r == run[p]
      IN  /\ Writes(p) /\ r.fresh = r.last /\ r.disk = r.saw.disk
          /\ r.req.covers = Paths
          /\ r.req.keyword = Ids /\ r.req.tagged = Tests /\ r.req.names = {}
          /\ r.ran = r.collected.records /\ r.ran \cap r.saw.fails = {}
          /\ r.collected.errors \subseteq {Helper}
          => record' = Nothing
<1>1. ASSUME IInv, NEW p \in Procs PROVE Cleared(p)
  BY <1>1, WritesWhatItMerged, Greening
<1>2. IInv => [\A p \in Procs : Cleared(p)]_vars
  BY <1>1
<1> QED BY <1>2, Invariance, PTL DEF GreenRunClears

=============================================================================
