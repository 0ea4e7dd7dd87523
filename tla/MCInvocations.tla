--------------------------- MODULE MCInvocations ---------------------------
(* A suite for TLC: a package whose file holds a test that can be          *)
(* parametrized and a plain one, and a directory under it that is no       *)
(* package, with a file of its own.                                        *)
EXTENDS Invocations, TLC

CONSTANTS pkgInit, pkgFile, nsFile, outside, roles, other, deep, admin, p1, p2

MCFiles   == {pkgFile, nsFile}
MCInits   == {pkgInit}
MCInitsOf == pkgFile :> <<pkgInit>> @@ nsFile :> <<>>
MCUnder   == pkgInit :> {pkgFile, nsFile}
MCTests   == {roles, other, deep}
MCFileOf  == roles :> pkgFile @@ other :> pkgFile @@ deep :> nsFile
MCCasesOf == roles :> {admin} @@ other :> {} @@ deep :> {}

Fine == [disk |-> [p \in Paths |-> "fine"],
         shape |-> roles :> "cased" @@ other :> "plain" @@ deep :> "plain",
         fails |-> {admin, other, deep}, misplaced |-> FALSE]

MCTrees == {
    Fine,
    [Fine EXCEPT !.disk[pkgInit] = "broken", !.shape[other] = "bad", !.misplaced = TRUE]}

Whole == [lf |-> FALSE, walks |-> Files, named |-> FALSE, covers |-> Paths,
          keyword |-> Ids, tagged |-> Tests, names |-> {}]

MCSymmetry == Permutations({p1, p2})

MCCommands == {
    Whole,
    [Whole EXCEPT !.lf = TRUE],
    [Whole EXCEPT !.keyword = Ids \ {other}, !.tagged = {other, deep}],
    [Whole EXCEPT !.walks = {pkgFile}, !.named = TRUE, !.covers = {}, !.names = {admin}],
    [Whole EXCEPT !.walks = {nsFile}, !.covers = {nsFile}]}
=============================================================================
