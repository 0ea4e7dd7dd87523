------------------------- MODULE MCCollectionIndex -------------------------
(* A package with one file for TLC, and one command for all or for part.   *)
EXTENDS CollectionIndex, TLC

CONSTANTS pkgInit, pkgFile, outside, roles, other, admin, p1, p2

MCInitsOf == pkgFile :> <<pkgInit>>
MCUnder   == pkgInit :> {pkgFile}
MCFileOf  == roles :> pkgFile @@ other :> pkgFile
MCCasesOf == roles :> {admin} @@ other :> {}

MCTrees == {[disk |-> [p \in Paths |-> "fine"],
             shape |-> roles :> "cased" @@ other :> "plain",
             fails |-> {}, misplaced |-> FALSE]}

Whole == [lf |-> FALSE, walks |-> Files, named |-> FALSE, covers |-> Paths,
          keyword |-> Ids, tagged |-> Tests, names |-> {}]

MCRequests == {Whole, [Whole EXCEPT !.keyword = {other}]}
=============================================================================
