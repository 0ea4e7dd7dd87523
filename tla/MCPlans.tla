------------------------------- MODULE MCPlans -------------------------------
(* Three fixtures and two tests of two modules for TLC.                     *)
EXTENDS Plans

MCSites == {<<>>, <<2>>, <<1, 1>>, <<2, 1>>}

\* An id "a", and two cases that were both given it.
MCa == <<97>>
MCIdLists == {<<>>, <<MCa, MCa>>}

MCTests == <<"t", "u">>
MCModuleOf == [t |-> "m", u |-> "n"]

Use(implicit, roots, cases) == [implicit |-> implicit, roots |-> roots, cases |-> cases]
MCUsesOf ==
    [t |-> {Use(<<1>>, <<3>>, <<>>), Use(<<3>>, <<2>>, <<>>), Use(<<>>, <<1, 3>>, <<>>)},
     \* Numbering the first two ids must stay clear of the third.
     u |-> {Use(<<>>, <<3>>, <<>>), Use(<<2>>, <<>>, <<MCa, MCa, Append(MCa, 0)>>)}]
=============================================================================
