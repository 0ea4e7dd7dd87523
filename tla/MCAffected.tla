----------------------------- MODULE MCAffected -----------------------------
(* Two tests of one file for TLC: t1 over one session fixture, t2 over two. *)
EXTENDS Affected

MCTexts(x) ==
    CASE x = "t1" -> {[NoText EXCEPT !.reads = {"d"}]}
      [] x = "t2" -> {[NoText EXCEPT !.refs = {"h"}]}
      [] x = "s1" -> {[NoText EXCEPT !.refs = {"h"}], [NoText EXCEPT !.threads = {"h"}]}
      [] x = "s2" -> {NoText}
      [] x \in {"h", "d"} -> {NoText, [NoText EXCEPT !.ok = FALSE]}

MCPlanOf(t) == IF t = "t1" THEN <<"s1">> ELSE <<"s1", "s2">>
MCFileOf(t) == "f"

\* All is well to begin with.
MCTrees == {[x \in Things |-> CHOOSE text \in MCTexts(x) : text.ok /\ text.threads = {}]}
=============================================================================
