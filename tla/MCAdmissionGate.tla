-------------------------- MODULE MCAdmissionGate --------------------------
(* Small suites for TLC: two tests that share a token, one that needs both *)
(* tokens, one with none, and a solo test that names a token as well.      *)
EXTENDS AdmissionGate, TLC

CONSTANTS both, left, right, plain, alone, x, y

MCTests    == {both, left, right, plain, alone}
MCTokensOf == both :> {x, y} @@ left :> {x} @@ right :> {y} @@ plain :> {} @@ alone :> {x}
MCSolo     == {alone}
=============================================================================
