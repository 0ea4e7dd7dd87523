----------------------------- MODULE MCSession -----------------------------
(* A suite for TLC: a test under a timeout, one that is expected to fail   *)
(* and shares a token with it, and one that runs in a subprocess.          *)
EXTENDS Session, TLC

CONSTANTS timed, known, apart, token

MCTests    == {timed, known, apart}
MCTokensOf == timed :> {token} @@ known :> {token} @@ apart :> {}
MCXfail    == timed :> "none" @@ known :> "strict" @@ apart :> "none"
=============================================================================
