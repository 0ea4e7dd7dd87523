---------------------------- MODULE MCScopeStore ----------------------------
(* A suite for TLC.  Two tests of one module use the session's and the     *)
(* module's fixture, the first also two of its own built on those; a test  *)
(* of another module uses the session's alone.                             *)
EXTENDS ScopeStore

CONSTANTS one, two, other,          \* the tests
          mod, elsewhere,           \* their modules
          engine, client, row, tmp  \* session, module and function fixtures

MCModules   == {mod, elsewhere}
MCKeys      == {engine, client, row, tmp}
MCScopeOf   == [k \in MCKeys |-> IF k = engine THEN "session"
                                 ELSE IF k = client THEN "module" ELSE "function"]
MCDependsOn == [k \in MCKeys |-> IF k = client THEN {engine} ELSE IF k = row THEN {client} ELSE {}]
Plans       == one :> <<engine, client, row, tmp>> @@ two :> <<engine, client>> @@ other :> <<engine>>

MCTests     == {one, two, other}
MCModuleOf  == one :> mod @@ two :> mod @@ other :> elsewhere
MCPlan      == [t \in MCTests |-> Plans[t]]

\* The module alone, for the runs on liveness and teardown order.
PairTests    == {one, two}
PairModuleOf == [t \in PairTests |-> mod]
PairPlan     == [t \in PairTests |-> Plans[t]]
=============================================================================
