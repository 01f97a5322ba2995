-------------------------- MODULE MCServiceManager --------------------------
(***************************************************************************)
(* A diamond without its top: c needs a and b, b needs a.                  *)
(***************************************************************************)
EXTENDS ServiceManager, TLC

CONSTANTS a, b, c, p1, p2, p3

MCServices == {a, b, c}
MCDeps == (a :> << >>) @@ (b :> <<a>>) @@ (c :> <<b, a>>)
MCOrder == <<a, b, c>>
MCPolicy == (a :> "Never") @@ (b :> "OnFailure") @@ (c :> "Always")
MCLimit == (a :> 1) @@ (b :> 1) @@ (c :> 0)
MCPids == {p1, p2, p3}
PidSymmetry == Permutations(MCPids)
=============================================================================
