-------------------------- MODULE MCJobDeclaration --------------------------
(***************************************************************************)
(* Two miners, one with a template of several transactions, and a          *)
(* coordinator in any of its modes.                                        *)
(***************************************************************************)
EXTENDS JobDeclaration, TLC

CONSTANTS m1, m2

MCMiners == {m1, m2}
MCBodies == {m1}
MCVersionOf == [m \in {m1, m2} |-> 4]
MCMaxCalls == (m1 :> 2) @@ (m2 :> 1)
MCModes ==
  {"accept", "reject", "drop", "stall", "malformed", "downgrade", "scenario", "equivocate"}
=============================================================================
