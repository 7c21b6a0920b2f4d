---------------------------- MODULE MCPlanRunner ----------------------------
(* Model-checking instance of PlanRunner.                                    *)
EXTENDS PlanAtomicity

MCKind == <<"go", "text">>
MCModes == {"dry-run", "check", "write"}
MCGoResolves == {"low", "new"}
=============================================================================
