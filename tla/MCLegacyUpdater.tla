--------------------------- MODULE MCLegacyUpdater ---------------------------
(* Model-checking instance of LegacyUpdater: a CDK project in the old format   *)
(* and one that has the CLI only in a batch, and a CDK project in the next,    *)
(* which has yet to be migrated or not, with a cdk.json that is odd or not.    *)
EXTENDS LegacyUpdater

MCKind == <<"cdk", "cli", "cdk">>

Files(value) == [c \in Companions |-> value]
Project(f, v, files) == [format |-> f, version |-> v, file |-> files]

Last(f, c) == Project(f, "latest", [Files("else") EXCEPT !["cdk.json"] = c])

MCTrees ==
  {<<Project("old", "stale", Files("old")), Project("new", "stale", Files("else")), last>> :
     last \in {Last("old", "odd"), Last("new", "old")}}
=============================================================================
