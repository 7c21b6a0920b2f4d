--------------------------- MODULE MCToolkitBuild ---------------------------
(* Model-checking instance of ToolkitBuild: two projects, one or two at a    *)
(* time, in a language with one build step and a venv, in one with two, or   *)
(* in none.                                                                  *)
EXTENDS ToolkitBuild

MCLangs == {"python", "java", "unknown"}
MCFilters == {"all", "python"}
MCConcurrencies == {0, 1, 2}
=============================================================================
