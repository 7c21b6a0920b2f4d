---------------------------- MODULE MCBlueGreen ----------------------------
(* Model-checking instance of BlueGreen: two invocations at a time.          *)
EXTENDS BlueGreen
=============================================================================
