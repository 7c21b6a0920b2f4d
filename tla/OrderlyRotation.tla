--------------------------- MODULE OrderlyRotation ---------------------------
(***************************************************************************)
(* What a rotation of the auth token amounts to, seen from outside.  A     *)
(* version is staged, gets a value, is added to the cluster next to the    *)
(* current one and is tested there; then it becomes current, and the only  *)
(* one that the cluster accepts.  Each of this is done once.               *)
(***************************************************************************)
EXTENDS Integers, Sequences

VARIABLES
  current, \* the version at AWSCURRENT
  pending, \* the version at AWSPENDING
  put,     \* the versions that have a value
  tokens,  \* the one or two versions whose value the cluster accepts
  tested   \* the pending version was tested and is not yet current

vars == <<current, pending, put, tokens, tested>>

Init ==
  /\ current = 0
  /\ pending = 0
  /\ put = {0}
  /\ tokens = <<0>>
  /\ tested = FALSE

Stage ==
  /\ pending = current
  /\ pending' = pending + 1
  /\ UNCHANGED <<current, put, tokens, tested>>

Put ==
  /\ pending \notin put
  /\ put' = put \cup {pending}
  /\ UNCHANGED <<current, pending, tokens, tested>>

Add ==
  /\ pending # current
  /\ pending \in put
  /\ tokens = <<current>>
  /\ tokens' = <<current, pending>>
  /\ UNCHANGED <<current, pending, put, tested>>

Test ==
  /\ tokens = <<current, pending>>
  /\ tested' = TRUE
  /\ UNCHANGED <<current, pending, put, tokens>>

Move ==
  /\ tested
  /\ current' = pending
  /\ tested' = FALSE
  /\ UNCHANGED <<pending, put, tokens>>

\* The old token goes when the new one was tested, or is current.
Retire ==
  /\ Len(tokens) = 2
  /\ tested \/ tokens[2] = current
  /\ tokens' = <<tokens[2]>>
  /\ UNCHANGED <<current, pending, put, tested>>

Next == Stage \/ Put \/ Add \/ Test \/ Move \/ Retire

Spec == Init /\ [][Next]_vars
=============================================================================
