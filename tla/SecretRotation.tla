---------------------------- MODULE SecretRotation ----------------------------
(***************************************************************************)
(* The rotation of the auth token of an ElastiCache replication group,     *)
(* typescript/secrets-manager-rotation: lambda/index.py, with Secrets      *)
(* Manager, which invokes it once for each of the four steps of a rotation *)
(* and again for a step that has failed, timed out or been asked for       *)
(* twice, and the cluster, which makes a change some time after it was     *)
(* asked to.                                                               *)
(*                                                                         *)
(* An invocation is over in thirty seconds and rotations are fifteen days  *)
(* apart: none begins while an invocation of an earlier one is running.    *)
(***************************************************************************)
EXTENDS Integers, Sequences

CONSTANTS
  Invocations, \* how many there can be at a time
  MaxVersion,  \* bound on the number of rotations
  MaxFaults    \* bound on the time-outs and on the invocations made twice

ASSUME RotationAssumption == MaxVersion \in Nat /\ MaxFaults \in Nat

\* The versions of the secret, which their ClientRequestTokens name.
Versions == 0 .. MaxVersion

Steps  == <<"createSecret", "setSecret", "testSecret", "finishSecret">>
Places == {"idle", "begin", "read", "put", "wait", "call", "connect", "move", "return"}

VARIABLES
  current, \* the version at AWSCURRENT
  pending, \* the version at AWSPENDING
  put,     \* the versions that have a value
  step,    \* the step the rotation has come to, an index of Steps, or 0
  tokens,  \* the one or two versions whose value the cluster accepts
  change,  \* the modification of the cluster that is under way, if any
  inv,     \* of each invocation: its step, version, place and what it has read
  faults   \* time-outs and second invocations so far

secret  == <<current, pending, put>>
cluster == <<tokens, change>>
vars    == <<secret, step, cluster, inv, faults>>

NoChange == [strategy |-> "none", version |-> 0]
Idle     == [at |-> "idle", step |-> 1, token |-> 0, seen |-> 0]

\* The fields have their types; the cluster holds one token or two.
TypeOK ==
  /\ {current, pending} \subseteq Versions
  /\ put \subseteq Versions
  /\ step \in 0 .. 4
  /\ tokens \in Seq(Versions) /\ Len(tokens) \in 1 .. 2
  /\ change \in [strategy : {"none", "ROTATE", "SET"}, version : Versions]
  /\ inv \in [Invocations ->
       [at : Places, step : 1 .. 4, token : Versions, seen : Versions]]
  /\ faults \in 0 .. MaxFaults

Init ==
  /\ current = 0
  /\ pending = 0
  /\ put = {0}
  /\ step = 0
  /\ tokens = <<0>>
  /\ change = NoChange
  /\ inv = [i \in Invocations |-> Idle]
  /\ faults = 0

Available == change = NoChange
Accepted  == {tokens[n] : n \in DOMAIN tokens}
Quiet     == \A i \in Invocations : inv[i] = Idle

-----------------------------------------------------------------------------
(* Secrets Manager.                                                        *)

\* A new version is staged, once the last rotation is complete.
Rotate ==
  /\ step = 0
  /\ Quiet
  /\ pending < MaxVersion
  /\ pending' = pending + 1
  /\ step' = 1
  /\ UNCHANGED <<current, put, cluster, inv, faults>>

Begin(i, s) ==
  /\ inv[i] = Idle
  /\ inv' = [inv EXCEPT ![i] = [Idle EXCEPT !.at = "begin", !.step = s, !.token = pending]]
  /\ UNCHANGED <<secret, step, cluster>>

Fault == faults < MaxFaults /\ faults' = faults + 1

\* The step the rotation has come to is invoked until it has succeeded.
Invoke(i) ==
  /\ step # 0
  /\ \A j \in Invocations : inv[j] = Idle \/ inv[j].step # step
  /\ Begin(i, step)
  /\ UNCHANGED faults

\* That step or an earlier one is invoked once more.
InvokeAgain(i) ==
  /\ Fault
  /\ \E s \in 1 .. step : Begin(i, s)

Ends(i) == inv' = [inv EXCEPT ![i] = Idle]

\* An exception is an answer without consequences.
Raises(i) == Ends(i) /\ UNCHANGED <<secret, step, cluster>>

\* Any call can be refused, and thirty seconds be over anywhere.
TimeOut(i) ==
  /\ inv[i] # Idle
  /\ Fault
  /\ Raises(i)

\* Mutant: the last step is followed by a fifth.
Returns_OneMore(i) ==
  /\ inv[i].at = "return"
  /\ step' = IF step # inv[i].step THEN step ELSE step + 1
  /\ Ends(i)
  /\ UNCHANGED <<secret, cluster, faults>>

\* The first success of a step lets the rotation go on to the next.
Returns(i) ==
  /\ inv[i].at = "return"
  /\ step' = IF step # inv[i].step THEN step ELSE (step + 1) % 5
  /\ Ends(i)
  /\ UNCHANGED <<secret, cluster, faults>>

-----------------------------------------------------------------------------
(* The cluster.                                                            *)

\* ROTATE adds a token and keeps the one that was set before it, SET leaves no
\* other.  A token that the cluster has is not added again.
Apply(c) ==
  IF c.strategy = "SET" THEN <<c.version>>
  ELSE IF c.version \in Accepted THEN tokens
  ELSE <<tokens[Len(tokens)], c.version>>

Modified ==
  /\ ~Available
  /\ tokens' = Apply(change)
  /\ change' = NoChange
  /\ UNCHANGED <<secret, step, inv, faults>>

ModifyReplicationGroup(i, strategy) ==
  /\ Available
  /\ change' = [strategy |-> strategy, version |-> inv[i].token]
  /\ UNCHANGED tokens

-----------------------------------------------------------------------------
(* lambda_handler.                                                         *)

At(i, name, place) == inv[i].at = place /\ Steps[inv[i].step] = name
Goes(i, place)     == inv' = [inv EXCEPT ![i].at = place]

\* A step of a version that is current is done, one of a version that is not
\* pending is refused.
LambdaHandler(i) ==
  /\ inv[i].at = "begin"
  /\ IF inv[i].token = current THEN Goes(i, "return")
     ELSE IF inv[i].token = pending THEN Goes(i, "read") ELSE Ends(i)
  /\ UNCHANGED <<secret, step, cluster>>

\* The value of the version, if it is at AWSPENDING.
HasPending(i) == inv[i].token = pending /\ inv[i].token \in put

CreateSecret(i) ==
  /\ At(i, "createSecret", "read")
  /\ Goes(i, IF HasPending(i) THEN "return" ELSE "put")
  /\ UNCHANGED <<secret, step, cluster>>

\* A version is put once: what an invocation generated after another has put
\* it is refused.
PutSecretValue(i) ==
  /\ At(i, "createSecret", "put")
  /\ IF inv[i].token \in put THEN Raises(i)
     ELSE /\ put' = put \cup {inv[i].token}
          /\ Goes(i, "return")
          /\ UNCHANGED <<current, pending, step, cluster>>

\* Mutant: the new version is current as soon as the cluster is to get it.
SetSecret_MovesStage(i) ==
  /\ At(i, "setSecret", "read")
  /\ Goes(i, "wait")
  /\ current' = inv[i].token
  /\ UNCHANGED <<pending, put, step, cluster>>

SetSecret(i) ==
  /\ At(i, "setSecret", "read")
  /\ IF HasPending(i) THEN Goes(i, "wait") ELSE Ends(i)
  /\ UNCHANGED <<secret, step, cluster>>

TestSecret(i) ==
  /\ At(i, "testSecret", "read")
  /\ IF HasPending(i) THEN Goes(i, "wait") ELSE Ends(i)
  /\ UNCHANGED <<secret, step, cluster>>

\* The versions and their stages are read before the wait.
FinishSecret(i) ==
  /\ At(i, "finishSecret", "read")
  /\ IF HasPending(i)
     THEN inv' = [inv EXCEPT ![i].at = "wait", ![i].seen = current]
     ELSE Ends(i)
  /\ UNCHANGED <<secret, step, cluster>>

IsClusterAvailable(i) ==
  /\ inv[i].at = "wait"
  /\ Available
  /\ Goes(i, IF Steps[inv[i].step] = "testSecret" THEN "connect" ELSE "call")
  /\ UNCHANGED <<secret, step, cluster>>

\* Mutant: the old token is not kept.
SetRotate_Set(i) ==
  /\ At(i, "setSecret", "call")
  /\ IF Available
     THEN /\ ModifyReplicationGroup(i, "SET")
          /\ Goes(i, "return")
          /\ UNCHANGED <<secret, step>>
     ELSE Raises(i)

\* The cluster refuses if it is no longer available.
SetRotate(i) ==
  /\ At(i, "setSecret", "call")
  /\ IF Available
     THEN /\ ModifyReplicationGroup(i, "ROTATE")
          /\ Goes(i, "return")
          /\ UNCHANGED <<secret, step>>
     ELSE Raises(i)

Connect(i) ==
  /\ inv[i].at = "connect"
  /\ IF inv[i].token \in Accepted THEN Goes(i, "return") ELSE Ends(i)
  /\ UNCHANGED <<secret, step, cluster>>

\* Mutant: the old token is kept.
FinishSet_Rotate(i) ==
  /\ At(i, "finishSecret", "call")
  /\ IF Available
     THEN /\ ModifyReplicationGroup(i, "ROTATE")
          /\ Goes(i, "move")
          /\ UNCHANGED <<secret, step>>
     ELSE Raises(i)

FinishSet(i) ==
  /\ At(i, "finishSecret", "call")
  /\ IF Available
     THEN /\ ModifyReplicationGroup(i, "SET")
          /\ Goes(i, "move")
          /\ UNCHANGED <<secret, step>>
     ELSE Raises(i)

\* Mutant: success is reported before the stage is moved.
UpdateSecretVersionStage_Lost(i) ==
  /\ inv[i].at = "move"
  /\ Goes(i, "return")
  /\ UNCHANGED <<secret, step, cluster>>

\* Nothing is left to do if the version was already current when the versions
\* were read, and Secrets Manager refuses to take AWSCURRENT from a version that
\* is not at it.
UpdateSecretVersionStage(i) ==
  /\ inv[i].at = "move"
  /\ IF inv[i].seen \in {inv[i].token, current}
     THEN /\ current' = IF inv[i].seen = inv[i].token THEN current ELSE inv[i].token
          /\ Goes(i, "return")
          /\ UNCHANGED <<pending, put, step, cluster>>
     ELSE Raises(i)

-----------------------------------------------------------------------------

Handler(i) ==
  /\ \/ LambdaHandler(i)
     \/ CreateSecret(i) \/ PutSecretValue(i)
     \/ SetSecret(i) \/ SetRotate(i)
     \/ TestSecret(i) \/ Connect(i)
     \/ FinishSecret(i) \/ FinishSet(i) \/ UpdateSecretVersionStage(i)
     \/ IsClusterAvailable(i)
  /\ UNCHANGED faults

Terminated == step = 0 /\ pending = MaxVersion /\ Quiet /\ Available /\ UNCHANGED vars

Next ==
  \/ Rotate
  \/ \E i \in Invocations : Invoke(i) \/ InvokeAgain(i) \/ Handler(i) \/ TimeOut(i) \/ Returns(i)
  \/ Modified
  \/ Terminated

Spec == Init /\ [][Next]_vars

\* Secrets Manager invokes a step that has not succeeded, the cluster ends what
\* it was asked for, and an invocation that is not over goes on.
Fairness ==
  /\ WF_vars(Modified)
  /\ WF_vars(\E i \in Invocations : Invoke(i))
  /\ \A i \in Invocations : WF_vars(Handler(i) \/ Returns(i))

FairSpec == Spec /\ Fairness

-----------------------------------------------------------------------------
(* Properties.                                                             *)

\* Whoever reads the secret can log in, whatever steps are repeated, late or cut
\* off: the cluster accepts the value of the current version, but for the last
\* step (lambda/index.py:290), which retires the old token before it moves
\* AWSCURRENT, and there it accepts the value that becomes current.
InService ==
  /\ pending \in Accepted \/ current \in Accepted
  /\ current \notin Accepted => step = 4 /\ pending \in Accepted /\ pending \in put

\* When a rotation is over the cluster accepts the current value and no other
\* (lambda/index.py:290-295): neither the old token nor one that a repeated
\* step adds after the last one stays valid.
OldRetired ==
  step = 0 /\ Quiet /\ Available => tokens = <<current>> /\ current = pending

\* The secret goes from one version to the next, and to one the cluster was
\* asked to set alone: no step of an earlier read (lambda/index.py:279) takes
\* AWSCURRENT back.
NeverBack ==
  [][current' # current => current' = current + 1 /\ current' = pending /\ step = 4]_vars

\* Repeated, late and cut-off invocations come to what one undisturbed rotation
\* does: a version is put, added, tested, made current and left alone, each once.
\* No step of an earlier read (lambda/index.py:279) takes AWSCURRENT back, and no
\* token is retired before the next one was tested.
Tested == step = 4 /\ pending # current

Rotation == INSTANCE OrderlyRotation WITH tested <- Tested

Orderly == Rotation!Spec

\* A rotation that has begun ends with the new version current and the cluster
\* at rest, though a time-out can cut off each step at each point
\* (lambda/index.py:176, 233, 287).
Rotated == (pending # current) ~> (pending = current /\ step = 0 /\ Available)

=============================================================================
