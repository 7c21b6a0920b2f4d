------------------------ MODULE SecretRotation_proofs ------------------------
(***************************************************************************)
(* Proofs about the rotation of the auth token, for any number of          *)
(* rotations, of invocations at a time, of time-outs and of repetitions.   *)
(***************************************************************************)
EXTENDS SecretRotation, TLAPS

Change(strategy, v) == [strategy |-> strategy, version |-> v]

\* The cluster accepts v alone, or has been asked to.
Alone(v) ==
  /\ tokens[Len(tokens)] = v
  /\ change \in {NoChange, Change("ROTATE", v), Change("SET", v)}
  /\ tokens = <<v>> \/ change = Change("SET", v)

\* It accepts the pending version next to the current one, or has been asked to.
Added ==
  \/ tokens = <<current>> /\ change = Change("ROTATE", pending)
  \/ tokens = <<current, pending>> /\ change \in {NoChange, Change("ROTATE", pending)}

\* The last step: the current version is being retired.
Retiring ==
  /\ tokens \in {<<current, pending>>, <<pending>>}
  /\ change \in {NoChange, Change("ROTATE", pending), Change("SET", pending)}

SetAlone == tokens = <<pending>> \/ change = Change("SET", pending)

\* How far the cluster is at each step of the rotation.
Progress ==
  /\ pending = current => step \in {0, 4} /\ Alone(current)
  /\ pending # current =>
       /\ pending = current + 1
       /\ step \in 1 .. 4
       /\ step = 1 => Alone(current)
       /\ step = 2 => Alone(current) \/ Added
       /\ step = 3 => Added
       /\ step = 4 => Retiring
  /\ step >= 2 => pending \in put

\* What an invocation has to show for the place it is at.
Call(i) ==
  inv[i].at # "idle" =>
    /\ inv[i].token = pending
    /\ step = 0 \/ inv[i].step <= step
    /\ inv[i].at = "connect" => inv[i].step = 3
    /\ inv[i].at = "move" => inv[i].step = 4 /\ SetAlone
    /\ (inv[i].at \in {"wait", "call", "move"} /\ inv[i].step = 4 /\ inv[i].seen = pending) =>
         current = pending
    /\ (inv[i].at = "return" /\ current # pending) =>
         /\ inv[i].step < 4
         /\ pending \in put
         /\ inv[i].step = 2 /\ step = 2 => Added
         /\ inv[i].step = 3 /\ step = 3 => tokens = <<current, pending>>

Calls == \A i \in Invocations : Call(i)

Inv == TypeOK /\ Progress /\ Calls

-----------------------------------------------------------------------------
(* The cluster.                                                            *)

LEMMA OneToken ==
  ASSUME NEW a, tokens = <<a>>
  PROVE  Accepted = {a} /\ tokens[Len(tokens)] = a
BY DEF Accepted

LEMMA TwoTokens ==
  ASSUME NEW a, NEW b, tokens = <<a, b>>
  PROVE  Accepted = {a, b} /\ tokens[Len(tokens)] = b
<1>1. DOMAIN tokens = {1, 2}
  OBVIOUS
<1>2. tokens[1] = a /\ tokens[2] = b /\ Len(tokens) = 2
  OBVIOUS
<1>3. QED
  BY <1>1, <1>2 DEF Accepted

LEMMA LastToken ==
  ASSUME TypeOK
  PROVE  /\ tokens[Len(tokens)] \in Accepted
         /\ \A v : Alone(v) => v \in Accepted
<1>1. tokens \in Seq(Versions) /\ Len(tokens) \in 1 .. 2
  BY DEF TypeOK
<1>2. Len(tokens) \in DOMAIN tokens
  BY <1>1
<1>3. QED
  BY <1>2 DEF Accepted, Alone

LEMMA Changes ==
  ASSUME NEW v
  PROVE  /\ Change("ROTATE", v).strategy = "ROTATE" /\ Change("ROTATE", v).version = v
         /\ Change("SET", v).strategy = "SET" /\ Change("SET", v).version = v
         /\ Change("ROTATE", v) # Change("SET", v)
         /\ NoChange \notin {Change("ROTATE", v), Change("SET", v)}
BY DEF Change, NoChange

\* The token that is asked for alone becomes the only one, and a token that is
\* asked for twice is added once.
LEMMA ModifiedAlone ==
  ASSUME TypeOK, NEW v, Modified, Alone(v)
  PROVE  tokens' = <<v>> /\ Accepted' = {v} /\ change' = NoChange
<1>1. change \in {Change("ROTATE", v), Change("SET", v)} /\ change' = NoChange
      /\ tokens' = Apply(change)
  BY DEF Modified, Available, Alone
<1>2. tokens' = <<v>>
  <2>1. CASE change = Change("SET", v)
    BY <1>1, <2>1, Changes DEF Apply
  <2>2. CASE change = Change("ROTATE", v)
    BY <1>1, <2>2, Changes, LastToken DEF Apply, Alone
  <2>3. QED
    BY <1>1, <2>1, <2>2
<1>3. Accepted' = {v}
  BY <1>2 DEF Accepted
<1>4. QED
  BY <1>1, <1>2, <1>3

LEMMA ModifiedAdded ==
  ASSUME Modified, Added, current # pending
  PROVE  tokens' = <<current, pending>> /\ change' = NoChange
<1>1. change = Change("ROTATE", pending) /\ change' = NoChange /\ tokens' = Apply(change)
  BY DEF Modified, Available, Added
<1>2. CASE tokens = <<current>>
  BY <1>1, <1>2, OneToken, Changes DEF Apply
<1>3. CASE tokens = <<current, pending>>
  BY <1>1, <1>3, TwoTokens, Changes DEF Apply
<1>4. QED
  BY <1>2, <1>3 DEF Added

LEMMA ModifiedRetiring ==
  ASSUME Modified, Retiring
  PROVE  /\ tokens' \in {tokens, <<pending>>} /\ change' = NoChange
         /\ change = Change("SET", pending) => tokens' = <<pending>>
<1>1. change \in {Change("ROTATE", pending), Change("SET", pending)} /\ change' = NoChange
      /\ tokens' = Apply(change)
  BY DEF Modified, Available, Retiring
<1>2. pending \in Accepted
  BY OneToken, TwoTokens DEF Retiring
<1>3. CASE change = Change("SET", pending)
  BY <1>1, <1>3, Changes DEF Apply
<1>4. CASE change = Change("ROTATE", pending)
  BY <1>1, <1>2, <1>4, Changes DEF Apply
<1>5. QED
  BY <1>1, <1>3, <1>4

-----------------------------------------------------------------------------
(* Type correctness.                                                       *)

LEMMA ChangeTypes ==
  ASSUME NEW v \in Versions, NEW s \in {"ROTATE", "SET"}
  PROVE  [strategy |-> s, version |-> v] \in
           [strategy : {"none", "ROTATE", "SET"}, version : Versions]
OBVIOUS

LEMMA InvTypes ==
  ASSUME TypeOK, NEW i \in Invocations,
         \/ Ends(i)
         \/ \E place \in Places : Goes(i, place)
         \/ \E place \in Places : inv' = [inv EXCEPT ![i].at = place, ![i].seen = current]
         \/ \E s \in 1 .. step : Begin(i, s)
  PROVE  inv' \in [Invocations ->
           [at : Places, step : 1 .. 4, token : Versions, seen : Versions]]
<1>1. Idle \in [at : Places, step : 1 .. 4, token : Versions, seen : Versions]
  BY RotationAssumption DEF Idle, Places, Versions
<1>2. CASE Ends(i)
  BY <1>1, <1>2 DEF Ends, TypeOK
<1>3. CASE \E place \in Places : Goes(i, place)
  BY <1>3 DEF Goes, TypeOK
<1>4. CASE \E place \in Places : inv' = [inv EXCEPT ![i].at = place, ![i].seen = current]
  BY ZenonT(40), <1>4 DEF TypeOK
<1>5. CASE \E s \in 1 .. step : Begin(i, s)
  <2>1. PICK s \in 1 .. step : Begin(i, s)
    BY <1>5
  <2>2. s \in 1 .. 4 /\ pending \in Versions
    BY <2>1 DEF TypeOK
  <2>3. [Idle EXCEPT !.at = "begin", !.step = s, !.token = pending] \in
          [at : Places, step : 1 .. 4, token : Versions, seen : Versions]
    BY <1>1, <2>2 DEF Places
  <2>4. QED
    BY <2>1, <2>3 DEF Begin, TypeOK
<1>6. QED
  BY <1>2, <1>3, <1>4, <1>5

\* The steps that change nothing but an invocation.
Local(i) ==
  /\ \/ LambdaHandler(i) \/ CreateSecret(i) \/ SetSecret(i) \/ TestSecret(i)
     \/ Connect(i) \/ FinishSecret(i) \/ IsClusterAvailable(i) \/ TimeOut(i)
     \/ inv[i].at # "idle" /\ Raises(i)
     \/ \E s \in 1 .. step : Begin(i, s)

LEMMA LocalTypes ==
  ASSUME TypeOK, NEW i \in Invocations, Local(i)
  PROVE  /\ UNCHANGED <<secret, step, cluster>>
         /\ inv' \in [Invocations ->
              [at : Places, step : 1 .. 4, token : Versions, seen : Versions]]
<1>1. UNCHANGED <<secret, step, cluster>>
  BY DEF Local, LambdaHandler, CreateSecret, SetSecret, TestSecret, Connect, FinishSecret,
         IsClusterAvailable, TimeOut, Raises, Begin
<1>2. \/ Ends(i)
      \/ \E place \in Places : Goes(i, place)
      \/ \E place \in Places : inv' = [inv EXCEPT ![i].at = place, ![i].seen = current]
      \/ \E s \in 1 .. step : Begin(i, s)
  BY DEF Local, LambdaHandler, CreateSecret, SetSecret, TestSecret, Connect, FinishSecret,
         IsClusterAvailable, TimeOut, Raises, Places
<1>3. QED
  BY <1>1, <1>2, InvTypes

\* The steps of the code with consequences, those that end in a refusal left out.
Puts(i) == PutSecretValue(i) /\ inv[i].token \notin put
Asks(i) == (SetRotate(i) \/ FinishSet(i)) /\ Available
Moves(i) == UpdateSecretVersionStage(i) /\ inv[i].seen \in {inv[i].token, current}

\* Every step is one of these, for the proof.
LEMMA Steps7 ==
  ASSUME TypeOK, [Next]_vars
  PROVE  \/ \E i \in Invocations :
              Local(i) \/ Puts(i) \/ Asks(i) \/ Moves(i) \/ Returns(i)
         \/ Rotate \/ Modified
         \/ UNCHANGED vars
<1>1. ASSUME NEW i \in Invocations, Handler(i)
      PROVE  Local(i) \/ Puts(i) \/ Asks(i) \/ Moves(i)
  <2>1. CASE PutSecretValue(i)
    BY <2>1 DEF PutSecretValue, Puts, Local, At
  <2>2. CASE SetRotate(i) \/ FinishSet(i)
    BY <2>2 DEF SetRotate, FinishSet, Asks, Local, At
  <2>3. CASE UpdateSecretVersionStage(i)
    BY <2>3 DEF UpdateSecretVersionStage, Moves, Local
  <2>4. QED
    BY <1>1, <2>1, <2>2, <2>3 DEF Handler, Local
<1>2. ASSUME NEW i \in Invocations, Invoke(i) PROVE Local(i)
  BY <1>2 DEF Invoke, Local, TypeOK
<1>3. ASSUME NEW i \in Invocations, InvokeAgain(i) PROVE Local(i)
  BY <1>3 DEF InvokeAgain, Local
<1>4. QED
  BY <1>1, <1>2, <1>3 DEF Next, Terminated, Local

LEMMA FaultTypes ==
  ASSUME TypeOK, [Next]_vars
  PROVE  faults' \in 0 .. MaxFaults
BY RotationAssumption
 DEF TypeOK, Next, Terminated, Rotate, Invoke, InvokeAgain, Handler, TimeOut,
     Returns, Modified, Fault, vars

LEMMA TypeStep ==
  TypeOK /\ [Next]_vars => TypeOK'
<1> SUFFICES ASSUME TypeOK, [Next]_vars PROVE TypeOK'
  OBVIOUS
<1> USE RotationAssumption
<1>0. faults' \in 0 .. MaxFaults
  BY FaultTypes
<1>1. ASSUME NEW i \in Invocations, Local(i) PROVE TypeOK'
  BY <1>0, <1>1, LocalTypes DEF TypeOK, secret, cluster
<1>2. ASSUME NEW i \in Invocations, Puts(i) PROVE TypeOK'
  <2>1. Goes(i, "return") /\ put' = put \cup {inv[i].token}
        /\ UNCHANGED <<current, pending, step, cluster>>
    BY <1>2 DEF Puts, PutSecretValue
  <2>2. put' \subseteq Versions
    BY <2>1 DEF TypeOK
  <2>3. QED
    BY <1>0, <2>1, <2>2, InvTypes DEF TypeOK, cluster, Places
<1>3. ASSUME NEW i \in Invocations, Asks(i) PROVE TypeOK'
  <2>1. \E s \in {"ROTATE", "SET"} : ModifyReplicationGroup(i, s)
    BY <1>3 DEF Asks, SetRotate, FinishSet
  <2>2. \E place \in {"return", "move"} : Goes(i, place)
    BY <1>3 DEF Asks, SetRotate, FinishSet
  <2>3. UNCHANGED <<secret, step>>
    BY <1>3 DEF Asks, SetRotate, FinishSet
  <2>4. change' \in [strategy : {"none", "ROTATE", "SET"}, version : Versions]
        /\ UNCHANGED tokens
    BY <2>1, ChangeTypes DEF ModifyReplicationGroup, TypeOK
  <2>5. QED
    BY <1>0, <2>2, <2>3, <2>4, InvTypes DEF TypeOK, secret, Places
<1>4. ASSUME NEW i \in Invocations, Moves(i) PROVE TypeOK'
  <2>1. Goes(i, "return") /\ UNCHANGED <<pending, put, step, cluster>>
        /\ current' \in {current, inv[i].token}
    BY <1>4 DEF Moves, UpdateSecretVersionStage
  <2>2. current' \in Versions
    BY <2>1 DEF TypeOK
  <2>3. QED
    BY <1>0, <2>1, <2>2, InvTypes DEF TypeOK, cluster, Places
<1>5. ASSUME NEW i \in Invocations, Returns(i) PROVE TypeOK'
  <2>1. Ends(i) /\ UNCHANGED <<secret, cluster>> /\ step' \in {step, (step + 1) % 5}
    BY <1>5 DEF Returns
  <2>2. step' \in 0 .. 4
    BY <2>1 DEF TypeOK
  <2>3. QED
    BY <1>0, <2>1, <2>2, InvTypes DEF TypeOK, secret, cluster
<1>6. CASE Rotate
  <2>1. pending + 1 \in Versions
    BY <1>6 DEF Rotate, TypeOK, Versions
  <2>2. QED
    BY <1>6, <2>1 DEF Rotate, TypeOK, cluster
<1>7. CASE Modified
  <2>1. change.version \in Versions /\ tokens \in Seq(Versions) /\ Len(tokens) \in 1 .. 2
    BY DEF TypeOK
  <2>2. tokens[Len(tokens)] \in Versions
    BY <2>1
  <2>3. Apply(change) \in Seq(Versions) /\ Len(Apply(change)) \in 1 .. 2
    BY <2>1, <2>2 DEF Apply
  <2>4. NoChange \in [strategy : {"none", "ROTATE", "SET"}, version : Versions]
    BY DEF NoChange, Versions
  <2>5. QED
    BY <1>7, <2>3, <2>4 DEF Modified, TypeOK, secret
<1>8. CASE UNCHANGED vars
  BY <1>8 DEF vars, secret, cluster, TypeOK
<1>9. QED
  BY <1>1, <1>2, <1>3, <1>4, <1>5, <1>6, <1>7, <1>8, Steps7

-----------------------------------------------------------------------------
(* The rotation.                                                           *)

LEMMA InitInv ==
  Init => Inv
<1> SUFFICES ASSUME Init PROVE Inv
  OBVIOUS
<1>1. TypeOK
  BY RotationAssumption DEF Init, TypeOK, Versions, NoChange, Idle, Places
<1>2. Alone(current)
  BY OneToken DEF Init, Alone
<1>3. Progress /\ Calls
  BY <1>2 DEF Init, Progress, Calls, Call, Idle
<1>4. QED
  BY <1>1, <1>3 DEF Inv

\* Where a step is asks for what.
LEMMA AskFacts ==
  ASSUME Inv, NEW i \in Invocations, Asks(i)
  PROVE  /\ UNCHANGED <<secret, step, tokens>> /\ change = NoChange
         /\ \/ /\ SetRotate(i) /\ inv[i].step = 2 /\ inv' = [inv EXCEPT ![i].at = "return"]
               /\ change' = Change("ROTATE", pending)
               /\ pending # current => step \in {2, 3, 4}
            \/ /\ FinishSet(i) /\ inv[i].step = 4 /\ inv' = [inv EXCEPT ![i].at = "move"]
               /\ change' = Change("SET", pending)
               /\ pending # current => step = 4
<1>1. inv[i].at = "call" /\ inv[i].token = pending /\ (step = 0 \/ inv[i].step <= step)
      /\ inv[i].step \in 1 .. 4 /\ step \in 0 .. 4
  BY DEF Asks, SetRotate, FinishSet, At, Inv, Calls, Call, TypeOK
<1>2. UNCHANGED <<secret, step, tokens>> /\ change = NoChange
  BY DEF Asks, SetRotate, FinishSet, ModifyReplicationGroup, Available
<1>3. pending # current => step # 0
  BY DEF Inv, Progress
<1>4. CASE SetRotate(i)
  <2>1. inv[i].step = 2
    BY <1>1, <1>4 DEF SetRotate, At, Steps
  <2>2. inv' = [inv EXCEPT ![i].at = "return"] /\ change' = Change("ROTATE", pending)
    BY <1>1, <1>4 DEF Asks, SetRotate, Goes, ModifyReplicationGroup, Change
  <2>3. QED
    BY <1>1, <1>2, <1>3, <1>4, <2>1, <2>2
<1>5. CASE FinishSet(i)
  <2>1. inv[i].step = 4
    BY <1>1, <1>5 DEF FinishSet, At, Steps
  <2>2. inv' = [inv EXCEPT ![i].at = "move"] /\ change' = Change("SET", pending)
    BY <1>1, <1>5 DEF Asks, FinishSet, Goes, ModifyReplicationGroup, Change
  <2>3. QED
    BY <1>1, <1>2, <1>3, <1>5, <2>1, <2>2
<1>6. QED
  BY <1>4, <1>5 DEF Asks

LEMMA MoveFacts ==
  ASSUME Inv, NEW i \in Invocations, Moves(i)
  PROVE  /\ UNCHANGED <<pending, put, step, cluster>>
         /\ inv[i].step = 4 /\ SetAlone /\ inv' = [inv EXCEPT ![i].at = "return"]
         /\ current' = pending
         /\ current # pending => step = 4
<1>1. inv[i].at = "move"
  BY DEF Moves, UpdateSecretVersionStage
<1>2. Call(i) /\ step \in 0 .. 4
  BY DEF Inv, Calls, TypeOK
<1>3. /\ inv[i].token = pending /\ inv[i].step = 4 /\ SetAlone
      /\ step = 0 \/ 4 <= step
      /\ inv[i].seen = pending => current = pending
  BY <1>1, <1>2 DEF Call
<1>4. /\ UNCHANGED <<pending, put, step, cluster>>
      /\ inv' = [inv EXCEPT ![i].at = "return"]
      /\ current' = IF inv[i].seen = pending THEN current ELSE pending
  BY <1>3 DEF Moves, UpdateSecretVersionStage, Goes
<1>5. current # pending => step # 0
  BY DEF Inv, Progress
<1>6. QED
  BY <1>2, <1>3, <1>4, <1>5

LEMMA ProgressStep ==
  Inv /\ [Next]_vars => Progress'
<1> SUFFICES ASSUME Inv, [Next]_vars PROVE Progress'
  OBVIOUS
<1> USE DEF Inv
<1>a. /\ current \in Nat /\ pending \in Nat /\ step \in 0 .. 4
  BY RotationAssumption DEF TypeOK, Versions
<1>1. ASSUME NEW i \in Invocations, Local(i) PROVE Progress'
  BY <1>1, LocalTypes DEF secret, cluster, Progress, Alone, Added, Retiring, Accepted
<1>2. ASSUME NEW i \in Invocations, Puts(i) PROVE Progress'
  BY <1>2 DEF Puts, PutSecretValue, cluster, Progress, Alone, Added, Retiring, Accepted
<1>3. ASSUME NEW i \in Invocations, Asks(i) PROVE Progress'
  <2>1. /\ UNCHANGED <<current, pending, put, step, tokens>> /\ change = NoChange
        /\ \/ /\ change' = Change("ROTATE", pending)
              /\ pending # current => step \in {2, 3, 4}
           \/ /\ change' = Change("SET", pending)
              /\ pending # current => step = 4
    BY <1>3, AskFacts DEF secret
  <2>2. Alone(current) => tokens = <<current>>
    BY <2>1, Changes DEF Alone
  <2>3. Added => tokens = <<current, pending>>
    BY <2>1, Changes DEF Added
  <2>4. CASE pending = current
    <3>1. Alone(current)'
      BY <2>1, <2>2, <2>4 DEF Progress, Alone, Accepted
    <3>2. QED
      BY <2>1, <2>4, <3>1 DEF Progress
  <2>5. CASE pending # current /\ step \in {2, 3}
    <3>1. Added'
      BY <2>1, <2>2, <2>3, <2>5 DEF Progress, Added
    <3>2. QED
      BY <2>1, <2>5, <3>1 DEF Progress
  <2>6. CASE pending # current /\ step = 4
    <3>1. Retiring'
      BY <2>1, <2>6 DEF Progress, Retiring
    <3>2. QED
      BY <2>1, <2>6, <3>1 DEF Progress
  <2>7. QED
    BY <2>1, <2>4, <2>5, <2>6
<1>4. ASSUME NEW i \in Invocations, Moves(i) PROVE Progress'
  <2>1. /\ UNCHANGED <<pending, put, step, tokens, change>>
        /\ SetAlone /\ current' = pending
        /\ current # pending => step = 4
    BY <1>4, MoveFacts DEF cluster
  <2>2. CASE current = pending
    BY <2>1, <2>2 DEF Progress, Alone, Added, Retiring, Accepted
  <2>3. CASE current # pending
    <3>1. Retiring /\ step = 4
      BY <2>1, <2>3 DEF Progress
    <3>2. pending \in Accepted
      BY <3>1, OneToken, TwoTokens DEF Retiring
    <3>3. Alone(current)'
      BY <2>1, <3>1, <3>2 DEF Alone, Retiring, SetAlone, Accepted
    <3>4. QED
      BY <2>1, <3>1, <3>3 DEF Progress
  <2>4. QED
    BY <2>2, <2>3
<1>5. ASSUME NEW i \in Invocations, Returns(i) PROVE Progress'
  <2>1. UNCHANGED <<current, pending, put, tokens, change>>
    BY <1>5 DEF Returns, secret, cluster
  <2>2. \/ step' = step
        \/ step = inv[i].step /\ step' = (step + 1) % 5
    BY <1>5 DEF Returns
  <2>3. CASE step' = step
    BY <2>1, <2>3 DEF Progress, Alone, Added, Retiring, Accepted
  <2>4. CASE step = inv[i].step /\ step' = (step + 1) % 5
    <3>1. inv[i].step \in 1 .. 4 /\ inv[i].at = "return"
      BY <1>5 DEF TypeOK, Returns
    <3>2. CASE pending = current
      <4>1. step = 4 /\ step' = 0
        BY <2>4, <3>1, <3>2 DEF Progress
      <4>2. QED
        BY <2>1, <3>2, <4>1 DEF Progress, Alone, Accepted
    <3>3. CASE pending # current
      <4>1. /\ inv[i].step < 4 /\ pending \in put
            /\ inv[i].step = 2 /\ step = 2 => Added
            /\ inv[i].step = 3 /\ step = 3 => tokens = <<current, pending>>
        BY <3>1, <3>3 DEF Calls, Call
      <4>2. step \in 1 .. 3 /\ step' = step + 1
        BY <2>4, <3>1, <4>1
      <4>3. CASE step = 1
        <5>1. Alone(current)'
          BY <2>1, <3>3, <4>3 DEF Progress, Alone, Accepted
        <5>2. QED
          BY <2>1, <3>3, <4>1, <4>2, <4>3, <5>1 DEF Progress
      <4>4. CASE step = 2
        <5>1. Added'
          BY <2>1, <2>4, <4>1, <4>4 DEF Added
        <5>2. QED
          BY <2>1, <3>3, <4>1, <4>2, <4>4, <5>1 DEF Progress
      <4>5. CASE step = 3
        <5>1. Retiring'
          BY <2>1, <2>4, <3>3, <4>1, <4>5 DEF Progress, Added, Retiring
        <5>2. QED
          BY <2>1, <3>3, <4>1, <4>2, <4>5, <5>1 DEF Progress
      <4>6. QED
        BY <4>2, <4>3, <4>4, <4>5
    <3>4. QED
      BY <3>2, <3>3
  <2>5. QED
    BY <2>2, <2>3, <2>4
<1>6. CASE Rotate
  <2>1. /\ step = 0 /\ step' = 1 /\ pending' = pending + 1
        /\ UNCHANGED <<current, put, tokens, change>>
    BY <1>6 DEF Rotate, cluster
  <2>2. pending = current
    BY <2>1 DEF Progress
  <2>3. Alone(current)'
    BY <2>1, <2>2 DEF Progress, Alone, Accepted
  <2>4. QED
    BY <1>a, <2>1, <2>2, <2>3 DEF Progress
<1>7. CASE Modified
  <2>1. UNCHANGED <<current, pending, put, step>>
    BY <1>7 DEF Modified, secret
  <2>2. Alone(current) => Alone(current)'
    BY <1>7, <2>1, ModifiedAlone DEF Alone
  <2>3. Added /\ current # pending => Added'
    BY <1>7, <2>1, ModifiedAdded DEF Added
  <2>4. Retiring => Retiring'
    BY <1>7, <2>1, ModifiedRetiring DEF Retiring
  <2>5. QED
    BY <2>1, <2>2, <2>3, <2>4 DEF Progress
<1>8. CASE UNCHANGED vars
  BY <1>8 DEF vars, secret, cluster, Progress, Alone, Added, Retiring, Accepted
<1>9. QED
  BY <1>1, <1>2, <1>3, <1>4, <1>5, <1>6, <1>7, <1>8, Steps7

\* An invocation that a step leaves alone has no more to show than before.
LEMMA CallKept ==
  ASSUME Inv, Progress', NEW j \in Invocations, inv'[j] = inv[j],
         pending' = pending, put \subseteq put',
         current' = current \/ current' = pending,
         \/ step' = step
         \/ step' = 0
         \/ step' = step + 1,
         SetAlone => SetAlone',
         pending # current /\ Added => Added',
         step = 3 /\ tokens = <<current, pending>> => tokens' = tokens
  PROVE  Call(j)'
<1>1. CASE inv[j].at = "idle"
  BY <1>1 DEF Call
<1>2. CASE inv[j].at # "idle"
  <2>1. inv[j].step \in 1 .. 4 /\ step \in 0 .. 4
    BY DEF Inv, TypeOK
  <2>2. step' = 0 \/ inv[j].step <= step'
    <3>1. step = 0 => step' # step + 1 \/ inv[j].step <= step'
      BY <1>2, <2>1 DEF Inv, Progress, Calls, Call
    <3>2. QED
      BY <1>2, <2>1, <3>1 DEF Inv, Calls, Call
  <2>3. QED
    BY <1>2, <2>1, <2>2 DEF Inv, Calls, Call, Progress
<1>3. QED
  BY <1>1, <1>2

\* What a step of the handler has to show for the place it goes to.
LEMMA LocalCall ==
  ASSUME Inv, NEW i \in Invocations, Local(i)
  PROVE  Call(i)'
<1> USE DEF Inv
<1>a. UNCHANGED <<current, pending, put, step, tokens, change>>
  BY LocalTypes DEF secret, cluster
<1>b. inv[i].step \in 1 .. 4 /\ step \in 0 .. 4 /\ Call(i)
      /\ inv \in [Invocations -> [at : Places, step : 1 .. 4, token : Versions, seen : Versions]]
  BY DEF TypeOK, Calls
<1>1. CASE Ends(i)
  BY <1>1, <1>b DEF Ends, Idle, Call
<1>2. CASE \E s \in 1 .. step : Begin(i, s)
  <2>1. PICK s \in 1 .. step : Begin(i, s)
    BY <1>2
  <2>2. inv'[i].at = "begin" /\ inv'[i].token = pending /\ inv'[i].step = s
    BY <1>b, <2>1 DEF Begin, Idle
  <2>3. QED
    BY <1>a, <1>b, <2>1, <2>2 DEF Call
<1>3. CASE LambdaHandler(i)
  BY <1>a, <1>b, <1>1, <1>3 DEF LambdaHandler, Goes, Call
<1>4. CASE CreateSecret(i)
  <2>1. inv[i].at = "read" /\ inv[i].step = 1
    BY <1>4, <1>b DEF CreateSecret, At, Steps
  <2>2. QED
    BY <1>a, <1>b, <1>4, <2>1 DEF CreateSecret, Goes, HasPending, Call
<1>5. CASE SetSecret(i)
  <2>1. inv[i].at = "read" /\ inv[i].step = 2
    BY <1>5, <1>b DEF SetSecret, At, Steps
  <2>2. QED
    BY <1>a, <1>b, <1>1, <1>5, <2>1 DEF SetSecret, Goes, Call
<1>6. CASE TestSecret(i)
  <2>1. inv[i].at = "read" /\ inv[i].step = 3
    BY <1>6, <1>b DEF TestSecret, At, Steps
  <2>2. QED
    BY <1>a, <1>b, <1>1, <1>6, <2>1 DEF TestSecret, Goes, Call
<1>7. CASE FinishSecret(i)
  BY <1>a, <1>b, <1>1, <1>7 DEF FinishSecret, At, Call
<1>8. CASE IsClusterAvailable(i)
  <2>1. inv[i].at = "wait" /\ (Steps[inv[i].step] = "testSecret" => inv[i].step = 3)
    BY <1>8, <1>b DEF IsClusterAvailable, Steps
  <2>2. QED
    BY <1>a, <1>b, <1>8, <2>1 DEF IsClusterAvailable, Goes, Call
<1>9. CASE Connect(i) /\ ~Ends(i)
  <2>1. inv[i].at = "connect" /\ inv[i].step = 3 /\ inv[i].token = pending
        /\ pending \in Accepted /\ inv' = [inv EXCEPT ![i].at = "return"]
    BY <1>9, <1>b DEF Connect, Goes, Call
  <2>2. ASSUME current # pending, step = 3 PROVE tokens = <<current, pending>>
    BY <2>1, <2>2, OneToken DEF Progress, Added
  <2>3. current # pending => pending \in put
    <3>1. step = 0 \/ 3 <= step
      BY <1>b, <2>1 DEF Call
    <3>2. QED
      BY <1>b, <3>1 DEF Progress
  <2>4. QED
    BY <1>a, <1>b, <2>1, <2>2, <2>3 DEF Call
<1>10. QED
  BY <1>1, <1>2, <1>3, <1>4, <1>5, <1>6, <1>7, <1>8, <1>9 DEF Local, TimeOut, Raises

LEMMA CallsStep ==
  Inv /\ Progress' /\ [Next]_vars => Calls'
<1> SUFFICES ASSUME Inv, Progress', [Next]_vars, NEW j \in Invocations PROVE Call(j)'
  BY DEF Calls
<1> USE DEF Inv
<1>b. inv \in [Invocations -> [at : Places, step : 1 .. 4, token : Versions, seen : Versions]]
      /\ step \in 0 .. 4
  BY DEF TypeOK
<1>1. ASSUME NEW i \in Invocations, Local(i) PROVE Call(j)'
  <2>1. CASE i = j
    BY <1>1, <2>1, LocalCall
  <2>2. CASE i # j
    <3>1. inv'[j] = inv[j]
      BY <1>1, <1>b, <2>2 DEF Local, LambdaHandler, CreateSecret, SetSecret, TestSecret, Connect,
         FinishSecret, IsClusterAvailable, TimeOut, Raises, Begin, Ends, Goes
    <3>2. QED
      BY <1>1, <3>1, LocalTypes, CallKept DEF secret, cluster, SetAlone, Added
  <2>3. QED
    BY <2>1, <2>2
<1>2. ASSUME NEW i \in Invocations, Puts(i) PROVE Call(j)'
  <2>1. /\ UNCHANGED <<current, pending, step, tokens, change>>
        /\ put' = put \cup {inv[i].token} /\ inv' = [inv EXCEPT ![i].at = "return"]
        /\ inv[i].at = "put" /\ Steps[inv[i].step] = "createSecret"
    BY <1>2 DEF Puts, PutSecretValue, Goes, At, cluster
  <2>2. CASE i = j
    <3>1. inv[i].step = 1
      BY <1>b, <2>1 DEF Steps
    <3>2. inv[i].token = pending /\ (step = 0 \/ inv[i].step <= step)
      BY <2>1 DEF Calls, Call
    <3>3. QED
      BY <1>b, <2>1, <2>2, <3>1, <3>2 DEF Call
  <2>3. CASE i # j
    BY <1>b, <2>1, <2>3, CallKept DEF SetAlone, Added
  <2>4. QED
    BY <2>2, <2>3
<1>3. ASSUME NEW i \in Invocations, Asks(i) PROVE Call(j)'
  <2>1. /\ UNCHANGED <<current, pending, put, step, tokens>> /\ change = NoChange
        /\ \/ /\ inv[i].step = 2 /\ inv' = [inv EXCEPT ![i].at = "return"]
              /\ change' = Change("ROTATE", pending)
              /\ pending # current => step \in {2, 3, 4}
           \/ /\ inv[i].step = 4 /\ inv' = [inv EXCEPT ![i].at = "move"]
              /\ change' = Change("SET", pending)
              /\ pending # current => step = 4
    BY <1>3, AskFacts DEF secret
  <2>2. Alone(current) => tokens = <<current>>
    BY <2>1, Changes DEF Alone
  <2>3. Added => tokens = <<current, pending>>
    BY <2>1, Changes DEF Added
  <2>4. CASE i = j
    <3>1. inv[i].at = "call" /\ inv[i].token = pending /\ (step = 0 \/ inv[i].step <= step)
          /\ (inv[i].step = 4 /\ inv[i].seen = pending => current = pending)
      BY <1>3 DEF Asks, SetRotate, FinishSet, At, Calls, Call
    <3>2. CASE inv[i].step = 4 /\ inv' = [inv EXCEPT ![i].at = "move"]
               /\ change' = Change("SET", pending)
      BY <1>b, <2>1, <2>4, <3>1, <3>2 DEF Call, SetAlone
    <3>3. CASE inv[i].step = 2 /\ inv' = [inv EXCEPT ![i].at = "return"]
               /\ change' = Change("ROTATE", pending)
               /\ (pending # current => step \in {2, 3, 4})
      <4>1. ASSUME current # pending, step = 2 PROVE Added'
        BY <2>1, <2>2, <2>3, <3>3, <4>1 DEF Progress, Added
      <4>2. current # pending => pending \in put
        BY <3>3 DEF Progress
      <4>3. QED
        BY <1>b, <2>1, <2>4, <3>1, <3>3, <4>1, <4>2 DEF Call
    <3>4. QED
      BY <2>1, <3>2, <3>3
  <2>5. CASE i # j
    <3>1. inv'[j] = inv[j]
      BY <1>b, <2>1, <2>5
    <3>2. SetAlone => SetAlone'
      BY <2>1, Changes DEF SetAlone
    <3>3. CASE step \in {2, 3} /\ current # pending
      <4>1. Added => Added'
        BY <2>1, <2>3, <3>3 DEF Added
      <4>2. QED
        BY <2>1, <3>1, <3>2, <4>1, CallKept
    <3>4. CASE step \notin {2, 3} \/ current = pending
      BY <1>b, <2>1, <3>1, <3>2, <3>4 DEF Calls, Call
    <3>5. QED
      BY <3>3, <3>4
  <2>6. QED
    BY <2>4, <2>5
<1>4. ASSUME NEW i \in Invocations, Moves(i) PROVE Call(j)'
  <2>1. /\ UNCHANGED <<pending, put, step, tokens, change>>
        /\ inv' = [inv EXCEPT ![i].at = "return"]
        /\ current' = pending
    BY <1>4, MoveFacts DEF cluster
  <2>2. inv[i].at # "idle"
    BY <1>4 DEF Moves, UpdateSecretVersionStage
  <2>3. QED
    BY <1>b, <2>1, <2>2 DEF Calls, Call, SetAlone
<1>5. ASSUME NEW i \in Invocations, Returns(i) PROVE Call(j)'
  <2>1. UNCHANGED <<current, pending, put, tokens, change>> /\ inv' = [inv EXCEPT ![i] = Idle]
        /\ step' \in {step, (step + 1) % 5}
    BY <1>5 DEF Returns, Ends, secret, cluster
  <2>2. CASE i = j
    BY <1>b, <2>1, <2>2 DEF Call, Idle
  <2>3. CASE i # j
    <3>1. step' = step \/ step' = 0 \/ step' = step + 1
      BY <1>b, <2>1
    <3>2. inv'[j] = inv[j]
      BY <1>b, <2>1, <2>3
    <3>3. QED
      BY <2>1, <3>1, <3>2, CallKept DEF SetAlone, Added
  <2>4. QED
    BY <2>2, <2>3
<1>6. CASE Rotate
  BY <1>6 DEF Rotate, Quiet, Idle, Call
<1>7. CASE Modified
  <2>1. UNCHANGED <<current, pending, put, step, inv>>
    BY <1>7 DEF Modified, secret
  <2>2. SetAlone => SetAlone'
    <3>1. CASE pending = current
      BY <1>7, <2>1, <3>1, ModifiedAlone DEF Progress, SetAlone
    <3>2. CASE pending # current /\ step = 4
      BY <1>7, <2>1, <3>2, ModifiedRetiring DEF Progress, SetAlone
    <3>3. CASE pending # current /\ step # 4
      <4>1. ~SetAlone
        <5>1. Alone(current) => change # Change("SET", pending) /\ tokens # <<pending>>
          BY <3>3, OneToken DEF Alone, Change, NoChange
        <5>2. Added => change # Change("SET", pending) /\ tokens # <<pending>>
          BY <3>3 DEF Added, Change, NoChange
        <5>3. QED
          BY <3>3, <5>1, <5>2 DEF Progress, SetAlone
      <4>2. QED
        BY <4>1
    <3>4. QED
      BY <3>1, <3>2, <3>3
  <2>3. pending # current /\ Added => Added' /\ tokens' = <<current, pending>>
    BY <1>7, <2>1, ModifiedAdded DEF Added
  <2>4. CASE pending = current
    BY <2>1, <2>2, <2>4 DEF Calls, Call
  <2>5. CASE pending # current
    <3>1. step = 3 => tokens' = <<current, pending>>
      BY <2>3, <2>5 DEF Progress
    <3>2. QED
      BY <2>1, <2>2, <2>3, <2>5, <3>1 DEF Calls, Call
  <2>6. QED
    BY <2>4, <2>5
<1>8. CASE UNCHANGED vars
  BY <1>8 DEF vars, secret, cluster, Calls, Call, SetAlone, Added
<1>9. QED
  BY <1>1, <1>2, <1>3, <1>4, <1>5, <1>6, <1>7, <1>8, Steps7

LEMMA Invariance ==
  Spec => []Inv
<1>1. Inv /\ [Next]_vars => Inv'
  BY TypeStep, ProgressStep, CallsStep DEF Inv
<1>2. QED
  BY InitInv, <1>1, PTL DEF Spec

-----------------------------------------------------------------------------

\* The rotation's variables keep their types, however many steps are repeated
\* or cut off.
THEOREM RotationTypeOK ==
  Spec => []TypeOK
BY Invariance, PTL DEF Inv

\* Whoever reads the secret can log in, but for the last step, and then the
\* value that becomes current is the one that is accepted.
THEOREM RotationInService ==
  Spec => []InService
<1>1. Inv => InService
  <2> SUFFICES ASSUME Inv PROVE InService
    OBVIOUS
  <2> USE DEF Inv
  <2>1. CASE pending = current
    BY <2>1, LastToken DEF Progress, InService
  <2>2. CASE pending # current /\ step # 4
    <3>1. Added => current \in Accepted
      BY OneToken, TwoTokens DEF Added
    <3>2. QED
      BY <2>2, <3>1, LastToken DEF Progress, InService
  <2>3. CASE pending # current /\ step = 4
    <3>1. pending \in Accepted
      BY <2>3, OneToken, TwoTokens DEF Progress, Retiring
    <3>2. QED
      BY <2>3, <3>1 DEF Progress, InService
  <2>4. QED
    BY <2>1, <2>2, <2>3
<1>2. QED
  BY Invariance, <1>1, PTL

\* When a rotation is over the cluster accepts the current value and no other.
THEOREM RotationOldRetired ==
  Spec => []OldRetired
<1>1. Inv => OldRetired
  <2> SUFFICES ASSUME Inv, step = 0, Available PROVE tokens = <<current>> /\ current = pending
    BY DEF OldRetired
  <2>1. pending = current /\ Alone(current)
    BY DEF Inv, Progress
  <2>2. QED
    BY <2>1, Changes DEF Alone, Available
<1>2. QED
  BY Invariance, <1>1, PTL

\* AWSCURRENT moves only in the last step, and only to the pending version, the
\* one that follows.
THEOREM RotationNeverBack ==
  Spec => NeverBack
<1>1. Inv /\ [Next]_vars =>
        [current' # current => current' = current + 1 /\ current' = pending /\ step = 4]_vars
  <2> SUFFICES ASSUME Inv, [Next]_vars, current' # current
               PROVE  current' = current + 1 /\ current' = pending /\ step = 4
    OBVIOUS
  <2>1. PICK i \in Invocations : Moves(i)
    <3>1. TypeOK
      BY DEF Inv
    <3>2. QED
      BY <3>1, Steps7, LocalTypes DEF secret, Puts, PutSecretValue, Asks, SetRotate, FinishSet,
         Returns, Rotate, Modified, vars
  <2>2. current' = pending /\ (current # pending => step = 4)
    BY <2>1, MoveFacts
  <2>3. QED
    BY <2>2 DEF Inv, Progress
<1>2. QED
  BY Invariance, <1>1, PTL DEF Spec, NeverBack

-----------------------------------------------------------------------------
(* One undisturbed rotation.                                               *)

\* The cluster makes a change: the new token is added, the old one retired, or
\* nothing is changed after all.
LEMMA ModifiedOrderly ==
  ASSUME Inv, Modified
  PROVE  Rotation!Add \/ Rotation!Retire \/ UNCHANGED Rotation!vars
<1> USE DEF Inv
<1>1. UNCHANGED <<current, pending, put, step>> /\ Tested' = Tested
  BY DEF Modified, secret, Tested
<1>2. tokens \in Seq(Versions) /\ Len(tokens) \in 1 .. 2
  BY DEF TypeOK
<1>3. ASSUME NEW v, Alone(v), v = current PROVE Rotation!Retire \/ UNCHANGED Rotation!vars
  <2>1. tokens' = <<v>> /\ tokens[Len(tokens)] = v
    BY <1>3, ModifiedAlone DEF Alone
  <2>2. CASE Len(tokens) = 1
    <3>1. tokens' = tokens
      BY <1>2, <2>1, <2>2
    <3>2. QED
      BY <1>1, <3>1 DEF Rotation!vars
  <2>3. CASE Len(tokens) = 2
    BY <1>1, <1>3, <2>1, <2>3 DEF Rotation!Retire
  <2>4. QED
    BY <1>2, <2>2, <2>3
<1>4. CASE pending = current
  BY <1>3, <1>4 DEF Progress
<1>5. CASE pending # current /\ Added
  <2>1. tokens' = <<current, pending>> /\ tokens \in {<<current>>, <<current, pending>>}
    BY <1>5, ModifiedAdded DEF Added
  <2>2. CASE tokens = <<current>> /\ pending \in put
    BY <1>1, <1>5, <2>1, <2>2 DEF Rotation!Add
  <2>3. CASE tokens = <<current, pending>>
    BY <1>1, <2>1, <2>3 DEF Rotation!vars
  <2>4. CASE pending \notin put
    <3>1. step = 1
      BY <1>5, <2>4 DEF Progress
    <3>2. Alone(current)
      BY <1>5, <3>1 DEF Progress
    <3>3. QED
      BY <1>3, <3>2
  <2>5. QED
    BY <2>1, <2>2, <2>3, <2>4
<1>6. CASE pending # current /\ step = 4
  <2>1. /\ tokens' \in {tokens, <<pending>>} /\ tokens \in {<<current, pending>>, <<pending>>}
        /\ Tested
    BY <1>6, ModifiedRetiring DEF Progress, Retiring, Tested
  <2>2. CASE tokens' = tokens
    BY <1>1, <2>2 DEF Rotation!vars
  <2>3. CASE tokens' = <<pending>> /\ tokens = <<current, pending>>
    <3>1. Len(tokens) = 2 /\ tokens[2] = pending
      BY <2>3
    <3>2. QED
      BY <1>1, <2>1, <2>3, <3>1 DEF Rotation!Retire
  <2>4. QED
    BY <2>1, <2>2, <2>3
<1>7. CASE pending # current /\ Alone(current)
  BY <1>3, <1>7
<1>8. QED
  BY <1>4, <1>5, <1>6, <1>7 DEF Progress

LEMMA StepOrderly ==
  ASSUME Inv, [Next]_vars
  PROVE  [Rotation!Next]_Rotation!vars
<1> USE DEF Inv
<1>a. step \in 0 .. 4
  BY DEF TypeOK
<1>1. ASSUME UNCHANGED <<current, pending, put, step, tokens>> PROVE UNCHANGED Rotation!vars
  BY <1>1 DEF Rotation!vars, Tested
<1>2. ASSUME NEW i \in Invocations, Local(i) PROVE UNCHANGED Rotation!vars
  BY <1>1, <1>2, LocalTypes DEF secret, cluster
<1>3. ASSUME NEW i \in Invocations, Asks(i) PROVE UNCHANGED Rotation!vars
  BY <1>1, <1>3, AskFacts DEF secret
<1>4. ASSUME NEW i \in Invocations, Puts(i) PROVE Rotation!Put
  <2>1. inv[i].at = "put" /\ inv[i].token \notin put /\ put' = put \cup {inv[i].token}
        /\ UNCHANGED <<current, pending, step, tokens>>
    BY <1>4 DEF Puts, PutSecretValue, At, cluster
  <2>2. inv[i].token = pending
    BY <2>1 DEF Calls, Call
  <2>3. QED
    BY <2>1, <2>2 DEF Rotation!Put, Tested
<1>5. ASSUME NEW i \in Invocations, Moves(i) PROVE Rotation!Move \/ UNCHANGED Rotation!vars
  <2>1. UNCHANGED <<pending, put, step, tokens>> /\ current' = pending
        /\ (current # pending => step = 4)
    BY <1>5, MoveFacts DEF cluster
  <2>2. CASE current = pending
    BY <1>1, <2>1, <2>2
  <2>3. CASE current # pending
    BY <2>1, <2>3 DEF Rotation!Move, Tested
  <2>4. QED
    BY <2>2, <2>3
<1>6. ASSUME NEW i \in Invocations, Returns(i) PROVE Rotation!Test \/ UNCHANGED Rotation!vars
  <2>1. UNCHANGED <<current, pending, put, tokens>> /\ inv[i].at = "return"
    BY <1>6 DEF Returns, secret, cluster
  <2>2. /\ step' = step \/ (step = inv[i].step /\ step' = (step + 1) % 5)
        /\ inv[i].step \in 1 .. 4
    BY <1>6 DEF Returns, TypeOK
  <2>3. CASE step' = step \/ current = pending
    BY <2>1, <2>2, <2>3 DEF Rotation!vars, Tested
  <2>4. CASE step' # step /\ current # pending
    <3>1. step = inv[i].step /\ step \in 1 .. 3 /\ step' = step + 1
          /\ (step = 3 => tokens = <<current, pending>>)
      BY <2>1, <2>2, <2>4 DEF Calls, Call
    <3>2. CASE step = 3
      BY <2>1, <2>4, <3>1, <3>2 DEF Rotation!Test, Tested
    <3>3. CASE step # 3
      <4>1. ~Tested /\ ~Tested'
        BY <3>1, <3>3 DEF Tested
      <4>2. QED
        BY <2>1, <4>1 DEF Rotation!vars, Tested
    <3>4. QED
      BY <3>2, <3>3
  <2>5. QED
    BY <2>3, <2>4
<1>7. CASE Rotate
  <2>1. step = 0 /\ step' = 1 /\ pending' = pending + 1 /\ UNCHANGED <<current, put, tokens>>
    BY <1>7 DEF Rotate, cluster
  <2>2. pending = current /\ Tested' = Tested
    BY <2>1 DEF Progress, Tested
  <2>3. QED
    BY <2>1, <2>2 DEF Rotation!Next, Rotation!Stage
<1>8. CASE UNCHANGED vars
  BY <1>1, <1>8 DEF vars, secret, cluster
<1>9. QED
  BY <1>2, <1>3, <1>4, <1>5, <1>6, <1>7, <1>8, ModifiedOrderly, Steps7 DEF Rotation!Next

\* However often the steps of a rotation are repeated, late or cut off, what
\* becomes of the secret and of the cluster's tokens is one rotation after the
\* other, each in order and without a step made twice.
THEOREM RotationOrderly ==
  Spec => Orderly
<1>1. Init => Rotation!Init
  BY DEF Init, Rotation!Init, Tested
<1>2. Inv /\ [Next]_vars => [Rotation!Next]_Rotation!vars
  BY StepOrderly
<1>3. QED
  BY Invariance, <1>1, <1>2, PTL DEF Spec, Orderly, Rotation!Spec
=============================================================================
