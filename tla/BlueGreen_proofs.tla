--------------------------- MODULE BlueGreen_proofs ---------------------------
(***************************************************************************)
(* Proofs about the blue/green deployment, for any number of jobs, of      *)
(* invocations at a time and of events delivered twice.                    *)
(***************************************************************************)
EXTENDS BlueGreen, FiniteSetTheorems, TLAPS

\* The invocation that has created a version, and has it in hand.
Owning == {"processed", "update", "ready", "swap", "success"}
Own(i) == inv[i].call \in Owning
Mine(i) == label[inv[i].job]

\* What has not been started has left no trace.
Released ==
  /\ \A j \in Jobs : j <= job => label[j] \in 1 .. j
  /\ \A j \in Jobs : j > job => result[j] = "none" /\ queued[j] = 0
  /\ \A i \in Invocations : inv[i] # Idle => inv[i].job <= job
  /\ \A l \in Labels : l > job => version[l] = "absent"

\* A version has one owner at most, and has been swapped when its owner has.
Owners ==
  /\ \A i \in Invocations : Own(i) => version[Mine(i)] # "absent"
  /\ \A i \in Invocations : Own(i) => swaps[Mine(i)] = IF inv[i].call = "success" THEN 1 ELSE 0
  /\ \A i, k \in Invocations : Own(i) /\ Own(k) /\ Mine(i) = Mine(k) => i = k
  /\ \A l \in Labels : version[l] = "absent" => swaps[l] = 0
  /\ \A l \in Labels : swaps[l] \in {0, 1}

\* The version of a successful job is swapped, and nobody has it in hand.
Reported ==
  \A j \in Jobs : result[j] = "succeeded" =>
    /\ swaps[label[j]] = 1
    /\ \A i \in Invocations : Own(i) => Mine(i) # label[j]
    /\ \A k \in Jobs : result[k] = "succeeded" /\ label[k] = label[j] => k = j

Inv == TypeOK /\ Released /\ Owners /\ Reported

\* No job that was started is forgotten: it is answered, its invocation is to
\* come or at work, or each of Lambda's attempts has failed.
AtWork(j) == \E i \in Invocations : inv[i].job = j

Attempted ==
  \A j \in Jobs : j <= job =>
    \/ result[j] \in {"succeeded", "failed"}
    \/ failures[j] >= Attempts
    \/ result[j] = "none" /\ (queued[j] > 0 \/ AtWork(j))

\* Green is never deployed to, and each version that is swapped takes the CNAME
\* to the other environment.
Swapped == {l \in Labels : swaps[l] = 1}

Traffic ==
  /\ env["green"] = [status |-> "Ready", version |-> 0, next |-> 0]
  /\ cname = IF Cardinality(Swapped) % 2 = 0 THEN "green" ELSE "blue"

-----------------------------------------------------------------------------
(* The invocations.                                                        *)

\* An invocation that is about to make a call has a job.
LEMMA Place ==
  ASSUME TypeOK, NEW i \in Invocations, inv[i] # Idle \/ inv[i].call \in Calls
  PROVE  inv[i] \in [job : Jobs, call : Calls] /\ inv[i] # Idle
<1>1. inv[i] \in {Idle} \cup [job : Jobs, call : Calls]
  BY DEF TypeOK
<1>2. Idle.call \notin Calls
  BY DEF Idle, Calls
<1>3. QED
  BY <1>1, <1>2

\* It goes on to the next call.
LEMMA Moves ==
  ASSUME TypeOK, NEW i \in Invocations, inv[i] # Idle \/ inv[i].call \in Calls,
         NEW c \in Calls, Goes(i, c)
  PROVE  /\ inv' \in [Invocations -> {Idle} \cup [job : Jobs, call : Calls]]
         /\ inv'[i].job = inv[i].job /\ inv'[i].call = c
         /\ inv[i].job \in Jobs /\ inv[i] # Idle
         /\ \A k \in Invocations \ {i} : inv'[k] = inv[k]
<1>1. inv[i] \in [job : Jobs, call : Calls] /\ inv[i] # Idle
  BY Place
<1>2. inv \in [Invocations -> {Idle} \cup [job : Jobs, call : Calls]]
  BY DEF TypeOK
<1>3. inv' = [inv EXCEPT ![i] = [@ EXCEPT !.call = c]]
  BY DEF Goes
<1>4. [inv[i] EXCEPT !.call = c] \in [job : Jobs, call : Calls]
  BY <1>1
<1>5. QED
  BY <1>1, <1>2, <1>3, <1>4

\* It is over.
LEMMA Quits ==
  ASSUME TypeOK, NEW i \in Invocations, inv' = [inv EXCEPT ![i] = Idle]
  PROVE  /\ inv' \in [Invocations -> {Idle} \cup [job : Jobs, call : Calls]]
         /\ inv'[i] = Idle
         /\ \A k \in Invocations \ {i} : inv'[k] = inv[k]
BY DEF TypeOK

\* Idle is nobody's, and not a call.
LEMMA IdleFacts ==
  /\ Idle.call \notin Owning
  /\ Idle.call \notin Calls
  /\ Owning \subseteq Calls
BY DEF Idle, Owning, Calls

\* The last conjunct of TypeOK.
Processed(k) ==
  inv[k].call \in {"update", "ready", "swap", "success"} =>
    version[label[inv[k].job]] = "processed"

LEMMA TypeProcessed ==
  ASSUME TypeOK, NEW k \in Invocations
  PROVE  Processed(k)
BY DEF TypeOK, Processed

\* The job of an invocation that makes calls, and its version.
LEMMA InHand ==
  ASSUME Inv, NEW k \in Invocations, inv[k].call \in Calls
  PROVE  inv[k].job \in Jobs /\ inv[k].job <= job /\ label[inv[k].job] \in Labels
                            /\ label[inv[k].job] <= job
<1> USE BlueGreenAssumption DEF Inv, Jobs, Labels
<1>1. inv[k].job \in Jobs /\ inv[k].job <= job
  BY Place DEF Released
<1>2. label[inv[k].job] \in 1 .. inv[k].job
  BY <1>1 DEF Released
<1>3. job \in 0 .. MaxJobs
  BY DEF TypeOK
<1>4. QED
  BY <1>1, <1>2, <1>3

-----------------------------------------------------------------------------
(* A step that makes no version and does not swap keeps the owners' part   *)
(* of the invariant if nobody becomes an owner by it.                      *)

LEMMA Frame ==
  ASSUME Inv, UNCHANGED <<label, version, swaps>>,
         \A j \in Jobs : result'[j] = "succeeded" => result[j] = "succeeded",
         \A k \in Invocations : inv'[k] = inv[k] \/ inv'[k].call \notin Owning
  PROVE  Owners' /\ Reported'
<1> USE DEF Inv
<1>1. \A k \in Invocations : Own(k)' => Own(k) /\ Mine(k)' = Mine(k) /\ inv'[k] = inv[k]
  BY DEF Own, Mine
<1>2. Owners'
  BY <1>1 DEF Owners
<1>3. Reported'
  BY <1>1 DEF Reported
<1>4. QED
  BY <1>2, <1>3

\* The same for an owner that goes on without having swapped.
LEMMA GoesOn ==
  ASSUME Inv, UNCHANGED <<label, version, swaps, result>>,
         NEW i \in Invocations, Own(i), inv[i].call # "success",
         inv'[i].job = inv[i].job, inv'[i].call # "success",
         \A k \in Invocations \ {i} : inv'[k] = inv[k]
  PROVE  Owners' /\ Reported'
<1> USE DEF Inv
<1>1. \A k \in Invocations : Own(k)' => Own(k) /\ Mine(k)' = Mine(k)
  BY DEF Own, Mine
<1>2. \A k \in Invocations : inv'[k].call = "success" <=> inv[k].call = "success"
  OBVIOUS
<1>3. Owners'
  BY <1>1, <1>2 DEF Owners
<1>4. Reported'
  BY <1>1 DEF Reported
<1>5. QED
  BY <1>3, <1>4

-----------------------------------------------------------------------------
(* The steps.                                                              *)

LEMMA InitInv == Init => Inv
<1> SUFFICES ASSUME Init PROVE Inv
  OBVIOUS
<1> USE BlueGreenAssumption DEF Init
<1>1. \A i \in Invocations : ~Own(i)
  BY IdleFacts DEF Own
<1>2. TypeOK
  BY DEF TypeOK, Jobs, Labels, Environments, Idle
<1>3. Released
  BY DEF Released, Jobs, Labels
<1>4. Owners /\ Reported
  BY <1>1 DEF Owners, Reported
<1>5. QED
  BY <1>2, <1>3, <1>4 DEF Inv

LEMMA StartInv ==
  ASSUME Inv, Start
  PROVE  Inv'
<1> USE BlueGreenAssumption DEF Inv, Jobs, Labels
<1>1. PICK l \in Labels :
        /\ l = job + 1 \/ \E j \in {job} \cap Jobs : result[j] # "succeeded" /\ l = label[j]
        /\ label' = [label EXCEPT ![job + 1] = l]
  BY DEF Start
<1>2. job' = job + 1 /\ job + 1 \in Jobs /\ job' \in 0 .. MaxJobs
  BY DEF Start, TypeOK
<1>3. /\ queued' = [queued EXCEPT ![job + 1] = 1]
      /\ UNCHANGED <<result, failures, twice, inv, version, env, cname, swaps>>
  BY DEF Start
<1>4. l \in 1 .. job + 1
  BY <1>1, <1>2 DEF Released, TypeOK
<1>5. \A j \in Jobs : j <= job => label'[j] = label[j]
  BY <1>1, <1>2 DEF TypeOK
<1>6. \A i \in Invocations : inv[i].call \in Calls => inv[i].job \in Jobs /\ inv[i].job <= job
  BY Place DEF Released
<1>7. \A i \in Invocations : inv[i].call \in Calls => label'[inv[i].job] = label[inv[i].job]
  BY <1>5, <1>6
<1>8. TypeOK'
  <2>1. label' \in [Jobs -> 0 .. MaxJobs] /\ queued' \in [Jobs -> Nat]
    BY <1>1, <1>2, <1>3 DEF TypeOK
  <2>2. \A i \in Invocations : inv'[i].call \in {"update", "ready", "swap", "success"} =>
          version'[label'[inv'[i].job]] = "processed"
    BY <1>3, <1>7 DEF TypeOK, Calls
  <2>3. QED
    BY <1>2, <1>3, <2>1, <2>2 DEF TypeOK
<1>9. Released'
  <2>1. \A j \in Jobs : j <= job' => label'[j] \in 1 .. j
    <3> SUFFICES ASSUME NEW j \in Jobs, j <= job' PROVE label'[j] \in 1 .. j
      OBVIOUS
    <3>1. CASE j <= job
      BY <1>5, <3>1 DEF Released
    <3>2. CASE j = job + 1
      <4>1. label'[j] = l
        BY <1>1, <3>2 DEF TypeOK
      <4>2. QED
        BY <1>4, <3>2, <4>1
    <3>3. QED
      BY <1>2, <3>1, <3>2 DEF TypeOK
  <2>2. \A j \in Jobs : j > job' => result'[j] = "none" /\ queued'[j] = 0
    BY <1>2, <1>3 DEF Released, TypeOK
  <2>3. \A i \in Invocations : inv'[i] # Idle => inv'[i].job <= job'
    <3>1. \A i \in Invocations : inv[i] # Idle => inv[i].job \in Jobs
      BY Place
    <3>2. QED
      BY <1>2, <1>3, <3>1 DEF Released, TypeOK
  <2>4. \A k \in Labels : k > job' => version'[k] = "absent"
    BY <1>2, <1>3 DEF Released, TypeOK
  <2>5. QED
    BY <2>1, <2>2, <2>3, <2>4 DEF Released
<1>10. \A i \in Invocations : Own(i)' = Own(i) /\ (Own(i) => Mine(i)' = Mine(i))
  BY <1>3, <1>7, IdleFacts DEF Own, Mine
<1>11. Owners'
  BY <1>3, <1>10 DEF Owners
<1>12. Reported'
  <2>1. \A j \in Jobs : result[j] = "succeeded" => j <= job
    BY DEF Released, TypeOK
  <2>2. QED
    BY <1>3, <1>5, <1>10, <2>1 DEF Reported
<1>13. QED
  BY <1>8, <1>9, <1>11, <1>12

LEMMA DeliversInv ==
  ASSUME Inv, NEW i \in Invocations, NEW j \in Jobs, Invoke(i, j) \/ InvokeTwice(i, j)
  PROVE  Inv'
<1> USE BlueGreenAssumption DEF Inv, Jobs, Labels
<1>1. /\ queued[j] > 0 /\ inv[i] = Idle
      /\ inv' = [inv EXCEPT ![i] = [job |-> j, call |-> "health"]]
      /\ UNCHANGED <<job, label, result, failures, version, env, cname, swaps>>
  BY DEF Invoke, InvokeTwice, Delivers, pipeline
<1>2. /\ queued' \in [Jobs -> Nat] /\ twice' \in 0 .. MaxTwice
      /\ \A k \in Jobs : queued[k] = 0 => queued'[k] = 0
  <2>1. /\ queued \in [Jobs -> Nat] /\ twice \in 0 .. MaxTwice /\ queued[j] - 1 \in Nat
        /\ queued[j] # 0
    <3>1. queued \in [Jobs -> Nat] /\ twice \in 0 .. MaxTwice
      BY DEF TypeOK
    <3>2. queued[j] \in Nat
      BY <3>1
    <3>3. QED
      BY <1>1, <3>1, <3>2
  <2>2. CASE Invoke(i, j)
    <3>1. queued' = [queued EXCEPT ![j] = queued[j] - 1] /\ twice' = twice
      BY <2>2 DEF Invoke
    <3>2. QED
      BY <2>1, <3>1
  <2>3. CASE InvokeTwice(i, j)
    <3>1. queued' = queued /\ twice' = twice + 1 /\ twice < MaxTwice
      BY <2>3 DEF InvokeTwice
    <3>2. QED
      BY <2>1, <3>1
  <2>4. QED
    BY <2>2, <2>3
<1>4. /\ inv' \in [Invocations -> {Idle} \cup [job : Jobs, call : Calls]]
      /\ inv'[i].call = "health" /\ inv'[i].job = j
      /\ \A k \in Invocations \ {i} : inv'[k] = inv[k]
  <2>1. [job |-> j, call |-> "health"] \in [job : Jobs, call : Calls]
    BY DEF Calls
  <2>2. QED
    BY <1>1, <2>1 DEF TypeOK
<1>5. TypeOK'
  BY <1>1, <1>2, <1>4 DEF TypeOK
<1>6. j <= job
  BY <1>1 DEF Released, TypeOK
<1>7. Released'
  BY <1>1, <1>2, <1>4, <1>6 DEF Released
<1>8. Owners' /\ Reported'
  BY <1>1, <1>4, Frame DEF Owning
<1>9. QED
  BY <1>5, <1>7, <1>8

\* An invocation that is over without an answer, for whatever reason.
LEMMA FailsInv ==
  ASSUME Inv, NEW i \in Invocations, inv[i] # Idle, Fails(i)
  PROVE  Inv'
<1> USE BlueGreenAssumption DEF Inv, Jobs, Labels
<1>1. /\ inv' = [inv EXCEPT ![i] = Idle]
      /\ UNCHANGED <<job, label, result, twice, version, env, cname, swaps>>
  BY DEF Fails, pipeline
<1>2. inv[i].job \in Jobs /\ inv[i].job <= job
  BY Place DEF Released
<1>3. /\ failures' = [failures EXCEPT ![inv[i].job] = @ + 1]
      /\ \/ queued' = [queued EXCEPT ![inv[i].job] = @ + 1]
         \/ queued' = [queued EXCEPT ![inv[i].job] = @]
  BY DEF Fails
<1>4. /\ failures' \in [Jobs -> Nat] /\ queued' \in [Jobs -> Nat]
      /\ \A k \in Jobs : k > job => queued'[k] = queued[k]
  <2>1. failures[inv[i].job] + 1 \in Nat /\ queued[inv[i].job] + 1 \in Nat
    <3>1. failures[inv[i].job] \in Nat /\ queued[inv[i].job] \in Nat
      BY <1>2 DEF TypeOK
    <3>2. QED
      BY <3>1
  <2>2. failures' \in [Jobs -> Nat]
    BY <1>2, <1>3, <2>1 DEF TypeOK
  <2>3. PICK n \in Nat : queued' = [queued EXCEPT ![inv[i].job] = n]
    <3>1. CASE queued' = [queued EXCEPT ![inv[i].job] = @ + 1]
      <4>1. queued' = [queued EXCEPT ![inv[i].job] = queued[inv[i].job] + 1]
        BY <3>1
      <4>2. QED
        BY <2>1, <4>1
    <3>2. CASE queued' = [queued EXCEPT ![inv[i].job] = @]
      <4>1. queued' = [queued EXCEPT ![inv[i].job] = queued[inv[i].job]] /\ queued[inv[i].job] \in Nat
        BY <1>2, <3>2 DEF TypeOK
      <4>2. QED
        BY <4>1
    <3>3. QED
      BY <1>3, <3>1, <3>2
  <2>4. job \in Nat /\ inv[i].job \in Nat /\ ~(inv[i].job > job)
    BY SMTT(30), <1>2 DEF TypeOK
  <2>5. \A k \in Jobs : k > job => queued'[k] = queued[k]
    BY <2>3, <2>4 DEF TypeOK
  <2>6. queued' \in [Jobs -> Nat]
    BY <2>3 DEF TypeOK
  <2>7. QED
    BY <2>2, <2>5, <2>6
<1>5. /\ inv' \in [Invocations -> {Idle} \cup [job : Jobs, call : Calls]]
      /\ inv'[i] = Idle
      /\ \A k \in Invocations \ {i} : inv'[k] = inv[k]
  BY <1>1, Quits
<1>6. TypeOK'
  BY <1>1, <1>4, <1>5, IdleFacts DEF TypeOK, Calls
<1>7. Released'
  BY <1>1, <1>4, <1>5 DEF Released
<1>8. Owners' /\ Reported'
  BY <1>1, <1>5, Frame, IdleFacts
<1>9. QED
  BY <1>6, <1>7, <1>8

\* An invocation that goes on without owning a version.
LEMMA IdlesOnInv ==
  ASSUME Inv, NEW i \in Invocations, inv[i] # Idle \/ inv[i].call \in Calls,
         NEW c \in Calls \ Owning, Goes(i, c),
         UNCHANGED <<pipeline, lambda, version, env, cname, swaps>>
  PROVE  Inv'
<1> USE BlueGreenAssumption DEF Inv, Jobs, Labels, pipeline, lambda
<1>1. /\ inv' \in [Invocations -> {Idle} \cup [job : Jobs, call : Calls]]
      /\ inv'[i].job = inv[i].job /\ inv'[i].call = c
      /\ inv[i].job \in Jobs /\ inv[i] # Idle
      /\ \A k \in Invocations \ {i} : inv'[k] = inv[k]
  BY Moves
<1>2. TypeOK'
  BY <1>1 DEF TypeOK, Owning
<1>3. Released'
  BY <1>1 DEF Released
<1>4. Owners' /\ Reported'
  BY <1>1, Frame
<1>5. QED
  BY <1>2, <1>3, <1>4

\* An owner that goes on to a call before the swap's.
LEMMA OwnerGoesOnInv ==
  ASSUME Inv, NEW i \in Invocations, Own(i), inv[i].call # "success",
         NEW c \in Owning \ {"success"}, Goes(i, c),
         version[Mine(i)] = "processed", env' \in [Environments ->
           [status : {"Ready", "Updating"}, version : 0 .. MaxJobs, next : 0 .. MaxJobs]],
         UNCHANGED <<pipeline, lambda, version, cname, swaps>>
  PROVE  Inv'
<1> USE BlueGreenAssumption DEF Inv, Jobs, Labels, pipeline, lambda
<1>1. /\ inv' \in [Invocations -> {Idle} \cup [job : Jobs, call : Calls]]
      /\ inv'[i].job = inv[i].job /\ inv'[i].call = c
      /\ inv[i].job \in Jobs /\ inv[i] # Idle
      /\ \A k \in Invocations \ {i} : inv'[k] = inv[k]
  BY Moves, IdleFacts DEF Own
<1>2. \A k \in Invocations : Processed(k)'
  <2> TAKE k \in Invocations
  <2>1. CASE k = i
    BY <1>1, <2>1 DEF Processed, Mine
  <2>2. CASE k # i
    BY <1>1, <2>2, TypeProcessed DEF Processed
  <2>3. QED
    BY <2>1, <2>2
<1>3. TypeOK'
  BY <1>1, <1>2 DEF TypeOK, Processed
<1>4. Released'
  BY <1>1 DEF Released
<1>5. Owners' /\ Reported'
  BY <1>1, GoesOn
<1>6. QED
  BY <1>3, <1>4, <1>5

LEMMA ExpireInv ==
  ASSUME Inv, Expire
  PROVE  Inv'
<1> USE BlueGreenAssumption DEF Inv, Jobs, Labels, lambda
<1>1. /\ job \in Jobs /\ result' = [result EXCEPT ![job] = "expired"]
      /\ UNCHANGED <<job, label, lambda, inv, version, env, cname, swaps>>
  BY DEF Expire, TypeOK
<1>2. /\ result' \in [Jobs -> {"none", "succeeded", "failed", "expired"}]
      /\ \A j \in Jobs : result'[j] = "succeeded" => result[j] = "succeeded"
      /\ \A j \in Jobs : j > job => result'[j] = result[j]
  BY <1>1 DEF TypeOK
<1>3. TypeOK'
  BY <1>1, <1>2 DEF TypeOK
<1>4. Released'
  BY <1>1, <1>2 DEF Released
<1>5. Owners' /\ Reported'
  BY <1>1, <1>2, Frame
<1>6. QED
  BY <1>3, <1>4, <1>5

LEMMA BeanstalkInv ==
  ASSUME Inv, \/ \E l \in Labels : VersionProcessed(l)
              \/ \E e \in Environments : Updated(e)
  PROVE  Inv'
<1> USE BlueGreenAssumption DEF Inv, Jobs, Labels, pipeline, lambda
<1>1. ASSUME NEW l \in Labels, VersionProcessed(l) PROVE Inv'
  <2>1. PICK status \in {"processed", "failed"} : version' = [version EXCEPT ![l] = status]
    BY <1>1 DEF VersionProcessed
  <2>2. version[l] = "processing" /\ UNCHANGED <<pipeline, lambda, inv, env, cname, swaps>>
    BY <1>1 DEF VersionProcessed
  <2>3. /\ version' \in [Labels -> {"absent", "processing", "processed", "failed"}]
        /\ \A k \in Labels : version'[k] = "absent" <=> version[k] = "absent"
        /\ \A k \in Labels : version[k] = "processed" => version'[k] = "processed"
    BY <2>1, <2>2 DEF TypeOK
  <2>4. \A i \in Invocations : inv[i].call \in Calls => label[inv[i].job] \in Labels
    BY InHand
  <2>5. TypeOK'
    BY <2>2, <2>3, <2>4 DEF TypeOK, Calls
  <2>6. Released'
    BY <2>2, <2>3 DEF Released
  <2>7. Owners'
    <3>1. \A i \in Invocations : Own(i)' = Own(i) /\ Mine(i)' = Mine(i)
                                  /\ (Own(i) => Mine(i) \in Labels)
      BY <2>2, <2>4, IdleFacts DEF Own, Mine
    <3>2. QED
      BY <2>2, <2>3, <3>1 DEF Owners
  <2>8. Reported'
    BY <2>2 DEF Reported, Own, Mine
  <2>9. QED
    BY <2>5, <2>6, <2>7, <2>8
<1>2. ASSUME NEW e \in Environments, Updated(e) PROVE Inv'
  <2>1. PICK v \in {env[e].version, env[e].next} :
          env' = [env EXCEPT ![e] = [status |-> "Ready", version |-> v, next |-> 0]]
    BY <1>2 DEF Updated
  <2>2. UNCHANGED <<pipeline, lambda, inv, version, cname, swaps>>
    BY <1>2 DEF Updated
  <2>3. v \in 0 .. MaxJobs
    BY <2>1 DEF TypeOK
  <2>4. env' \in [Environments -> [status : {"Ready", "Updating"},
                                  version : 0 .. MaxJobs, next : 0 .. MaxJobs]]
    BY <2>1, <2>3 DEF TypeOK
  <2>5. TypeOK'
    BY <2>2, <2>4 DEF TypeOK
  <2>6. Released'
    BY <2>2 DEF Released
  <2>7. Owners' /\ Reported'
    BY <2>2, Frame
  <2>8. QED
    BY <2>5, <2>6, <2>7
<1>3. QED
  BY <1>1, <1>2

\* A version that nobody has created gets an owner.
LEMMA CreateInv ==
  ASSUME Inv, NEW i \in Invocations, CreateAppVersion(i)
  PROVE  Inv'
<1> USE BlueGreenAssumption DEF Inv, Jobs, Labels
<1> DEFINE l == label[inv[i].job]
<1>1. inv[i].call = "create" /\ inv[i].call \in Calls
  BY DEF CreateAppVersion, At, Calls
<1>2. CASE version[l] # "absent"
  BY <1>1, <1>2, IdlesOnInv DEF CreateAppVersion, Raises, Calls, Owning
<1>3. CASE version[l] = "absent"
  <2>1. /\ version' = [version EXCEPT ![l] = "processing"]
        /\ Goes(i, "processed")
        /\ UNCHANGED <<job, label, result, queued, failures, twice, env, cname, swaps>>
    BY <1>3 DEF CreateAppVersion, pipeline, lambda
  <2>2. /\ inv' \in [Invocations -> {Idle} \cup [job : Jobs, call : Calls]]
        /\ inv'[i].job = inv[i].job /\ inv'[i].call = "processed"
        /\ inv[i].job \in Jobs /\ inv[i] # Idle
        /\ \A k \in Invocations \ {i} : inv'[k] = inv[k]
    BY <1>1, <2>1, Moves DEF Calls
  <2>3. l \in Labels /\ l <= job
    BY <2>2 DEF Released, TypeOK
  <2>4. /\ version' \in [Labels -> {"absent", "processing", "processed", "failed"}]
        /\ version'[l] = "processing"
        /\ \A k \in Labels \ {l} : version'[k] = version[k]
    BY <2>1, <2>3 DEF TypeOK
  <2>5. \A k \in Invocations : inv[k].call \in Calls => label[inv[k].job] \in Labels
    BY InHand
  <2>6. TypeOK'
    <3>1. \A k \in Invocations : Processed(k)'
      <4> TAKE k \in Invocations
      <4>1. CASE k = i
        BY <2>2, <4>1 DEF Processed
      <4>2. CASE k # i
        BY <1>3, <2>1, <2>2, <2>4, <2>5, <4>2, TypeProcessed DEF Processed, Calls
      <4>3. QED
        BY <4>1, <4>2
    <3>2. QED
      BY <2>1, <2>2, <2>4, <3>1 DEF TypeOK, Processed
  <2>7. Released'
    <3>1. \A k \in Labels : k > job => k # l
      BY <2>3 DEF TypeOK
    <3>2. QED
      BY <2>1, <2>2, <2>4, <3>1 DEF Released
  <2>8. swaps[l] = 0 /\ \A k \in Invocations : Own(k) => Mine(k) \in Labels \ {l}
    BY <1>3, <2>3, <2>5, IdleFacts DEF Owners, Own, Mine
  <2>9. \A k \in Invocations \ {i} : Own(k)' = Own(k) /\ Mine(k)' = Mine(k)
    BY <2>1, <2>2 DEF Own, Mine
  <2>10. Own(i)' /\ Mine(i)' = l
    BY <2>1, <2>2 DEF Own, Mine, Owning
  <2>11. Owners'
    BY <2>1, <2>2, <2>4, <2>8, <2>9, <2>10 DEF Owners
  <2>12. Reported'
    <3>1. \A j \in Jobs : result[j] = "succeeded" => label[j] # l
      BY <2>8 DEF Reported
    <3>2. QED
      BY <2>1, <2>9, <2>10, <3>1 DEF Reported
  <2>13. QED
    BY <2>6, <2>7, <2>11, <2>12
<1>4. QED
  BY <1>2, <1>3

LEMMA CountedUp ==
  ASSUME NEW S, NEW f \in [S -> Nat], NEW l \in S, f[l] = 0
  PROVE  LET g == [f EXCEPT ![l] = @ + 1] IN
         g \in [S -> Nat] /\ g[l] = 1 /\ \A k \in S \ {l} : g[k] = f[k]
OBVIOUS

LEMMA SwapInv ==
  ASSUME Inv, NEW i \in Invocations, SwapBlueGreen(i)
  PROVE  Inv'
<1> USE BlueGreenAssumption DEF Inv, Jobs, Labels
<1> DEFINE l == label[inv[i].job]
<1>1. inv[i].call = "swap" /\ inv[i].call \in Calls /\ Own(i) /\ Mine(i) = l
  BY DEF SwapBlueGreen, At, Calls, Own, Owning, Mine
<1>2. CASE \E e \in Environments : env[e].status # "Ready"
  BY <1>1, <1>2, IdlesOnInv DEF SwapBlueGreen, Raises, Calls, Owning
<1>3. CASE ~\E e \in Environments : env[e].status # "Ready"
  <2>1. /\ cname' = IF cname = "blue" THEN "green" ELSE "blue"
        /\ swaps' = [swaps EXCEPT ![l] = @ + 1]
        /\ Goes(i, "success")
        /\ UNCHANGED <<job, label, result, queued, failures, twice, version, env>>
    BY <1>3 DEF SwapBlueGreen, pipeline, lambda
  <2>2. /\ inv' \in [Invocations -> {Idle} \cup [job : Jobs, call : Calls]]
        /\ inv'[i].job = inv[i].job /\ inv'[i].call = "success"
        /\ inv[i].job \in Jobs /\ inv[i] # Idle
        /\ \A k \in Invocations \ {i} : inv'[k] = inv[k]
    BY <1>1, <2>1, Moves DEF Calls
  <2>3. l \in Labels
    BY <2>2 DEF Released, TypeOK
  <2>4. swaps[l] = 0 /\ version[l] # "absent"
    BY <1>1 DEF Owners
  <2>5. /\ swaps' \in [Labels -> Nat] /\ swaps'[l] = 1
        /\ \A k \in Labels \ {l} : swaps'[k] = swaps[k]
    <3>1. swaps \in [Labels -> Nat]
      BY DEF TypeOK
    <3>2. QED
      BY ONLY <2>1, <2>3, <2>4, <3>1, CountedUp
  <2>6. \A k \in Invocations : Own(k)' = Own(k) /\ Mine(k)' = Mine(k)
                                /\ (Own(k) => Mine(k) \in Labels)
    <3>1. \A k \in Invocations : inv[k].call \in Calls => label[inv[k].job] \in Labels
      BY InHand
    <3>2. QED
      BY <1>1, <2>1, <2>2, <3>1, IdleFacts DEF Own, Mine, Owning
  <2>7. TypeOK'
    <3>1. cname' \in Environments
      BY <2>1 DEF Environments
    <3>2. \A k \in Invocations : Processed(k)'
      <4> TAKE k \in Invocations
      <4>1. CASE k = i
        BY <1>1, <2>1, <2>2, <4>1, TypeProcessed DEF Processed
      <4>2. CASE k # i
        BY <2>1, <2>2, <4>2, TypeProcessed DEF Processed
      <4>3. QED
        BY <4>1, <4>2
    <3>3. QED
      BY <2>1, <2>2, <2>5, <3>1, <3>2 DEF TypeOK, Processed
  <2>8. Released'
    BY <2>1, <2>2 DEF Released
  <2>9. Owners'
    <3>1. \A k \in Invocations : Own(k)' => version'[Mine(k)'] # "absent"
      BY <2>1, <2>6 DEF Owners
    <3>2. \A k \in Invocations \ {i} : Own(k) => Mine(k) \in Labels \ {l}
      BY <1>1, <2>6 DEF Owners
    <3>3. \A k \in Invocations : Own(k)' =>
            swaps'[Mine(k)'] = IF inv'[k].call = "success" THEN 1 ELSE 0
      BY <1>1, <2>2, <2>5, <2>6, <3>2 DEF Owners
    <3>4. \A k \in Labels : version'[k] = "absent" => swaps'[k] = 0
      BY <2>1, <2>4, <2>5 DEF Owners
    <3>5. \A k \in Labels : swaps'[k] \in {0, 1}
      BY <2>5 DEF Owners
    <3>6. \A k, m \in Invocations : Own(k)' /\ Own(m)' /\ Mine(k)' = Mine(m)' => k = m
      BY <2>6 DEF Owners
    <3>7. QED
      BY <3>1, <3>3, <3>4, <3>5, <3>6 DEF Owners
  <2>10. Reported'
    <3>1. \A j \in Jobs : result[j] = "succeeded" => label[j] \in Labels \ {l}
      BY SMTT(30), <1>1 DEF Reported, Released, TypeOK
    <3>2. QED
      BY <2>1, <2>5, <2>6, <3>1 DEF Reported
  <2>11. QED
    BY <2>7, <2>8, <2>9, <2>10
<1>4. QED
  BY <1>2, <1>3

LEMMA SuccessInv ==
  ASSUME Inv, NEW i \in Invocations, PutJobSuccess(i)
  PROVE  Inv'
<1> USE BlueGreenAssumption DEF Inv, Jobs, Labels
<1> DEFINE j == inv[i].job
<1>1. inv[i].call = "success" /\ inv[i].call \in Calls /\ Own(i) /\ Mine(i) = label[j]
  BY DEF PutJobSuccess, At, Calls, Own, Owning, Mine
<1>2. CASE result[j] # "none"
  BY <1>1, <1>2, IdlesOnInv DEF PutJobSuccess, Raises, Calls, Owning
<1>3. CASE result[j] = "none"
  <2>1. /\ result' = [result EXCEPT ![j] = "succeeded"]
        /\ inv' = [inv EXCEPT ![i] = Idle]
        /\ UNCHANGED <<job, label, queued, failures, twice, version, env, cname, swaps>>
    BY <1>3 DEF PutJobSuccess, lambda
  <2>2. /\ inv' \in [Invocations -> {Idle} \cup [job : Jobs, call : Calls]]
        /\ inv'[i] = Idle
        /\ \A k \in Invocations \ {i} : inv'[k] = inv[k]
    BY <2>1, Quits
  <2>3. j \in Jobs /\ j <= job
    BY <1>1, Place DEF Released
  <2>4. /\ result' \in [Jobs -> {"none", "succeeded", "failed", "expired"}]
        /\ result'[j] = "succeeded"
        /\ \A k \in Jobs \ {j} : result'[k] = result[k]
    BY <2>1, <2>3 DEF TypeOK
  <2>5. TypeOK'
    <3>1. \A k \in Invocations : Processed(k)'
      BY <2>1, <2>2, TypeProcessed, IdleFacts DEF Processed, Calls
    <3>2. QED
      BY <2>1, <2>2, <2>4, <3>1 DEF TypeOK, Processed
  <2>6. Released'
    <3>1. \A k \in Jobs : k > job => k # j
      BY <2>3 DEF TypeOK
    <3>2. QED
      BY <2>1, <2>2, <2>4, <3>1 DEF Released
  <2>7. \A k \in Invocations : Own(k)' => k # i /\ Own(k) /\ Mine(k)' = Mine(k) /\ inv'[k] = inv[k]
    BY <2>1, <2>2, IdleFacts DEF Own, Mine
  <2>8. Owners'
    BY <2>1, <2>7 DEF Owners
  <2>9. Reported'
    <3>1. swaps[label[j]] = 1
      BY <1>1 DEF Owners
    <3>2. \A k \in Invocations : Own(k)' => Mine(k)' # label[j]
      BY <1>1, <2>7 DEF Owners
    <3>3. \A k \in Jobs \ {j} : result[k] = "succeeded" => label[k] # label[j]
      BY <1>1 DEF Reported
    <3>4. QED
      BY <2>1, <2>4, <2>7, <3>1, <3>2, <3>3 DEF Reported
  <2>10. QED
    BY <2>5, <2>6, <2>8, <2>9
<1>4. QED
  BY <1>2, <1>3

LEMMA FailureInv ==
  ASSUME Inv, NEW i \in Invocations, PutJobFailure(i)
  PROVE  Inv'
<1> USE BlueGreenAssumption DEF Inv, Jobs, Labels
<1> DEFINE j == inv[i].job
<1>1. inv[i].call \in Calls /\ inv[i] # Idle
  <2>1. inv[i].call \in Calls
    BY DEF PutJobFailure, Calls
  <2>2. QED
    BY <2>1, Place
<1>2. CASE result[j] # "none"
  <2>1. CASE At(i, "failure")
    BY <1>1, <1>2, <2>1, FailsInv DEF PutJobFailure
  <2>2. CASE ~At(i, "failure")
    BY <1>1, <1>2, <2>2, IdlesOnInv DEF PutJobFailure, Raises, Calls, Owning
  <2>3. QED
    BY <2>1, <2>2
<1>3. CASE result[j] = "none"
  <2>1. /\ result' = [result EXCEPT ![j] = "failed"]
        /\ inv' = [inv EXCEPT ![i] = Idle]
        /\ UNCHANGED <<job, label, queued, failures, twice, version, env, cname, swaps>>
    BY <1>3 DEF PutJobFailure, lambda
  <2>2. /\ inv' \in [Invocations -> {Idle} \cup [job : Jobs, call : Calls]]
        /\ inv'[i] = Idle
        /\ \A k \in Invocations \ {i} : inv'[k] = inv[k]
    BY <2>1, Quits
  <2>3. j \in Jobs /\ j <= job
    BY <1>1, Place DEF Released
  <2>4. /\ result' \in [Jobs -> {"none", "succeeded", "failed", "expired"}]
        /\ \A k \in Jobs : result'[k] = "succeeded" => result[k] = "succeeded"
        /\ \A k \in Jobs \ {j} : result'[k] = result[k]
    BY <2>1, <2>3 DEF TypeOK
  <2>5. TypeOK'
    <3>1. \A k \in Invocations : Processed(k)'
      BY <2>1, <2>2, TypeProcessed, IdleFacts DEF Processed, Calls
    <3>2. QED
      BY <2>1, <2>2, <2>4, <3>1 DEF TypeOK, Processed
  <2>6. Released'
    <3>1. \A k \in Jobs : k > job => k # j
      BY <2>3 DEF TypeOK
    <3>2. QED
      BY <2>1, <2>2, <2>4, <3>1 DEF Released
  <2>7. Owners' /\ Reported'
    BY <2>1, <2>2, <2>4, Frame, IdleFacts
  <2>8. QED
    BY <2>5, <2>6, <2>7
<1>4. QED
  BY <1>2, <1>3

LEMMA HandlerInv ==
  ASSUME Inv, NEW i \in Invocations, Handler(i)
  PROVE  Inv'
<1> USE DEF Inv
<1>1. CASE DescribeHealth(i)
  <2>1. inv[i].call \in Calls
    BY <1>1 DEF DescribeHealth, At, Calls
  <2>2. \E c \in {"create", "refuse"} : Goes(i, c)
    BY <1>1 DEF DescribeHealth
  <2>3. {"create", "refuse"} \subseteq Calls \ Owning
    BY DEF Calls, Owning
  <2>4. QED
    BY <1>1, <2>1, <2>2, <2>3, IdlesOnInv DEF DescribeHealth
<1>2. CASE DescribeAppVersion(i)
  <2>1. inv[i].call = "processed" /\ Own(i) /\ version[Mine(i)] = "processed"
    BY <1>2 DEF DescribeAppVersion, At, Own, Owning, Mine
  <2>2. "update" \in Owning \ {"success"}
    BY DEF Owning
  <2>3. env' = env /\ env \in [Environments ->
          [status : {"Ready", "Updating"}, version : 0 .. MaxJobs, next : 0 .. MaxJobs]]
    BY <1>2 DEF DescribeAppVersion, TypeOK
  <2>4. QED
    BY <1>2, <2>1, <2>2, <2>3, OwnerGoesOnInv DEF DescribeAppVersion
<1>3. CASE UpdateBlueEnv(i)
  <2>1. inv[i].call = "update" /\ inv[i].call \in Calls /\ Own(i)
    BY <1>3 DEF UpdateBlueEnv, At, Own, Owning, Calls
  <2>2. version[Mine(i)] = "processed"
    BY <2>1, TypeProcessed DEF Processed, Mine
  <2>3. CASE env["blue"].status # "Ready"
    BY <1>3, <2>1, <2>3, IdlesOnInv DEF UpdateBlueEnv, Raises, Calls, Owning
  <2>4. CASE env["blue"].status = "Ready"
    <3>1. /\ env' = [env EXCEPT !["blue"].status = "Updating",
                                !["blue"].next = label[inv[i].job]]
          /\ Goes(i, "ready")
          /\ UNCHANGED <<pipeline, lambda, version, cname, swaps>>
      BY <1>3, <2>4 DEF UpdateBlueEnv
    <3>2. label[inv[i].job] \in 0 .. MaxJobs
      BY <2>1, InHand, BlueGreenAssumption DEF Labels
    <3>3. env' \in [Environments ->
            [status : {"Ready", "Updating"}, version : 0 .. MaxJobs, next : 0 .. MaxJobs]]
      BY ZenonT(40), <3>1, <3>2 DEF TypeOK
    <3>4. "ready" \in Owning \ {"success"}
      BY DEF Owning
    <3>5. QED
      BY <2>1, <2>2, <3>1, <3>3, <3>4, OwnerGoesOnInv
  <2>5. QED
    BY <2>3, <2>4
<1>4. CASE BlueIsReady(i)
  <2>1. inv[i].call = "ready" /\ Own(i)
    BY <1>4 DEF BlueIsReady, At, Own, Owning
  <2>2. version[Mine(i)] = "processed"
    BY <2>1, TypeProcessed DEF Processed, Mine
  <2>3. "swap" \in Owning \ {"success"}
    BY DEF Owning
  <2>4. env' = env /\ env \in [Environments ->
          [status : {"Ready", "Updating"}, version : 0 .. MaxJobs, next : 0 .. MaxJobs]]
    BY <1>4 DEF BlueIsReady, TypeOK
  <2>5. QED
    BY <1>4, <2>1, <2>2, <2>3, <2>4, OwnerGoesOnInv DEF BlueIsReady
<1>5. QED
  BY <1>1, <1>2, <1>3, <1>4, CreateInv, SwapInv, SuccessInv, FailureInv DEF Handler

LEMMA NextInv ==
  ASSUME Inv, [Next]_vars
  PROVE  Inv'
<1> USE DEF Inv
<1>1. ASSUME NEW i \in Invocations, Refused(i) \/ TimeOut(i) PROVE Inv'
  <2>1. inv[i] # Idle
    BY <1>1 DEF Refused, TimeOut
  <2>2. CASE Fails(i)
    BY <2>1, <2>2, FailsInv
  <2>3. CASE Raises(i)
    BY <2>1, <2>3, IdlesOnInv DEF Raises, Calls, Owning
  <2>4. QED
    BY <1>1, <2>2, <2>3 DEF Refused, TimeOut
<1>2. CASE UNCHANGED vars
  <2>1. UNCHANGED <<job, label, result, queued, failures, twice, inv, version, env, cname, swaps>>
    BY <1>2 DEF vars, pipeline, lambda
  <2>2. TypeOK' /\ Released'
    BY <2>1 DEF TypeOK, Released
  <2>3. Owners' /\ Reported'
    BY <2>1, Frame
  <2>4. QED
    BY <2>2, <2>3
<1>3. CASE Terminated
  BY <1>2, <1>3 DEF Terminated
<1>4. QED
  BY <1>1, <1>2, <1>3, StartInv, ExpireInv, DeliversInv, HandlerInv, BeanstalkInv DEF Next

LEMMA Invariance == Spec => []Inv
<1>1. Inv /\ [Next]_vars => Inv'
  BY NextInv
<1>2. QED
  BY InitInv, <1>1, PTL DEF Spec

-----------------------------------------------------------------------------
(* The jobs that are not forgotten.                                        *)

\* An invocation goes on, is over with an answer, or fails.
LEMMA HandlerEffect ==
  ASSUME Inv, NEW i \in Invocations, Handler(i) \/ Refused(i) \/ TimeOut(i)
  PROVE  /\ inv[i] # Idle
         /\ \/ /\ UNCHANGED <<job, result, queued, failures>>
               /\ \A k \in Invocations : inv'[k].job = inv[k].job
            \/ /\ UNCHANGED <<job, queued, failures>>
               /\ \E r \in {"succeeded", "failed"} : result' = [result EXCEPT ![inv[i].job] = r]
               /\ inv' = [inv EXCEPT ![i] = Idle]
            \/ Fails(i)
<1> USE DEF Inv
<1> DEFINE Onward == /\ UNCHANGED <<job, result, queued, failures>>
                     /\ \A k \in Invocations : inv'[k].job = inv[k].job
           Answer == /\ UNCHANGED <<job, queued, failures>>
                     /\ \E r \in {"succeeded", "failed"} :
                          result' = [result EXCEPT ![inv[i].job] = r]
                     /\ inv' = [inv EXCEPT ![i] = Idle]
<1>1. ASSUME inv[i] # Idle \/ inv[i].call \in Calls, NEW c \in Calls, Goes(i, c),
             UNCHANGED <<job, result, queued, failures>>
      PROVE  inv[i] # Idle /\ Onward
  BY <1>1, Moves
<1>2. ASSUME inv[i] # Idle \/ inv[i].call \in Calls, Raises(i)
      PROVE  inv[i] # Idle /\ Onward
  BY <1>1, <1>2 DEF Raises, pipeline, lambda, Calls
<1>3. CASE Refused(i) \/ TimeOut(i)
  BY <1>2, <1>3 DEF Refused, TimeOut
<1>4. CASE DescribeHealth(i)
  <2>1. inv[i].call \in Calls /\ UNCHANGED <<job, result, queued, failures>>
    BY <1>4 DEF DescribeHealth, At, Calls, pipeline, lambda
  <2>2. \E c \in Calls : Goes(i, c)
    BY <1>4 DEF DescribeHealth, Calls
  <2>3. QED
    BY <1>1, <2>1, <2>2
<1>5. CASE CreateAppVersion(i) \/ DescribeAppVersion(i) \/ UpdateBlueEnv(i) \/ BlueIsReady(i)
           \/ SwapBlueGreen(i)
  <2>1. inv[i].call \in Calls
    BY <1>5 DEF CreateAppVersion, DescribeAppVersion, UpdateBlueEnv, BlueIsReady, SwapBlueGreen,
                At, Calls
  <2>2. \/ Raises(i)
        \/ (\E c \in Calls : Goes(i, c)) /\ UNCHANGED <<job, result, queued, failures>>
    BY <1>5 DEF CreateAppVersion, DescribeAppVersion, UpdateBlueEnv, BlueIsReady, SwapBlueGreen,
                Calls, pipeline, lambda
  <2>3. QED
    BY <1>1, <1>2, <2>1, <2>2
<1>6. CASE PutJobSuccess(i)
  <2>1. inv[i].call \in Calls
    BY <1>6 DEF PutJobSuccess, At, Calls
  <2>2. Raises(i) \/ Answer
    BY <1>6 DEF PutJobSuccess, lambda
  <2>3. QED
    BY <1>2, <2>1, <2>2, Place
<1>7. CASE PutJobFailure(i)
  <2>1. inv[i].call \in Calls
    BY <1>7 DEF PutJobFailure, Calls
  <2>2. Raises(i) \/ Answer \/ Fails(i)
    BY <1>7 DEF PutJobFailure, lambda
  <2>3. QED
    BY <1>2, <2>1, <2>2, Place
<1>8. QED
  BY <1>3, <1>4, <1>5, <1>6, <1>7 DEF Handler

\* A failure before the last attempt puts the job into the queue again.
LEMMA FailsAttempted ==
  ASSUME Inv, Attempted, NEW i \in Invocations, inv[i] # Idle, Fails(i)
  PROVE  Attempted'
<1> USE DEF Inv
<1> DEFINE m == inv[i].job
<1>1. /\ inv' = [inv EXCEPT ![i] = Idle]
      /\ failures' = [failures EXCEPT ![m] = failures[m] + 1]
      /\ queued' = [queued EXCEPT ![m] = IF failures'[m] < Attempts THEN queued[m] + 1 ELSE queued[m]]
      /\ UNCHANGED <<job, result>>
  BY DEF Fails, pipeline
<1>2. m \in Jobs
  BY Place
<1>3. /\ failures[m] \in Nat /\ queued[m] \in Nat /\ failures'[m] = failures[m] + 1
      /\ failures'[m] < Attempts => queued'[m] = queued[m] + 1
      /\ \A j \in Jobs \ {m} : failures'[j] = failures[j] /\ queued'[j] = queued[j]
      /\ \A k \in Invocations \ {i} : inv'[k] = inv[k]
  BY <1>1, <1>2 DEF TypeOK
<1> SUFFICES ASSUME NEW j \in Jobs, j <= job, result[j] \notin {"succeeded", "failed"}
             PROVE  \/ failures'[j] >= Attempts
                    \/ result[j] = "none" /\ (queued'[j] > 0 \/ AtWork(j)')
  BY <1>1 DEF Attempted
<1>4. CASE j = m
  <2>1. CASE failures[m] >= Attempts
    BY <1>3, <1>4, <2>1 DEF Attempts
  <2>2. CASE ~(failures[m] >= Attempts)
    <3>1. result[j] = "none"
      BY <1>4, <2>2 DEF Attempted
    <3>2. failures'[m] >= Attempts \/ queued'[m] > 0
      BY <1>3 DEF Attempts
    <3>3. QED
      BY <1>4, <3>1, <3>2
  <2>3. QED
    BY <2>1, <2>2
<1>5. CASE j # m
  <2>1. AtWork(j) => AtWork(j)'
    BY <1>3, <1>5 DEF AtWork
  <2>2. QED
    BY <1>3, <1>5, <2>1 DEF Attempted
<1>6. QED
  BY <1>4, <1>5

LEMMA AttemptedStep ==
  ASSUME Inv, Attempted, [Next]_vars
  PROVE  Attempted'
<1> USE DEF Inv
<1>1. CASE Start
  <2>1. /\ job' = job + 1 /\ job + 1 \in Jobs /\ job \in Nat
        /\ queued' = [queued EXCEPT ![job + 1] = 1]
        /\ UNCHANGED <<result, failures, inv>>
    BY <1>1, BlueGreenAssumption DEF Start, TypeOK, Jobs
  <2>2. queued'[job + 1] = 1 /\ \A j \in Jobs \ {job + 1} : queued'[j] = queued[j]
    BY <2>1 DEF TypeOK
  <2>3. result[job + 1] = "none"
    BY <2>1 DEF Released
  <2>4. \A j \in Jobs : j <= job + 1 => j <= job \/ j = job + 1
    BY <2>1 DEF Jobs
  <2>5. \A j \in Jobs : AtWork(j)' = AtWork(j)
    BY <2>1 DEF AtWork
  <2>6. QED
    BY <2>1, <2>2, <2>3, <2>4, <2>5 DEF Attempted
<1>2. CASE Expire
  <2>1. /\ job \in Jobs /\ queued[job] = 0 /\ ~AtWork(job) /\ result[job] = "none"
        /\ result' = [result EXCEPT ![job] = "expired"]
        /\ UNCHANGED <<job, queued, failures, inv>>
    BY <1>2, BlueGreenAssumption DEF Expire, TypeOK, Jobs, lambda, AtWork
  <2>2. failures[job] >= Attempts
    <3>1. job <= job
      BY <2>1 DEF Jobs
    <3>2. QED
      BY <2>1, <3>1 DEF Attempted
  <2>3. \A j \in Jobs \ {job} : result'[j] = result[j]
    BY <2>1 DEF TypeOK
  <2>4. \A j \in Jobs : AtWork(j)' = AtWork(j)
    BY <2>1 DEF AtWork
  <2>5. QED
    BY <2>1, <2>2, <2>3, <2>4 DEF Attempted
<1>3. ASSUME NEW i \in Invocations, NEW m \in Jobs, Invoke(i, m) \/ InvokeTwice(i, m)
      PROVE  Attempted'
  <2>1. /\ inv[i] = Idle /\ inv' = [inv EXCEPT ![i] = [job |-> m, call |-> "health"]]
        /\ UNCHANGED <<job, result, failures>>
        /\ \A j \in Jobs \ {m} : queued'[j] = queued[j]
    BY <1>3 DEF Invoke, InvokeTwice, Delivers, pipeline, TypeOK
  <2>2. inv'[i].job = m /\ \A k \in Invocations \ {i} : inv'[k] = inv[k]
    BY <2>1 DEF TypeOK
  <2>3. AtWork(m)'
    BY <2>2 DEF AtWork
  <2>4. \A j \in Jobs : j # m /\ AtWork(j) => AtWork(j)'
    <3>1. \A j \in Jobs : j # Idle.job
      BY DEF Jobs, Idle
    <3>2. QED
      BY <2>1, <2>2, <3>1 DEF AtWork
  <2>5. result[m] = "none" \/ result[m] \in {"succeeded", "failed"} \/ failures[m] >= Attempts
        \/ ~(m <= job)
    BY DEF Attempted
  <2>6. QED
    BY <2>1, <2>3, <2>4, <2>5 DEF Attempted
<1>4. ASSUME NEW i \in Invocations, Handler(i) \/ Refused(i) \/ TimeOut(i) PROVE Attempted'
  <2>1. CASE UNCHANGED <<job, result, queued, failures>>
             /\ \A k \in Invocations : inv'[k].job = inv[k].job
    <3>1. \A j \in Jobs : AtWork(j)' = AtWork(j)
      BY <2>1 DEF AtWork
    <3>2. QED
      BY <2>1, <3>1 DEF Attempted
  <2>2. ASSUME NEW r \in {"succeeded", "failed"}, result' = [result EXCEPT ![inv[i].job] = r],
               inv[i] # Idle, UNCHANGED <<job, queued, failures>>, inv' = [inv EXCEPT ![i] = Idle]
        PROVE  Attempted'
    <3>1. inv[i].job \in Jobs
      BY <2>2, Place
    <3>2. /\ result'[inv[i].job] = r
          /\ \A j \in Jobs \ {inv[i].job} : result'[j] = result[j]
          /\ \A k \in Invocations \ {i} : inv'[k] = inv[k]
      BY <2>2, <3>1 DEF TypeOK
    <3>3. \A j \in Jobs : j # inv[i].job /\ AtWork(j) => AtWork(j)'
      BY <3>2 DEF AtWork
    <3>4. QED
      BY <2>2, <3>2, <3>3 DEF Attempted
  <2>3. QED
    BY <1>4, <2>1, <2>2, HandlerEffect, FailsAttempted
<1>5. ASSUME UNCHANGED <<job, result, queued, failures, inv>> PROVE Attempted'
  <2>1. \A j \in Jobs : AtWork(j)' = AtWork(j)
    BY <1>5 DEF AtWork
  <2>2. QED
    BY <1>5, <2>1 DEF Attempted
<1>6. ASSUME NEW l \in Labels, VersionProcessed(l) PROVE Attempted'
  BY <1>5, <1>6 DEF VersionProcessed, pipeline, lambda
<1>7. ASSUME NEW e \in Environments, Updated(e) PROVE Attempted'
  BY <1>5, <1>7 DEF Updated, pipeline, lambda
<1>8. CASE UNCHANGED vars
  BY <1>5, <1>8 DEF vars, pipeline, lambda
<1>9. QED
  BY <1>1, <1>2, <1>3, <1>4, <1>6, <1>7, <1>8 DEF Next, Terminated

-----------------------------------------------------------------------------
(* The environments and the CNAME.                                         *)

\* A version that is swapped is one more.
LEMMA OneMoreSwapped ==
  ASSUME Inv, NEW l \in Labels, swaps[l] = 0, swaps' = [swaps EXCEPT ![l] = 1]
  PROVE  Cardinality(Swapped') = Cardinality(Swapped) + 1 /\ Cardinality(Swapped) \in Nat
<1>1. IsFiniteSet(Labels)
  BY FS_Interval, BlueGreenAssumption DEF Labels
<1>2. Swapped \subseteq Labels /\ l \notin Swapped
  BY DEF Swapped
<1>3. Swapped' = Swapped \cup {l}
  BY DEF Swapped, Inv, TypeOK
<1>4. IsFiniteSet(Swapped)
  BY <1>1, <1>2, FS_Subset
<1>5. QED
  BY <1>2, <1>3, <1>4, FS_AddElement, FS_CardinalityType

LEMMA TrafficStep ==
  ASSUME Inv, Traffic, [Next]_vars
  PROVE  Traffic'
<1> USE DEF Inv
<1>1. ASSUME UNCHANGED <<env, cname, swaps>> PROVE Traffic'
  BY <1>1 DEF Traffic, Swapped
<1>2. ASSUME NEW e \in Environments, Updated(e) PROVE Traffic'
  <2>1. e # "green"
    BY <1>2 DEF Updated, Traffic
  <2>2. env'["green"] = env["green"] /\ UNCHANGED <<cname, swaps>>
    BY <1>2, <2>1 DEF Updated, TypeOK, Environments
  <2>3. QED
    BY <2>2 DEF Traffic, Swapped
<1>3. ASSUME NEW i \in Invocations, UpdateBlueEnv(i) PROVE Traffic'
  <2>1. env'["green"] = env["green"] /\ UNCHANGED <<cname, swaps>>
    BY <1>3 DEF UpdateBlueEnv, Raises, TypeOK, Environments
  <2>2. QED
    BY <2>1 DEF Traffic, Swapped
<1>4. ASSUME NEW i \in Invocations, SwapBlueGreen(i) PROVE Traffic'
  <2> DEFINE l == label[inv[i].job]
  <2>1. CASE UNCHANGED <<env, cname, swaps>>
    BY <1>1, <2>1
  <2>2. CASE /\ cname' = IF cname = "blue" THEN "green" ELSE "blue"
             /\ swaps' = [swaps EXCEPT ![l] = @ + 1]
             /\ UNCHANGED env
    <3>1. inv[i].call = "swap" /\ inv[i].call \in Calls /\ Own(i) /\ Mine(i) = l
      BY <1>4 DEF SwapBlueGreen, At, Calls, Own, Owning, Mine
    <3>2. l \in Labels /\ swaps[l] = 0
      BY <3>1, InHand DEF Owners
    <3>3. swaps' = [swaps EXCEPT ![l] = 1]
      BY <2>2, <3>2
    <3>4. Cardinality(Swapped') = Cardinality(Swapped) + 1 /\ Cardinality(Swapped) \in Nat
      BY <3>2, <3>3, OneMoreSwapped
    <3>5. \A n \in Nat : (n + 1) % 2 = 0 <=> n % 2 # 0
      OBVIOUS
    <3>6. QED
      BY <2>2, <3>4, <3>5 DEF Traffic
  <2>3. QED
    BY <1>4, <2>1, <2>2 DEF SwapBlueGreen, Raises
<1>5. ASSUME NEW i \in Invocations, Refused(i) \/ TimeOut(i) PROVE Traffic'
  BY <1>1, <1>5 DEF Refused, TimeOut, Fails, Raises
<1>6. ASSUME NEW i \in Invocations, Handler(i) PROVE Traffic'
  BY <1>1, <1>3, <1>4, <1>6 DEF Handler, DescribeHealth, CreateAppVersion, DescribeAppVersion,
     BlueIsReady, PutJobSuccess, PutJobFailure, Fails, Raises
<1>7. CASE Start \/ Expire \/ UNCHANGED vars
  BY <1>1, <1>7 DEF Start, Expire, vars
<1>8. ASSUME NEW i \in Invocations, NEW j \in Jobs, Invoke(i, j) \/ InvokeTwice(i, j)
      PROVE  Traffic'
  BY <1>1, <1>8 DEF Invoke, InvokeTwice, Delivers
<1>9. ASSUME NEW l \in Labels, VersionProcessed(l) PROVE Traffic'
  BY <1>1, <1>9 DEF VersionProcessed
<1>10. QED
  BY <1>2, <1>5, <1>6, <1>7, <1>8, <1>9 DEF Next, Terminated

LEMMA FullInvariance == Spec => [](Inv /\ Attempted /\ Traffic)
<1>1. Init => Attempted /\ Traffic
  <2> SUFFICES ASSUME Init PROVE Attempted /\ Traffic
    OBVIOUS
  <2>1. Attempted
    BY BlueGreenAssumption DEF Init, Attempted, Jobs
  <2>2. Swapped = {} /\ env["green"] = [status |-> "Ready", version |-> 0, next |-> 0]
    BY DEF Init, Swapped, Environments
  <2>3. Cardinality(Swapped) % 2 = 0
    BY <2>2, FS_EmptySet
  <2>4. QED
    BY <2>1, <2>2, <2>3 DEF Init, Traffic
<1>2. Inv /\ Attempted /\ Traffic /\ [Next]_vars => (Inv /\ Attempted /\ Traffic)'
  BY NextInv, AttemptedStep, TrafficStep
<1>3. QED
  BY InitInv, <1>1, <1>2, PTL DEF Spec

-----------------------------------------------------------------------------

\* The variables keep their types, and what is deployed was processed.
THEOREM BlueGreenTypeOK ==
  Spec => []TypeOK
BY Invariance, PTL DEF Inv

\* No version is swapped twice, whatever is invoked again, refused, cut off or
\* retried, and a job that is successful has swapped its version.
THEOREM BlueGreenSwappedOnce ==
  Spec => []SwappedOnce
<1>1. Inv => SwappedOnce
  <2> SUFFICES ASSUME Inv PROVE SwappedOnce
    OBVIOUS
  <2>1. \A l \in Labels : swaps[l] <= 1
    BY DEF Inv, Owners
  <2>2. QED
    BY <2>1 DEF Inv, Reported, SwappedOnce
<1>2. QED
  BY Invariance, <1>1, PTL

\* Without an answer there is an invocation: CodePipeline gives up on a job only
\* after each of Lambda's attempts has failed, and when nothing is queued or at
\* work every job that was started is answered or has failed as often.
THEOREM BlueGreenNoneForgotten ==
  Spec => [](\A j \in Jobs : result[j] = "expired" \/ (j <= job /\ Quiet) =>
               result[j] \in {"succeeded", "failed"} \/ failures[j] >= Attempts)
<1>1. Inv /\ Attempted => \A j \in Jobs : result[j] = "expired" \/ (j <= job /\ Quiet) =>
        result[j] \in {"succeeded", "failed"} \/ failures[j] >= Attempts
  <2> SUFFICES ASSUME Inv, Attempted, NEW j \in Jobs, result[j] = "expired" \/ (j <= job /\ Quiet)
               PROVE  result[j] \in {"succeeded", "failed"} \/ failures[j] >= Attempts
    OBVIOUS
  <2>1. j <= job
    BY DEF Inv, Released, TypeOK, Jobs
  <2>2. Quiet => queued[j] = 0 /\ ~AtWork(j)
    <3>1. j # Idle.job
      BY DEF Jobs, Idle
    <3>2. QED
      BY <3>1 DEF Quiet, AtWork
  <2>3. QED
    BY <2>1, <2>2 DEF Attempted
<1>2. QED
  BY <1>1, FullInvariance, PTL

\* The function only ever deploys to blue, and a swap does not make it green's
\* turn: production is safe from an update while the number of versions swapped
\* is even, and is blue, which the next release updates, while it is odd.
THEOREM BlueGreenTraffic ==
  Spec => [](/\ Cardinality(Swapped) % 2 = 0 => cname = "green" /\ ZeroDowntime
             /\ Cardinality(Swapped) % 2 # 0 => cname = "blue")
<1>1. Traffic => /\ Cardinality(Swapped) % 2 = 0 => cname = "green" /\ ZeroDowntime
                 /\ Cardinality(Swapped) % 2 # 0 => cname = "blue"
  BY DEF Traffic, ZeroDowntime
<1>2. QED
  BY <1>1, FullInvariance, PTL
=============================================================================
