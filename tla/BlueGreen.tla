------------------------------ MODULE BlueGreen ------------------------------
(***************************************************************************)
(* Blue/green deployment to Elastic Beanstalk, elasticbeanstalk/           *)
(* elasticbeanstalk-bg-pipeline: a pipeline whose last action invokes      *)
(* resources/blue_green.py with the names of the two environments.  The    *)
(* function makes a version of the application from what it is given,      *)
(* deploys it to blue, swaps the CNAMEs of blue and green, and reports.    *)
(*                                                                         *)
(* Lambda invokes it again when it has failed or was cut off, twice at     *)
(* most, and may do so twice without a reason.  CodePipeline waits for one *)
(* job at a time; a release that failed can be retried, as a new job with  *)
(* the same artifact.                                                      *)
(***************************************************************************)
EXTENDS Naturals, FiniteSets

CONSTANTS
  Invocations, \* how many there can be at a time
  MaxJobs,     \* bound on the number of jobs
  MaxTwice     \* bound on the events delivered twice

ASSUME BlueGreenAssumption ==
  /\ IsFiniteSet(Invocations)
  /\ MaxJobs \in Nat
  /\ MaxTwice \in Nat

Jobs         == 1 .. MaxJobs
Labels       == 1 .. MaxJobs     \* a version is named for its artifact
Environments == {"blue", "green"}
Attempts     == 3                \* of Lambda, for an asynchronous invocation

VARIABLES
  job,      \* the last job that was started, or 0
  label,    \* the artifact of each job, or 0
  result,   \* what CodePipeline was told of it
  queued,   \* invocations of each job that are to come
  failures, \* its invocations that failed
  twice,    \* events delivered twice so far
  inv,      \* of each invocation: its job and the call it is about to make
  version,  \* the status of each application version
  env,      \* of each environment: its status, its version, the one to come
  cname,    \* the environment that has the production CNAME
  swaps     \* how often the CNAMEs were swapped for a version (history)

pipeline == <<job, label, result>>
lambda   == <<queued, failures, twice>>
vars     == <<pipeline, lambda, inv, version, env, cname, swaps>>

Calls == {"health", "create", "processed", "update", "ready", "swap",
          "success", "refuse", "failure"}
Idle  == [job |-> 0, call |-> "none"]

\* The fields have their types, and nothing but a version that was processed is
\* deployed: the poll of create_app_version comes before.
TypeOK ==
  /\ job \in 0 .. MaxJobs
  /\ label \in [Jobs -> 0 .. MaxJobs]
  /\ result \in [Jobs -> {"none", "succeeded", "failed", "expired"}]
  /\ queued \in [Jobs -> Nat]
  /\ failures \in [Jobs -> Nat]
  /\ twice \in 0 .. MaxTwice
  /\ inv \in [Invocations -> {Idle} \cup [job : Jobs, call : Calls]]
  /\ version \in [Labels -> {"absent", "processing", "processed", "failed"}]
  /\ env \in [Environments -> [status : {"Ready", "Updating"},
                               version : 0 .. MaxJobs, next : 0 .. MaxJobs]]
  /\ cname \in Environments
  /\ swaps \in [Labels -> Nat]
  /\ \A i \in Invocations : inv[i].call \in {"update", "ready", "swap", "success"} =>
       version[label[inv[i].job]] = "processed"

\* Production is on green, as blue's name says.
Init ==
  /\ job = 0
  /\ label = [j \in Jobs |-> 0]
  /\ result = [j \in Jobs |-> "none"]
  /\ queued = [j \in Jobs |-> 0]
  /\ failures = [j \in Jobs |-> 0]
  /\ twice = 0
  /\ inv = [i \in Invocations |-> Idle]
  /\ version = [l \in Labels |-> "absent"]
  /\ env = [e \in Environments |-> [status |-> "Ready", version |-> 0, next |-> 0]]
  /\ cname = "green"
  /\ swaps = [l \in Labels |-> 0]

-----------------------------------------------------------------------------
(* CodePipeline and Lambda.                                                *)

\* The next commit is released, or a release that failed is retried.
Start ==
  /\ job < MaxJobs
  /\ \A j \in 1 .. job : result[j] # "none"
  /\ job' = job + 1
  /\ \E l \in Labels :
       /\ \/ l = job'
          \/ \E j \in {job} \cap Jobs : result[j] # "succeeded" /\ l = label[j]
       /\ label' = [label EXCEPT ![job'] = l]
  /\ queued' = [queued EXCEPT ![job'] = 1]
  /\ UNCHANGED <<result, failures, twice, inv, version, env, cname, swaps>>

Delivers(i, j) ==
  /\ queued[j] > 0
  /\ inv[i] = Idle
  /\ inv' = [inv EXCEPT ![i] = [job |-> j, call |-> "health"]]
  /\ UNCHANGED <<pipeline, failures, version, env, cname, swaps>>

Invoke(i, j) ==
  /\ Delivers(i, j)
  /\ queued' = [queued EXCEPT ![j] = @ - 1]
  /\ UNCHANGED twice

InvokeTwice(i, j) ==
  /\ Delivers(i, j)
  /\ twice < MaxTwice
  /\ twice' = twice + 1
  /\ UNCHANGED queued

\* CodePipeline gives up on a job that nobody will answer.
Expire ==
  /\ job > 0
  /\ result[job] = "none"
  /\ queued[job] = 0
  /\ \A i \in Invocations : inv[i].job # job
  /\ result' = [result EXCEPT ![job] = "expired"]
  /\ UNCHANGED <<job, label, lambda, inv, version, env, cname, swaps>>

\* An exception that leaves the handler, or the time limit: index.ts sets none,
\* and Lambda's is three seconds, so that a poll that has to sleep is cut off.
Fails(i) ==
  LET j == inv[i].job IN
  /\ inv' = [inv EXCEPT ![i] = Idle]
  /\ failures' = [failures EXCEPT ![j] = @ + 1]
  /\ queued' = [queued EXCEPT ![j] = IF failures'[j] < Attempts THEN @ + 1 ELSE @]
  /\ UNCHANGED <<pipeline, twice, version, env, cname, swaps>>

TimeOut(i) == inv[i] # Idle /\ Fails(i)

-----------------------------------------------------------------------------
(* Elastic Beanstalk.                                                      *)

VersionProcessed(l) ==
  /\ version[l] = "processing"
  /\ \E status \in {"processed", "failed"} : version' = [version EXCEPT ![l] = status]
  /\ UNCHANGED <<pipeline, lambda, inv, env, cname, swaps>>

\* An update that failed leaves the environment ready too, at the old version.
Updated(e) ==
  /\ env[e].status = "Updating"
  /\ \E v \in {env[e].version, env[e].next} :
       env' = [env EXCEPT ![e] = [status |-> "Ready", version |-> v, next |-> 0]]
  /\ UNCHANGED <<pipeline, lambda, inv, version, cname, swaps>>

-----------------------------------------------------------------------------
(* lambda_handler.                                                         *)

At(i, call)   == inv[i].call = call
Goes(i, call) == inv' = [inv EXCEPT ![i].call = call]

\* Whatever is raised is reported as the failure of the job.
Raises(i) == Goes(i, "failure") /\ UNCHANGED <<pipeline, lambda, version, env, cname, swaps>>

Refused(i) ==
  /\ inv[i] # Idle
  /\ IF At(i, "failure") THEN Fails(i) ELSE Raises(i)

DescribeHealth(i) ==
  /\ At(i, "health")
  /\ Goes(i, IF env["blue"].status = "Ready" THEN "create" ELSE "refuse")
  /\ UNCHANGED <<pipeline, lambda, version, env, cname, swaps>>

\* Mutant: a version that exists is taken for the one to deploy.
CreateAppVersion_Again(i) ==
  LET l == label[inv[i].job] IN
  /\ At(i, "create")
  /\ version' = [version EXCEPT ![l] = IF @ = "absent" THEN "processing" ELSE @]
  /\ Goes(i, "processed")
  /\ UNCHANGED <<pipeline, lambda, env, cname, swaps>>

\* A version cannot be created again.
CreateAppVersion(i) ==
  LET l == label[inv[i].job] IN
  /\ At(i, "create")
  /\ IF version[l] # "absent" THEN Raises(i)
     ELSE /\ version' = [version EXCEPT ![l] = "processing"]
          /\ Goes(i, "processed")
          /\ UNCHANGED <<pipeline, lambda, env, cname, swaps>>

\* Mutant: the poll ends with the processing, whatever its outcome.
DescribeAppVersion_Failed(i) ==
  /\ At(i, "processed")
  /\ version[label[inv[i].job]] # "processing"
  /\ Goes(i, "update")
  /\ UNCHANGED <<pipeline, lambda, version, env, cname, swaps>>

\* No other status ends the poll, that of a version that failed included.
DescribeAppVersion(i) ==
  /\ At(i, "processed")
  /\ version[label[inv[i].job]] = "processed"
  /\ Goes(i, "update")
  /\ UNCHANGED <<pipeline, lambda, version, env, cname, swaps>>

UpdateBlueEnv(i) ==
  /\ At(i, "update")
  /\ IF env["blue"].status # "Ready" THEN Raises(i)
     ELSE /\ env' = [env EXCEPT !["blue"].status = "Updating",
                                !["blue"].next = label[inv[i].job]]
          /\ Goes(i, "ready")
          /\ UNCHANGED <<pipeline, lambda, version, cname, swaps>>

BlueIsReady(i) ==
  /\ At(i, "ready")
  /\ env["blue"].status = "Ready"
  /\ Goes(i, "swap")
  /\ UNCHANGED <<pipeline, lambda, version, env, cname, swaps>>

\* The CNAMEs go to the other environment, the names stay where they are.
SwapBlueGreen(i) ==
  LET l == label[inv[i].job] IN
  /\ At(i, "swap")
  /\ IF \E e \in Environments : env[e].status # "Ready" THEN Raises(i)
     ELSE /\ cname' = IF cname = "blue" THEN "green" ELSE "blue"
          /\ swaps' = [swaps EXCEPT ![l] = @ + 1]
          /\ Goes(i, "success")
          /\ UNCHANGED <<pipeline, lambda, version, env>>

\* CodePipeline takes one result for a job.
PutJobSuccess(i) ==
  LET j == inv[i].job IN
  /\ At(i, "success")
  /\ IF result[j] # "none" THEN Raises(i)
     ELSE /\ result' = [result EXCEPT ![j] = "succeeded"]
          /\ inv' = [inv EXCEPT ![i] = Idle]
          /\ UNCHANGED <<job, label, lambda, version, env, cname, swaps>>

\* Mutant: the exception handler has nothing to raise, and nothing is retried.
PutJobFailure_Silent(i) ==
  /\ inv[i].call \in {"refuse", "failure"}
  /\ inv' = [inv EXCEPT ![i] = Idle]
  /\ UNCHANGED <<pipeline, lambda, version, env, cname, swaps>>

\* Blue is not ready, or the exception handler: what that raises is Lambda's.
PutJobFailure(i) ==
  LET j == inv[i].job IN
  /\ inv[i].call \in {"refuse", "failure"}
  /\ IF result[j] = "none"
     THEN /\ result' = [result EXCEPT ![j] = "failed"]
          /\ inv' = [inv EXCEPT ![i] = Idle]
          /\ UNCHANGED <<job, label, lambda, version, env, cname, swaps>>
     ELSE IF At(i, "failure") THEN Fails(i) ELSE Raises(i)

-----------------------------------------------------------------------------

Handler(i) ==
  \/ DescribeHealth(i) \/ CreateAppVersion(i) \/ DescribeAppVersion(i)
  \/ UpdateBlueEnv(i) \/ BlueIsReady(i) \/ SwapBlueGreen(i)
  \/ PutJobSuccess(i) \/ PutJobFailure(i)

Quiet ==
  /\ \A j \in Jobs : queued[j] = 0
  /\ \A i \in Invocations : inv[i] = Idle

\* Nobody releases anything any more.
Terminated ==
  Quiet /\ job = MaxJobs /\ (\A j \in Jobs : result[j] # "none") /\ UNCHANGED vars

Next ==
  \/ Start
  \/ Expire
  \/ \E i \in Invocations, j \in Jobs : Invoke(i, j) \/ InvokeTwice(i, j)
  \/ \E i \in Invocations : Handler(i) \/ Refused(i) \/ TimeOut(i)
  \/ \E l \in Labels : VersionProcessed(l)
  \/ \E e \in Environments : Updated(e)
  \/ Terminated

Spec == Init /\ [][Next]_vars

\* Lambda delivers what is queued, and an invocation goes on or is cut off.
\* Nothing is assumed of what it waits for.
FairSpec ==
  /\ Spec
  /\ WF_vars(\E i \in Invocations, j \in Jobs : Invoke(i, j))
  /\ \A i \in Invocations : WF_vars(Handler(i) \/ Refused(i) \/ TimeOut(i))

-----------------------------------------------------------------------------
(* Properties.                                                             *)

\* A version is swapped into production once at most, however often its job is
\* invoked or retried and wherever an invocation was cut off: the CNAMEs never go
\* back.  A job that is reported as successful (blue_green.py:209) has
\* swapped its version, and a version has one successful job.
SwappedOnce ==
  /\ \A l \in Labels : swaps[l] <= 1
  /\ \A j \in Jobs : result[j] = "succeeded" => swaps[label[j]] = 1
  /\ \A j, k \in Jobs :
       (j # k /\ result[j] = "succeeded" /\ result[k] = "succeeded") => label[j] # label[k]

\* The function answers every job, though its polls have no bound
\* (blue_green.py:131, 153) and a version may fail to process, unless each of
\* Lambda's attempts fails.
JobAnswered ==
  \A j \in Jobs :
    job = j ~> result[j] \in {"succeeded", "failed"} \/ failures[j] >= Attempts

\* Production is never in the middle of an update.
ZeroDowntime == env[cname].status = "Ready"
=============================================================================
