---------------------------- MODULE ToolkitBuild ----------------------------
(***************************************************************************)
(* The build toolkit: scripts/build-toolkit.                               *)
(*                                                                         *)
(* buildAll discovers the projects and runs one task per buildable project *)
(* under p-limit.  A task runs the build steps of its language as child    *)
(* processes and then synthesizes the project inside the toolkit's own     *)
(* process: it puts a fake cdk.context.json in place when there is none,   *)
(* saves process.env, adds default region and account to it, runs the CDK  *)
(* app, puts process.env back, and removes what it created.                *)
(*                                                                         *)
(* The tasks share one event loop: what lies between two awaits is one     *)
(* action here.  They share process.env and nothing else.  The files they  *)
(* leave in the project directories outlive the process.                   *)
(***************************************************************************)
EXTENDS Integers, Sequences, FiniteSets

CONSTANTS
  NumProjects,    \* directories with a cdk.json
  Langs,          \* languages that detectLanguage finds there
  Filters,        \* values of --language, "all" when it is absent
  Concurrencies,  \* values of --concurrency; 0 stands for what p-limit refuses
  MaxRuns         \* bound on the number of times the toolkit is run

Pipeline == [typescript |-> <<"install", "build", "test">>,
             python     |-> <<"install">>,
             java       |-> <<"build", "test">>,
             go         |-> <<"build", "test">>,
             csharp     |-> <<"build">>]

ASSUME ToolkitAssumption ==
  /\ NumProjects \in Nat
  /\ Langs \subseteq (DOMAIN Pipeline) \cup {"unknown"}
  /\ Concurrencies \subseteq Nat
  /\ MaxRuns \in Nat \ {0}

Projects == 1 .. NumProjects     \* in the order of the sorted paths

VARIABLES
  \* the tree; it survives the process
  lang, flag,     \* language and DO_NOT_AUTOTEST of each project
  ctx,            \* cdk.context.json: "none", "user" or "fake"
  venv,           \* is there a .venv
  ctxAtStart,     \* ctx when the current run began (history)
  \* the process
  filter, concurrency,
  phase, exitCode, runs,
  env,            \* does process.env hold the default region and account
  task,           \* where the task of a project is
  steps,          \* the outcomes in its steps array
  savedEnv,       \* the savedEnv of its synthesis
  copied,         \* its copiedFakeCtx
  childEnv,       \* the env its last child process was given
  left            \* what its clean-up failed to remove (history)

tree    == <<lang, flag>>
options == <<filter, concurrency, runs>>
vars    == <<tree, ctx, venv, ctxAtStart, options, phase, exitCode, env, task, steps,
             savedEnv, copied, childEnv, left>>

Ended == {"exited", "fatal", "killed"}

TypeOK ==
  /\ lang \in [Projects -> Langs]
  /\ flag \in [Projects -> BOOLEAN]
  /\ ctx \in [Projects -> {"none", "user", "fake"}]
  /\ ctxAtStart \in [Projects -> {"none", "user", "fake"}]
  /\ venv \in [Projects -> BOOLEAN]
  /\ filter \in Filters
  /\ concurrency \in Concurrencies
  /\ phase \in {"discovering", "building"} \cup Ended
  /\ exitCode \in {0, 1}
  /\ runs \in 1 .. MaxRuns
  /\ env \in BOOLEAN
  /\ task \in [Projects -> {"queued", "ready", "running", "context", "config", "synth",
                            "app", "unlink", "rmvenv", "done"}]
  /\ steps \in [Projects -> Seq(BOOLEAN)]
  /\ savedEnv \in [Projects -> BOOLEAN]
  /\ copied \in [Projects -> BOOLEAN]
  /\ childEnv \in [Projects -> BOOLEAN]
  /\ left \in [Projects -> SUBSET {"ctx", "venv"}]

Discovered == {p \in Projects : filter = "all" \/ lang[p] = filter}
Buildable  == {p \in Discovered : ~flag[p] /\ lang[p] # "unknown"}
Started    == {p \in Buildable : task[p] # "queued"}
Active     == {p \in Started : task[p] # "done"}
FailedOnes == {p \in Buildable : task[p] = "done" /\ \E i \in DOMAIN steps[p] : ~steps[p][i]}

Init ==
  /\ lang \in [Projects -> Langs]
  /\ flag \in [Projects -> BOOLEAN]
  /\ ctx \in [Projects -> {"none", "user"}]
  /\ venv = [p \in Projects |-> FALSE]
  /\ ctxAtStart = ctx
  /\ filter \in Filters
  /\ concurrency \in Concurrencies
  /\ phase = "discovering"
  /\ exitCode = 0
  /\ runs = 1
  /\ env = FALSE
  /\ task = [p \in Projects |-> "queued"]
  /\ steps = [p \in Projects |-> << >>]
  /\ savedEnv = [p \in Projects |-> FALSE]
  /\ copied = [p \in Projects |-> FALSE]
  /\ childEnv = [p \in Projects |-> FALSE]
  /\ left = [p \in Projects |-> {}]

-----------------------------------------------------------------------------
(* The run: discovery, p-limit, report, exit.                              *)

End(how, code) ==
  /\ phase' = how
  /\ exitCode' = code
  /\ UNCHANGED <<tree, ctx, venv, ctxAtStart, options, env, task, steps, savedEnv, copied,
                 childEnv, left>>

\* Every readdir succeeds, and pLimit accepts the concurrency.
Discover ==
  /\ phase = "discovering"
  /\ concurrency > 0
  /\ phase' = "building"
  /\ UNCHANGED <<tree, ctx, venv, ctxAtStart, options, exitCode, env, task, steps, savedEnv,
                 copied, childEnv, left>>

\* main().catch: a readdir fails, pLimit throws, or the report cannot be
\* written.
Fatal ==
  /\ \/ phase = "discovering"
     \/ phase = "building" /\ \A p \in Buildable : task[p] = "done"
  /\ End("fatal", 1)

\* Mutant: process.exit(report.summary.failed).
ReportAndExit_Count ==
  /\ phase = "building"
  /\ \A p \in Buildable : task[p] = "done"
  /\ End("exited", Cardinality(FailedOnes))

\* Promise.all has settled: count the results and exit.
ReportAndExit ==
  /\ phase = "building"
  /\ \A p \in Buildable : task[p] = "done"
  /\ End("exited", IF FailedOnes # {} THEN 1 ELSE 0)

\* The process is interrupted or killed: no finally block is run.
Kill ==
  /\ phase \notin Ended
  /\ End("killed", 1)

\* The toolkit is run again on the same tree.
Rerun ==
  /\ phase \in Ended
  /\ runs < MaxRuns
  /\ runs' = runs + 1
  /\ phase' = "discovering"
  /\ exitCode' = 0
  /\ env' = FALSE
  /\ ctxAtStart' = ctx
  /\ task' = [p \in Projects |-> "queued"]
  /\ steps' = [p \in Projects |-> << >>]
  /\ copied' = [p \in Projects |-> FALSE]
  /\ left' = [p \in Projects |-> {}]
  /\ savedEnv' = [p \in Projects |-> FALSE]
  /\ childEnv' = [p \in Projects |-> FALSE]
  /\ UNCHANGED <<tree, ctx, venv, filter, concurrency>>

-----------------------------------------------------------------------------
(* The task of project p.                                                  *)

Task(p, from, to) ==
  /\ phase = "building"
  /\ p \in Buildable
  /\ task[p] = from
  /\ task' = [task EXCEPT ![p] = to]
  /\ UNCHANGED <<tree, ctxAtStart, options, phase, exitCode>>

\* Mutant: a task that has ended keeps its place in the limit.
StartTask_NoRelease(p) ==
  /\ Task(p, "queued", "ready")
  /\ Cardinality(Started) < concurrency
  /\ \A q \in Buildable : q < p => task[q] # "queued"
  /\ UNCHANGED <<ctx, venv, env, steps, savedEnv, copied, childEnv, left>>

\* p-limit starts the tasks in order, `concurrency' at a time.
StartTask(p) ==
  /\ Task(p, "queued", "ready")
  /\ Cardinality(Active) < concurrency
  /\ \A q \in Buildable : q < p => task[q] # "queued"
  /\ UNCHANGED <<ctx, venv, env, steps, savedEnv, copied, childEnv, left>>

\* runStep: the child gets a copy of process.env as it is now.
RunStep(p) ==
  /\ Task(p, "ready", "running")
  /\ childEnv' = [childEnv EXCEPT ![p] = env]
  /\ UNCHANGED <<ctx, venv, env, steps, savedEnv, copied, left>>

\* `close' with code 0; after the last step the synthesis begins.
StepSucceeds(p) ==
  LET last == Len(steps[p]) + 1 = Len(Pipeline[lang[p]]) IN
  /\ Task(p, "running", IF last THEN "context" ELSE "ready")
  /\ steps' = [steps EXCEPT ![p] = Append(@, TRUE)]
  /\ venv' = [venv EXCEPT ![p] = @ \/ lang[p] = "python"]
  /\ UNCHANGED <<ctx, env, savedEnv, copied, childEnv, left>>

\* spawn throws, or leaves no stdout when there are too many open files: the task
\* is rejected, Promise.all with it, and the process exits with the other tasks
\* wherever they are.
SpawnThrows(p) ==
  /\ p \in Buildable
  /\ phase = "building"
  /\ task[p] = "ready"
  /\ End("fatal", 1)

\* Mutant: the early return after a failed step is missing.
StepFails_GoOn(p) ==
  /\ Task(p, "running", "context")
  /\ steps' = [steps EXCEPT ![p] = Append(@, FALSE)]
  /\ UNCHANGED <<ctx, venv, env, savedEnv, copied, childEnv, left>>

\* A non-zero exit code, a signal (the time limit of five minutes included)
\* or `error'.  The venv may have been made before that.
StepFails(p) ==
  /\ Task(p, "running", "done")
  /\ steps' = [steps EXCEPT ![p] = Append(@, FALSE)]
  /\ \/ UNCHANGED venv
     \/ lang[p] = "python" /\ venv' = [venv EXCEPT ![p] = TRUE]
  /\ UNCHANGED <<ctx, env, savedEnv, copied, childEnv, left>>

-----------------------------------------------------------------------------
(* synthProject.                                                           *)

\* Only this task writes in the project's directory, so that the test and the
\* copy are one action.
PlaceContext(p) ==
  /\ Task(p, "context", "config")
  /\ ctx' = [ctx EXCEPT ![p] = IF @ = "none" THEN "fake" ELSE @]
  /\ copied' = [copied EXCEPT ![p] = ctx[p] = "none"]
  /\ UNCHANGED <<venv, env, steps, savedEnv, childEnv, left>>

\* Mutant: the fake context is removed only after a synthesis.
SynthNotStarted_NoCleanup(p) ==
  /\ Task(p, "config", "done")
  /\ steps' = [steps EXCEPT ![p] = Append(@, FALSE)]
  /\ UNCHANGED <<ctx, venv, env, savedEnv, copied, childEnv, left>>

\* copyFile fails, or cdk.json cannot be read or parsed or has no app.
SynthNotStarted(p) ==
  /\ \/ Task(p, "context", "unlink") /\ ctx[p] = "none"
     \/ Task(p, "config", "unlink")
  /\ steps' = [steps EXCEPT ![p] = Append(@, FALSE)]
  /\ UNCHANGED <<ctx, venv, env, savedEnv, copied, childEnv, left>>

\* savedEnv = {...process.env}; the defaults are set; fromCdkApp is called.
EnterSynth(p) ==
  /\ Task(p, "config", "synth")
  /\ savedEnv' = [savedEnv EXCEPT ![p] = env]
  /\ env' = TRUE
  /\ UNCHANGED <<ctx, venv, steps, copied, childEnv, left>>

\* The CDK toolkit library runs the app in a child process, some awaits later.
RunApp(p) ==
  /\ Task(p, "synth", "app")
  /\ childEnv' = [childEnv EXCEPT ![p] = env]
  /\ UNCHANGED <<ctx, venv, env, steps, savedEnv, copied, left>>

\* Mutant: process.env is put back after a success only.
LeaveSynth_NoFinally(p) ==
  /\ \E ok \in BOOLEAN :
       /\ Task(p, "app", "unlink")
       /\ steps' = [steps EXCEPT ![p] = Append(@, ok)]
       /\ env' = IF ok THEN savedEnv[p] ELSE env
  /\ UNCHANGED <<ctx, venv, savedEnv, copied, childEnv, left>>

\* The inner finally: process.env = savedEnv.  The library can also fail
\* before it has run the app.
LeaveSynth(p) ==
  /\ \E ok \in BOOLEAN :
       /\ \/ Task(p, "app", "unlink")
          \/ Task(p, "synth", "unlink") /\ ~ok
       /\ steps' = [steps EXCEPT ![p] = Append(@, ok)]
  /\ env' = savedEnv[p]
  /\ UNCHANGED <<ctx, venv, savedEnv, copied, childEnv, left>>

\* Mutant: the context file is removed whoever put it there.
UnlinkContext_Always(p) ==
  /\ Task(p, "unlink", IF lang[p] = "python" THEN "rmvenv" ELSE "done")
  /\ ctx' = [ctx EXCEPT ![p] = "none"]
  /\ UNCHANGED <<venv, env, steps, savedEnv, copied, childEnv, left>>

\* The outer finally, whose two removals swallow their errors.
UnlinkContext(p) ==
  /\ Task(p, "unlink", IF lang[p] = "python" THEN "rmvenv" ELSE "done")
  /\ \/ /\ copied[p]
        /\ ctx' = [ctx EXCEPT ![p] = "none"]
        /\ UNCHANGED left
     \/ /\ copied[p]
        /\ left' = [left EXCEPT ![p] = @ \cup {"ctx"}]
        /\ UNCHANGED ctx
     \/ ~copied[p] /\ UNCHANGED <<ctx, left>>
  /\ UNCHANGED <<venv, env, steps, savedEnv, copied, childEnv>>

RemoveVenv(p) ==
  /\ Task(p, "rmvenv", "done")
  /\ \/ venv' = [venv EXCEPT ![p] = FALSE] /\ UNCHANGED left
     \/ left' = [left EXCEPT ![p] = @ \cup {"venv"}] /\ UNCHANGED venv
  /\ UNCHANGED <<ctx, env, steps, savedEnv, copied, childEnv>>

-----------------------------------------------------------------------------

Terminated == phase \in Ended /\ runs = MaxRuns /\ UNCHANGED vars

ProjectStep(p) ==
  \/ StartTask(p) \/ RunStep(p) \/ StepSucceeds(p) \/ StepFails(p)
  \/ PlaceContext(p) \/ SynthNotStarted(p) \/ EnterSynth(p) \/ RunApp(p)
  \/ LeaveSynth(p) \/ UnlinkContext(p) \/ RemoveVenv(p)

Next ==
  \/ Discover \/ Fatal \/ ReportAndExit \/ Kill \/ Rerun
  \/ \E p \in Projects : ProjectStep(p) \/ SpawnThrows(p)
  \/ Terminated

Spec == Init /\ [][Next]_vars

\* The event loop goes on; a build step ends, if only by its time limit, and
\* the library's synthesis, which has none, is assumed to.
Fairness ==
  /\ WF_vars(Discover \/ Fatal)
  /\ WF_vars(ReportAndExit)
  /\ \A p \in Projects : WF_vars(ProjectStep(p))

FairSpec == Spec /\ Fairness

-----------------------------------------------------------------------------
(* Properties.                                                             *)

Passed(p)   == \A i \in DOMAIN steps[p] : steps[p][i]
Complete(p) == Len(steps[p]) = Len(Pipeline[lang[p]]) + 1

\* A run that ends by itself has gone through every buildable project: with
\* no step failed it has run all the steps of its language and synthesized it,
\* after a failed step it has run no other, and the exit code is 0 exactly
\* when no step of any project has failed.
ExitTruthful ==
  phase = "exited" =>
    /\ \A p \in Buildable :
         /\ Passed(p) => Complete(p)
         /\ \A i \in 1 .. Len(steps[p]) - 1 : steps[p][i]
    /\ exitCode = 0 <=> \A p \in Buildable : Passed(p)

\* Where a fake context can be in place.
Synthesizing == {"config", "synth", "app", "unlink"}

\* Wherever a run ends, it leaves every cdk.context.json as it found it, but for
\* the removals that failed and the projects that it was synthesizing; and it
\* synthesizes none when it ends with its report.
ContextRestored ==
  \A p \in Projects :
    \/ ctx[p] = ctxAtStart[p]
    \/ "ctx" \in left[p]
    \/ phase # "exited" /\ task[p] \in Synthesizing

\* A context file of the project's own is never replaced nor removed, by any
\* run and after any kill.
ContextKept ==
  [][\A p \in Projects : ctx[p] = "user" => ctx'[p] = "user"]_vars

\* Once a python project has come as far as its synthesis its venv is gone,
\* whether the synthesis succeeded or not.
VenvRemoved ==
  \A p \in Buildable :
    (lang[p] = "python" /\ task[p] = "done" /\ Complete(p)) =>
      "venv" \in left[p] \/ ~venv[p]

\* What the toolkit puts in a project it takes out again, on every way out of
\* the synthesis.
CleanedUp == ContextRestored /\ VenvRemoved

\* Every CDK app is run with the default region and account.
AppEnvironment == \A p \in Projects : task[p] = "app" => childEnv[p]

\* Every build step is run with the environment the toolkit was started with.
StepEnvironment == \A p \in Projects : task[p] = "running" => ~childEnv[p]

\* With one task at a time the children get their environments, and
\* process.env is what it was whenever no synthesis is under way.
SerialEnvironment ==
  concurrency = 1 =>
    /\ AppEnvironment
    /\ StepEnvironment
    /\ env <=> \E p \in Projects : task[p] \in {"synth", "app"}

\* Every run ends, however its steps end.
RunEnds == (phase = "building") ~> (phase \in Ended)
=============================================================================
