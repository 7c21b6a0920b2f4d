# A TLA+ verification of aws-cdk-examples

The repository is a collection of some three hundred CDK example applications
(TypeScript, Python, Java, Go, C#) together with the tools that build and
update all of them. Three kinds of program in it can go wrong in ways that are
hard to test: the tools under `scripts/`, which run builds concurrently and
rewrite files of the whole tree; the Lambda functions that take part in a
protocol; and the stacks themselves, whose references, removal policies and
names decide whether every order in which CloudFormation may create and delete
their resources works. This project models those programs in TLA+, checks them
with TLC on small instances and proves the main results with TLAPS.

All paths below are relative to `src/`.

## 1. Inventory

| component | state | operations | what is hard |
|---|---|---|---|
| worker pool, `scripts/build-all-typescript.js` | `projectIndex`, `activeWorkers`, the results array; a thread and a shell for each project | start a worker; `message`, `error`, `exit` callbacks; the worker's own steps; print the summary and exit | four callbacks interleave with threads that crash; `error` and `exit` both count a crash; the promise depends on a counter |
| build toolkit, `scripts/build-toolkit` | results per task, `process.env`, files in the project directories | discover, run the build steps, synthesize in-process, clean up, report | tasks share `process.env` across awaits; clean-up on every path; a kill leaves files behind for the next run |
| dependency updater, `scripts/update-cdk-dependencies` | the files of the tree, a list of plans, results | scan, compare, write, roll back, `go get` and `go mod tidy` with restoration, exit code | updates of several files with failures in the middle, edits by others, kills and later runs |
| legacy package updater, `update-cdk-packages.ts` (two of them) | the files of each project, the versions fetched | fetch versions with retries, migrate in batches of five | order of the writes of one project, `process.exit` with writes in flight, versions that are missing |
| CDK stacks, `typescript/*` | resources that exist, outlive the stack, hold content | deploy, roll back, use, destroy, retry | orders left open, names that are taken, buckets that are full, keys that go before their data |
| secret rotation, `typescript/secrets-manager-rotation/lambda/index.py` | stages of the secret's versions, token(s) of the cluster | createSecret, setSecret, testSecret, finishSecret | time-outs at every wait, repeated steps, state read before a wait and used after it |
| blue/green deployment, `typescript/elasticbeanstalk/elasticbeanstalk-bg-pipeline/resources/blue_green.py` | environments, CNAMEs, versions, the job's result | create version, update blue, swap, report | polls without a bound, retries after a swap that was done |
| bash scripts | status files, temporary files | GNU parallel, `set -e` pipelines | exit status of arithmetic and pipelines, files left behind |
| WebSocket chat, bucket notifications, image search, approval DAG, job poller, other handlers | one table, bucket configuration or queue each | one or two service calls per event | delivery at least once, lost updates, retries |

How they interact: the worker pool and the bash scripts run
`build-typescript.sh`; the build tools and the updaters work on the same tree
of files; the rotation function and the blue/green function run inside stacks
that are modelled too (`SecretsManagerRotation` decides when the first rotation
can begin). `PROJECT.json` lists every component with its sources and status,
and under `hazards` what is hard to test in them, line by line.

What makes each of the modelled components correct:

* **worker pool**: every project found is built once and reported once; the
  exit code agrees with what was built; never more builds at a time than
  configured; the run comes to an end whatever workers crash.
* **build toolkit**: steps run in order and stop at the first failure; the exit
  code agrees with them; each child process runs in the environment meant for
  it; the tree is left as it was found; user files are never touched.
* **updater**: only `--write` writes; a plan is applied to all of its files or
  to none; a file changed by somebody else is not overwritten; the exit code
  agrees with the tree; every run ends.
* **legacy updater**: a project is migrated as a whole or not at all, but for
  files that cannot be reached; a run that ends too soon spoils a batch at most;
  exit code 0 means that no project was missed; a second run changes nothing.
* **stacks**: whatever order CloudFormation takes, no resource is refused or
  comes up incomplete for want of another; `cdk destroy` works where the docs
  offer it, with one exception (`PostgresLambda`); data that is kept stays
  readable; deployments end.
* **secret rotation**: whoever reads the secret can log in, all the time; no old
  token outlives its rotation; AWSCURRENT only moves forward; rotations end.
* **blue/green**: no version is swapped in twice, however often its job is
  invoked; the result of a job agrees with what happened; jobs are answered.

## 2. Modules

| module | models | role |
|---|---|---|
| `WorkerPool`, `MCWorkerPool`, `WorkerPool_proofs` | `scripts/build-all-typescript.js` | specification, instance, proofs |
| `ToolkitBuild`, `MCToolkitBuild`, `ToolkitBuild_proofs` | `scripts/build-toolkit/src` | specification, instance, proofs |
| `PlanRunner`, `MCPlanRunner`, `PlanRunner_proofs` | `scripts/update-cdk-dependencies/src`, without the regular expressions | specification, instance, proofs |
| `AtomicPlans` | what the updater promises | abstract specification |
| `PlanAtomicity`, `PlanAtomicity_proofs` | | refinement mapping from `PlanRunner` to `AtomicPlans`, and its proof |
| `LegacyUpdater`, `MCLegacyUpdater`, `LegacyUpdater_proofs` | `scripts/update-cdk-dependencies/src/typescript/update-cdk-packages.ts`, `legacy-index.ts`, `scripts/update-cdk-packages.ts` | specification, instance, proofs |
| `StackGraphs` | | how a stack is written down |
| `StackDeployment`, `StackDeployment_proofs` | CloudFormation, as far as the stacks rely on it | specification, proofs |
| `StacksData`, `StacksCompute`, `StacksServerless`, `StacksNetwork` | 56 stacks of `typescript/*` | data: one definition for each stack |
| `MCStackDeployment` | | composes the five: the instance for TLC |
| `OrderlyRotation` | what a rotation promises | abstract specification |
| `SecretRotation`, `MCSecretRotation`, `SecretRotation_proofs` | `lambda/index.py` of `typescript/secrets-manager-rotation` | specification, instance, proofs |
| `BlueGreen`, `MCBlueGreen`, `BlueGreen_proofs` | `resources/blue_green.py` of the Elastic Beanstalk example | specification, instance, proofs |

The specifications also hold the mutants of their definitions, marked `Mutant:`:
what the code would be with a plausible bug. They take no part in `Next`; each
is used in place of its definition to see that a property notices.

### WorkerPool

`projectIndex`, `activeWorkers` and `results` are the variables of
`runBuildsWithWorkers`. `thread[p]` is the worker of project `p` as the main
thread's events see it, `script[p]` the shell it spawned, `inbox[p]` the
result it has posted. `OnMessage`, `OnError` and `OnExit` are the three
callbacks, `StartNextWorker` the function the last two call with what they
made of the counter; `Worker*` are the steps of `workerBuildProject`.
`FindProjects` includes the loop that starts the first batch, since no event
is handled before it ends. `PrintSummary` is part of the step that resolves
the promise. `limit = 0` stands for `MAX_PARALLEL` = NaN, for which the loop
`i < NaN` starts nothing.

A worker that crashes is counted out by `error` and again by `exit`, each of which
starts a worker, so `MAX_PARALLEL`, which the code (line 23) and its log (line 58) call the
concurrency, is exceeded from then on. `ConcurrencyBound` says by how much: by one for each
crash, and not at all without one.

The order of events is Node's: a message posted by a worker is delivered before
its `exit`, `error` precedes `exit`, and `exit` always comes.

### ToolkitBuild

One task per buildable project; what lies between two awaits is one action.
`env` says whether `process.env` holds the toolkit's default region and
account, `savedEnv[p]` the copy a synthesis took, `childEnv[p]` what its last
child process was given. `ctx`, `venv` and the flags are the tree: they
survive `Kill` and are found by `Rerun`. `copied[p]` is `copiedFakeCtx`.
`Fatal` is what rejects before the tasks begin or after they have ended,
`SpawnThrows` a rejection in the middle: the process exits with the other tasks
wherever they are, so that those in a synthesis keep their fake context, as after
a `Kill`. `ContextRestored` says that they are the only ones.

### PlanRunner, AtomicPlans, PlanAtomicity

A file is the version the scan makes of it and whose text it is; `Edit` is
another program that writes one of them at any time. `Scan`, `ExecutePlans`,
`PassOver`, `Report` and `Exit` are the life of a plan, `Preflight`,
`WriteFile`, `WriteFails` those of `applyTextUpdates`, `ReadGoFiles`,
`GoCommand`, `GoCommandFails` those of `updateGoModule`. `Restored` and
`RestoreFails` serve both roll-backs; `restoring` is the set of the writes
that `Promise.all` has started, which may outlive the plan's result since
`Promise.all` rejects with the first failure. A failed write leaves the file
as it was or `"torn"`, and a torn manifest has no CDK dependency for the next
scan to find. `early`, `late` and `damaged` are history.

`AtomicPlans` is the promise: `Update(p)` changes all the files of a plan in one
step, to what was read before it, and reports it; any other `Answer(p, status)`
leaves them as they were. `PlanAtomicity` maps the files of the plan in hand to
what they were when its application began (`treeSeen`), so that every write,
failure and roll-back is a stutter and the report is the step. The promise ends
for a plan that is *spoiled*: a write cut short or a roll-back that failed, a
file that somebody else edited after its application began, a kill in the middle. These are
the cases the code cannot undo, and the run that checks the refinement visits
all of them. An edit between the comparison and the write is one of them: it is
overwritten, by the write or by the roll-back.

### LegacyUpdater

`script` chooses the newer updater, which migrates (`"migrate"`), or the older,
which only changes versions (`"bump"`). `FetchJson`, `FetchJsonFails`,
`FetchLatestVersions` and `VersionsMissing` are the fetches, `ReadPackage`,
`WritePackage`, `ReadCompanion`, `CompanionHidden`, `WriteCompanion` the task of one project,
`NextBatch` the loop, `TaskFails` the rejection that makes the process exit while
the rest of the batch (`Busy`) is in flight: each of their writes may not have
begun or have emptied its file. A project is `package.json`, in a format and
with versions, and four `Companions`, the files looked at afterwards.

Errors of a read or a write reject the task (`TaskFails`), but errors of `access`
and of `opendir` in the sources are swallowed, whatever they are: the file counts
as one that is not there, and the task goes on (`CompanionHidden`). `hidden[p]` is
the files that the last look for them did not reach, and `Seen` takes one out
when a later look reaches it. `package.json` is new by then, so that only `cdk.json` is
ever looked at again. `MigratedAsAWhole`, `ExitTruthful` and `Idempotent` except
exactly the files in `hidden`: such a file stays in the old format beside a new
`package.json`, in a project that the summary counts as migrated
(`update-cdk-packages.ts:567`), under exit code 0.

The versions of a project stand for the packages that are where the scripts look for
them: `aws-cdk-lib` and `constructs` among the `dependencies`, the others among
the `devDependencies`. A package in the other list is never changed.

Two oddities of the code are kept: a `cdk.json` whose command matches the test
for `ts-node` but not the replacement is written again unchanged at each run
(`"odd"`), and a non-critical version that upstream does not give is written as
an empty string (`"blank"`), which later runs take for no dependency and never
repair. `ExitTruthful` allows for the second: it speaks of what `Latest` makes of
a version.

### StackGraphs, StackDeployment, Stacks*

A stack is a record: the references of each resource (`deps`: `Ref`, `GetAtt`
and `addDependency`, which are all CloudFormation goes by), what a creation
needs or reads without a reference (`needs`, `reads`), what is kept by its
removal policy, what has a fixed name, who writes where (`seeds`, `fills`), what
`autoDeleteObjects` empties (`cleared`), what encrypts what (`sealed`), and what
the example's docs say of `cdk destroy`. Resources that one construct creates
together and nothing comes between are one node; the columns of a QuickSight
data set, the rules of a web ACL or the subnets of a VPC are not resources and
are in the model only where a creation would be refused for them.

`StackDeployment` is CloudFormation: create in any order that the references
allow, roll back at any failure, delete in the opposite order, stop where a
deletion is refused, and go on after somebody has cleaned up. The custom
resource of `autoDeleteObjects` puts a policy on its bucket that denies writes
before it empties it, therefore `Writes` ends with the deletion.
Nothing of CloudFormation is in the repository: these definitions are external,
and the stacks are the program.

`Disordered` is the set of the stacks that are known to leave an order open:

| stack | what is open |
|---|---|
| `AppSyncHttp`, `AppSyncEventBridge` | the resolver names its data source by a string, and may be created before it |
| `S3ObjectLambda` | the object lambda names its access point by an ARN put together in the code |
| `ScalingTarget`, `ScalingSchedule` | the scalable target names its function alias by a string |
| `Ec2Instance` | the instance copies the assets once, as it starts, and does not wait for their deployment |
| `SecretsManagerRotation` | the first rotation starts with its schedule, and may come before the endpoints it needs |

The docs of these examples promise nothing about these orders, so they are
listed here and not as a disagreement. `NeverRefused` and `NothingMissed` say
that they are all of them. `PostgresLambda` is the eighth; its README does
promise the order, and it has a run of its own.

`Unclean` is the set of the stacks that `cdk destroy` does not destroy as their docs
say. `PostgresLambda` is the only one: its cluster has `deletionProtection`, and its README
offers `yarn cdk destroy` as deleting "all resources including the database". `CleanDestroy`
is checked on all the others in the run `stacks`, and its failure on this one is the run
`stacks_destroy`. `CleanDestroy` is about deletions, of which the docs speak, and not
about rollbacks, of which they say nothing: a rollback can find a bucket that was
seeded before its cleaner exists.

### SecretRotation

`current`, `pending` and `put` are the secret, `tokens` and `change` the cluster,
`inv[i]` an invocation: its step, its version and what it read before the wait
(`seen`). `CreateSecret` to `UpdateSecretVersionStage` are the calls of the four
steps, one action for each call that another actor can come between.
`Invoke` is Secrets Manager repeating a step until it succeeds, `InvokeAgain` an
event that is delivered twice or late, `TimeOut` the end of the thirty seconds
or a call that is refused, at any point.

`OrderlyRotation` is what all the repeated, late and cut-off invocations together
amount to: a version is staged, put, added to the cluster next to the current
one, tested there, made current and left alone, each once. `Orderly` maps the
variables to themselves and `tested` to the last step before the move
(`Tested`). Invocations, what they read and the modification under way are not
seen; nor are the order of the move and of the end of the SET, which the code
leaves open.

Taken from the services: `ROTATE` of a token the cluster already has changes
nothing; a cluster that is being modified refuses another modification; a
version is put once; a version stage cannot be taken from a version that does
not have it; a rotation begins when the last one is complete and no invocation
is left over (thirty seconds against fifteen days).

### BlueGreen

`inv[i].call` is the call an invocation makes next; `DescribeHealth` to
`PutJobFailure` are the calls of `lambda_handler` in their order. A poll is an
action that is enabled when the poll would end, so that one that never ends is
left by `TimeOut` alone. `Start` is CodePipeline: the next commit, or the retry of a
release that failed, which is a new job with the same artifact and hence the same version
label. `Fails` is an exception that leaves the handler, or the time limit, after
which Lambda tries twice again; `InvokeTwice` is an event delivered twice.

Taken from the services: CodePipeline takes one result per job and runs one job
at a time; a failed update leaves the environment ready at its old version; a
swap moves the CNAMEs and not the names; a swap is refused while one of the
environments is being updated. `index.ts` sets no time limit, so that Lambda's default of
three seconds applies and every poll that has to sleep is cut off. The C#
example's copy of the function differs in blank lines only.

Worth knowing: a swap whose report was refused is reported as a failure though
production has changed; the retry of such a release is refused, since its
version exists, so that the swap is not undone but never reported either.

## 3. Runs

| run | instance | shows |
|---|---|---|
| `pool` | 3 projects, limits NaN, 1, 2 | `TypeOK`, `LiveAccounting`, `ConcurrencyBound`, `ExitCodeTruthful`, `NoStartAfterSummary`, `PoolResolves` |
| `pool_green` | | **violation** of `GreenMeansBuilt` |
| `toolkit` | 2 projects, concurrency 0 to 2, 2 runs | `TypeOK`, `ExitTruthful`, `CleanedUp`, `ContextKept`, `SerialEnvironment`, `RunEnds` |
| `toolkit_env` | 2 java projects, concurrency 2 | **violation** of `AppEnvironment` |
| `planrun` | a go module and a text project, every mode, 1 edit, 2 runs | `TypeOK`, `AllOrNothing`, `ExitTruthful`, `ReadOnlyModes`, `StaleRefused`, `SettledPlans`, `RunEnds`, and `Atomic`, the refinement of `AtomicPlans` |
| `legacy` | 3 projects, batches of 2, 1 URL, 2 attempts, 2 runs of either script | `TypeOK`, `MigratedAsAWhole`, `DamageBound`, `ExitTruthful`, `Idempotent`, `RunEnds` |
| `stacks` | 56 stacks, 2 deployments each | `TypeOK`, `NeverRefused`, `NothingMissed`, `CleanDestroy`, `KeptReadable`, `Settles` |
| `stacks_ready` | `PostgresLambda`, 1 deployment | **violation** of `NeverRefused` |
| `stacks_destroy` | `PostgresLambda`, 1 deployment | **violation** of `CleanDestroy` |
| `rotation` | 2 rotations, 2 invocations at a time, 5 faults | `TypeOK`, `InService`, `OldRetired`, `Rotated`, and `Orderly`, the refinement of `OrderlyRotation` |
| `bluegreen` | 2 jobs, 2 invocations at a time, 1 event twice | `TypeOK`, `SwappedOnce`, `JobAnswered` |
| `bluegreen_zero` | 2 jobs, 1 invocation | **violation** of `ZeroDowntime` |

What the violations show:

* `GreenMeansBuilt`: `code || 0` makes a build killed by a signal a success.
* `AppEnvironment`: with two tasks, one puts `process.env` back under the other.
  `SerialEnvironment` shows that one task at a time is safe.
* `NeverRefused` of `PostgresLambda`: the custom resource "triggers the setup
  Lambda after database is ready", says the README, but refers to the function
  alone. It may run before the cluster has an instance or an ingress rule; the
  handler tries once and answers FAILED, and the stack is rolled back.
* `CleanDestroy` of `PostgresLambda`: the service refuses to delete a cluster that is
  protected, so that `cdk destroy` stops half-way, with the database in place
  that the README says it deletes.
* `ZeroDowntime`: the function always updates the environment *named* blue, which
  after the first swap is the one in production.

Bounds.

* Pool: three projects with limit 2 are the smallest pool in which a crash
  leaves one worker running, one starting and one waiting; the proofs cover all
  other sizes.
* Toolkit: two projects show every interference of two tasks, which share
  nothing else than `process.env` and the limit, and two runs show everything
  one run can leave to the next.
* Updater: a plan has at most two files, plans are applied one after the other,
  and the only thing that reaches from one plan into the next is a restoration
  in flight, hence the order go module first, text project second. One edit
  suffices for each property, since each is about one file and one edit of it.
* Legacy updater: two projects share a batch and one comes after it; the kinds,
  formats and odd files are chosen so that each branch of a task is taken, and any
  file of any project may be out of reach. One URL
  with two attempts is retried, given up or answered; what several have to do
  with each other is that all must answer. Two runs show what one leaves to the next.
* Stacks: all of them, in full; the state space of a stack is the set of its
  downward closed sets of resources. A second deployment meets what the first
  one left.
* Rotation: an invocation interferes with one other at a time; two rotations show
  what is left from one to the next. Five faults let a step be invoked twice and
  both of its invocations be cut off and repeated, and a late one meet the next
  step. The proofs have no such bound.
* Blue/green: two jobs are a release and the next, or a release and its retry.

Fairness. In `WorkerPool` the event loop delivers pending events, threads go on,
and build scripts end; crashes and interrupts are never forced. In
`ToolkitBuild` the steps end, by their limit of five minutes if need be, and
the library's synthesis, which has no limit, is assumed to. In `PlanRunner`
I/O is answered and the go commands, which have no limit, are assumed to end.
In `LegacyUpdater` a fetch is answered or aborted after five seconds and the
file system answers. In `StackDeployment` CloudFormation goes on and refuses what
cannot be created; nobody has to deploy, destroy or retry. In `SecretRotation`
Secrets Manager repeats a step that has not succeeded, the cluster completes a
modification, and an invocation goes on; faults are never forced, and
`Rotated` holds because there are finitely many of them (`MaxFaults`). In `BlueGreen` Lambda
delivers what is queued and an invocation goes on *or is cut off*: nothing is
assumed of Elastic Beanstalk, since nothing bounds a version's processing.

Deadlock is checked in every run but those of the stacks (a stack that is stuck
or gone may stay so): a process that has ended stutters (`Terminated`),
everything else has to go on.

## 4. Proofs

All safety properties and both refinements that the passing runs check are
proved for every value of the constants. The constants' assumptions (`PoolAssumption`, `ToolkitAssumption`,
`UpdaterAssumption`, `LegacyAssumption`, `StacksAssumption`, `RotationAssumption`,
`BlueGreenAssumption`) are all that is assumed; no theorem rests on fairness.
The properties, and the inductive invariants of `WorkerPool` and `PlanRunner`, were
checked by TLC before they were proved.

`WorkerPool_proofs`, for every number of projects and every limit:

* `PoolTypeOK`, `PoolLiveAccounting`, `PoolConcurrencyBound` from `PoolAccounting`.
  The invariant `Accounting` adds to the two that projects get their workers in
  order (`InOrder`), that a thread whose error was handled is dead
  (`ErroredIsDead`: otherwise an error could be counted twice more), that
  nothing has happened before the projects are found, and
  `activeWorkers <= limit`. `StartNextEffect` is the lemma about the function
  that both callbacks call: the distance between live threads and counter is
  not changed by it.
* `PoolExitCode` from `PoolOutcome`: in addition each project has at most one
  result, in the array or posted (`Posting`), and what the summary counts when
  the promise is resolved (`Resolution`). The argument is the one in the comment
  of `ExitCodeTruthful`: a promise resolved too early has a FAILED result.
* `PoolNoStartAfterSummary`: the promise is resolved with no project left.
* `PoolNeverStranded` and `PoolAdvances`, the safety half of `PoolResolves`: while
  the pool builds the counter is positive, so that some thread is alive, and
  every live thread or its shell has a next step; and each step takes `main`, a
  thread, a shell or a result one of a bounded number of stations further. That
  the pool resolves then needs only that what can go on does.

`ToolkitBuild_proofs`, for every number of projects, of concurrent tasks and of
runs: `ToolkitTypeOK`, `ToolkitExitTruthful`, `ToolkitCleanedUp`,
`ToolkitSerialEnvironment`, `ToolkitContextKept`. The invariant says for each task
what it has put beside the project's own context file (`Context`), how far it is
along its steps (`Ran`), how a failure shows in its result (`Failed`), what is to become of
its venv (`Venv`), and what holds when the run ends (`Ending`); `Serial` says for a
concurrency of one that `process.env` holds the defaults exactly while the one
task is inside its synthesis, and rests on `Alone`: no two tasks are at work.

`PlanRunner_proofs`, for every number and kind of projects, every set of modes
and every bound on edits and runs: `UpdaterTypeOK`, `UpdaterReadOnly`,
`UpdaterStaleRefused`, `UpdaterSettledPlans`, `UpdaterAllOrNothing`,
`UpdaterExitTruthful`, and of `RunEnds` the safety half, `UpdaterNeverStranded` and
`UpdaterAdvances`. The argument, from the ground up:

* `Inv`: where an application can be (`Stage`), whose restorations can be under
  way (`Restoring`: of the current plan, or of one behind it that is damaged),
  that no text is younger than the last edit (`Texts`), and that a plan with a
  file edited since the scan is not begun (`Staleness`). None of these is
  inductive alone: type correctness of `result` needs `Stage`, `Restoring` needs
  to know which plan is at which step, `Staleness` that only the plan in hand is
  written. `FileSteps` says what any step can do to a file, and `BusyFacts` who
  can have it in hand: these two lemmas carry the three action properties.
* `Application`: what the files are during an application (`UnderWay`, one
  conjunct for each step of `applyTextUpdates` and of `updateGoModule`) and after
  it (`Settled`); `AllOrNothing` is `Settled` for the plans that have a result.
* `Exiting`: the status of a plan is that of the contents read (`Scanned`), files
  nobody edited are still as scanned until their plan begins and were so then
  (`Fresh`), what is reported of which plan (`Reports`), and what an exit code
  says of the reports (`ExitCode`). `ExitTruthful` needs all three levels.
* `Awaited`: while `executePlans` waits for a roll-back, one of the plan's own
  restorations is under way, so that `Promise.all` settles when it does. With it
  the updater has a step to take until it ends, and `Advances` is a
  lexicographic order (runs, phases, scans, plans, steps of a plan, files)
  in which every step goes up.

`PlanAtomicity_proofs`: `UpdaterAtomic`, that `PlanRunner` implements `AtomicPlans`.
The invariants above are used as they are, with one more (`Compared`: a text plan
that is past its comparison read what the scan read, unless it is spoiled). There is
one lemma for each group of actions (`WriteSeen`, `GoSeen`, `RestoreSeen`,
`KillSeen`, `EditSeen`, ...), which says as which step of `AtomicPlans` it is seen;
`StepSeen` puts them together.

`LegacyUpdater_proofs`, for every list of projects, batch size and number of runs:
`LegacyTypeOK`, `LegacyMigratedAsAWhole`, `LegacyDamageBound`,
`LegacyExitTruthful`, `LegacyIdempotent`. The invariant: where the task of a project is, behind the
batch, in it or ahead of it (`Place`); that no file is cut short and none is
old beside a new `package.json` but those still on the task's list or out of
reach (`Whole`, `Pending`, `Excused`); that the versions and the format are the new ones once the task is
past `package.json` (`Past`); and that a run which has not ended has its batch left to
spoil (`Bound`). `HeadTail` and `RestFacts` are the lemmas about the list.
`Idempotent` compares two runs, of which the state holds the second and what the
first was (`before`): `RepeatInv` says that as long as the second may still turn out
the same (`Repeats`) every project is at rest (`Rested`). It has the versions that
this run would give it, blanks included, it is migrated, and its task has nothing
left to write but the `"odd"` `cdk.json`, which is written as it was, or one that
was out of the first run's reach. `EndingRests` shows
it of a run that ends well, `RerunRests` that the next one begins with it.

`StackDeployment_proofs`, for *any* stacks, not only those written down:
`StacksTypeOK`, and four properties each from a condition on the code of a stack:

* `StacksNeverRefused` and `StacksNothingMissed` for stacks whose needs are among
  what their references lead to (`Ordered`), `StacksKeptReadable` for stacks whose
  keys come first and are kept with the data (`KeyKept`). The invariant is that the
  resources that exist are closed under references while a stack is created,
  rolled back and deleted (`Closed`).
* `StacksCleanDestroy` for stacks that delete nothing that is protected, held by
  what is kept, or full and not emptied by a resource that goes first, and keep
  nothing under a name that the next deployment takes (`Clean`). The invariant
  adds what the phases say of the resources (`Phased`), that what is full is known
  to be and is empty once its cleaner is gone (`Contents`), that every set of existing
  resources has a last one (`Founded`), and that nothing was in the way of a clean
  stack (`Unhindered`). `Founded` gives `StacksStuckRefused` for all stacks: a
  deletion can only stop at a refusal, never at a circle of resources that wait
  for each other.

`ExamplesOrdered` and `ExamplesClean` decide the conditions for the 56 stacks of the examples,
one lemma for each kind, by evaluating what they declare (for this `StackGraphs` has its
own `:>` and `@@`: those of module `TLC` are opaque to the provers); only the eight of
`MCDisordered` fall short of `Ordered`. `ExamplesClean` is an equivalence: a stack of the
examples is `Clean` exactly when it is not in `MCUnclean`, so that `PostgresLambda` is proved *not*
to be (`PostgresUnclean`). `ExamplesDeployed` concludes that all four
properties hold of the stacks of the run `stacks`, with these exceptions and no other, for any number
of deployments.

`SecretRotation_proofs`, for every number of invocations, rotations and faults:
`RotationTypeOK`, `RotationInService`, `RotationOldRetired`, `RotationNeverBack` and
`RotationOrderly`. The invariant `Progress` says what the tokens and the modification under way can be at each step
of the rotation, `Calls` what each invocation may still do: a late one of an
earlier step can only repeat what was done, and one that waits in the last step has read
the version that is current or the one that became it.
`RotationOrderly` is the refinement: `StepOrderly` says as which step of
`OrderlyRotation` each action is seen, most of them as none. The hard one is the end of
a modification (`ModifiedOrderly`): a ROTATE adds the pending token next to the current
one or finds it there, and a SET, whoever asked for it and however late, retires the old
token after the test or leaves alone the only one (`Alone`).

`BlueGreen_proofs`, for every number of jobs, invocations and repeated events:
`BlueGreenTypeOK`, `BlueGreenSwappedOnce`, `BlueGreenNoneForgotten`,
`BlueGreenTraffic`. The invariant: versions belong to labels
that were released (`Released`), at most one invocation is past the creation of a
version, and has swapped it when it is at its report (`Owners`), and what a
result says (`Reported`). `Attempted` adds that a job without an
answer has an invocation queued or at work, or has used up its attempts: with it
`BlueGreenNoneForgotten` is the safety half of `JobAnswered`. `Traffic` says how far
`ZeroDowntime`, which the run `bluegreen_zero` refutes, is true: the production name
points to green, which is never updated, as long as the number of versions swapped
is even.

Only model-checked: the seven liveness properties (`PoolResolves`, `RunEnds` of three
modules, `Settles`, `Rotated`, `JobAnswered`). They rest on fairness, hence on ENABLED,
which is out of the prover's reach; of `PoolResolves`, the updater's `RunEnds` and
`JobAnswered` the safety half is proved. `NoneGoesBack`, `OneGoesOn`, `Advances`
and `NeverStranded`, which no run names, were checked with TLC on the instances of section
3 before they were proved.

## 5. Not modelled

* What is printed: logs, colours, summaries, JSON.
* `new Worker()` throwing synchronously in the pool; the temporary directory that
  each worker makes and nobody removes; two projects whose log names collide.
* The regular expressions of the text adapters: a file is the version found in it.
  A POM whose two dependencies share one property is therefore not covered.
* A go command that outlives a killed updater.
* p-limit and the CDK toolkit library, which are taken at their word.
* The bash scripts. Two things to know about them: `((SUCCESSFUL++))` under
  `set -e` ends `build-all-typescript.sh` at the first result, and a failing
  `cdk synth` leaves `cdk.context.json` behind in `synth.sh`.
* `go.sum` after a kill between the two go commands: the next run looks at
  `go.mod`, finds it up to date and does not tidy. `ExitTruthful` speaks of
  `go.mod` alone for that reason.
* Legacy updater: the text of the edits; the sources of a project are one file;
  packages in the list where the scripts do not look for them.
  `response.json()` has no time limit of its own: a body that stalls is not covered
  by the fairness.
* Secret rotation: the values. The initial secret is JSON and the rotated one the bare
  password, which the model cannot tell apart. The docstring of `test_secret`
  (`index.py:208`) says that a token that fails is rolled back; the code raises.
* Blue/green: permissions. The stack declares none for Elastic Beanstalk.
* Stacks: properties of resources other than those named in section 2
  (sizes, instance types, permissions, alarms' thresholds), and most of the
  handlers behind the stacks. A README that promises *less* than the code does
  is no violation: `typescript/rekognition-lambda-s3-trigger/README.md:72` says
  that `cdk destroy` leaves the bucket and the table, which the code deletes.
* Stacks, in detail: each is looked at alone, so that two stacks that want the same
  fixed name do not meet (the dev and prod stacks of `aws-transfer-sftp-server` share
  `SftpAccessRole` and `SftpAccessPolicy`, `aws-transfer-sftp-server.ts:110` and `117`). A VPC is
  one node. The deletion of the endpoint of `ec2-instance-connect-endpoint`
  (`lambda.d/index.py:45`) rests on EC2 still describing it, as deleted, when asked. The stacks that are
  not among the 56: ECS services and the add-ons of `aiops-eks-workshop` (`yelb_non_helm_addon.ts` is a list of
  manifests that the cluster applies, in an order Kubernetes does not mind), and
  the ports of the examples to other languages.
* The bucket notification handler
  (`lambda-manage-s3-event-notification/lambda/manage-s3-event-notifications.js`):
  its write is not awaited, two stacks deployed at the same time can lose one of
  their configurations, and a kind of notification the bucket has none of yet is
  not in `currentConfig`, whose keys alone are merged.
* The other components with status `not_modelled` in `PROJECT.json`: handlers of one or two
  service calls each.

## 6. Plan

Done: the three tools under `scripts/` and the older updater, the two Lambda
functions that take part in a protocol, and 56 stacks; their safety properties
proved; the updater shown to be atomic and the rotation to be orderly. What is left, in the order of its worth:

1. `NotificationMerge`: one bucket's configuration, read, merged and written by
   several stacks; the lost update and the first notification of a kind.
2. `ImagePipeline`: delivery at least once, from the upload to the insert without
   a key.
3. `WebSocketChat`: a broadcast over one scan while clients connect and leave.
4. The safety halves of `RunEnds` of the toolkit and of the legacy updater, of
   `Settles` and of `Rotated`, like `PoolNeverStranded` and `PoolAdvances`.
5. `PomProperties`: two targets of one version property.
