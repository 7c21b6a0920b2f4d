----------------------------- MODULE WorkerPool -----------------------------
(***************************************************************************)
(* The worker-thread pool of scripts/build-all-typescript.js.              *)
(*                                                                         *)
(* The main thread starts one worker thread per project, at most `limit'   *)
(* at first, and a further one whenever a worker's `error' or `exit' event *)
(* is handled.  A worker spawns the build script of its project, waits for *)
(* it and posts one result.  The promise of the pool is resolved when no   *)
(* project is left and the counter activeWorkers is zero; the main thread  *)
(* then prints the summary and exits.                                      *)
(*                                                                         *)
(* Node delivers to the main thread, in this order of causes: a worker's   *)
(* posted message any time before its `exit', `error' (an uncaught         *)
(* exception) before `exit', and `exit' always.  Workers and the shells    *)
(* they spawn run concurrently with the main thread.                       *)
(***************************************************************************)
EXTENDS Integers, FiniteSets

CONSTANTS
  MaxProjects,   \* bound on the cdk.json files that findProjects returns
  Limits         \* the values of MAX_PARALLEL; 0 stands for NaN: the loop
                 \* that starts the first workers compares i < NaN

ASSUME PoolAssumption ==
  /\ MaxProjects \in Nat
  /\ Limits \subseteq Nat

Projects == 1 .. MaxProjects
Status   == {"SUCCESS", "FAILED", "SKIPPED"}

\* `logged' tells the result a worker posts (it names a log file) from the
\* one that the `error' handler makes up (logFile: '').
Result == [path : Projects, status : Status, logged : BOOLEAN]

ThreadState == {"unstarted", "starting", "building", "ending", "crashed",
                "stopped", "exited"}
ScriptState == {"none", "running", "ok", "failed", "killed"}

VARIABLES
  limit,          \* MAX_PARALLEL
  found,          \* projects.length
  phase,          \* where main() is
  exitCode,       \* the exit code of the process, once phase = "exited"
  aborted,        \* the process ended by SIGINT or for want of the script
  projectIndex,   \* projects[0 .. projectIndex-1] have been given a worker
  activeWorkers,  \* the counter of the pool
  thread,         \* each worker thread, as the main thread's events see it
  script,         \* the shell that runs the build script of a project
  inbox,          \* the result posted and not yet received
  results,        \* the results array
  summary         \* the results counted when the summary is printed

pool == <<projectIndex, activeWorkers>>
main == <<limit, found, exitCode, aborted>>
vars == <<main, pool, phase, thread, script, inbox, results, summary>>

\* Threads whose `exit' event has not been handled, projects whose `error'
\* event has, and the builds reported as failed.
Live    == {p \in Projects : thread[p] \notin {"unstarted", "exited"}}
Errored == {p \in Projects : \E r \in results : r.path = p /\ ~r.logged}
Failed  == {r \in results : r.status = "FAILED"}

TypeOK ==
  /\ limit \in Limits
  /\ found \in 0 .. MaxProjects
  /\ phase \in {"finding", "building", "reporting", "cleaning", "exited"}
  /\ exitCode \in {0, 1}
  /\ aborted \in BOOLEAN
  /\ projectIndex \in 0 .. found
  /\ activeWorkers \in Int
  /\ thread \in [Projects -> ThreadState]
  /\ script \in [Projects -> ScriptState]
  /\ inbox \in [Projects -> Status \cup {"empty"}]
  /\ results \subseteq Result
  /\ summary \subseteq Result

Init ==
  /\ limit \in Limits
  /\ found = 0
  /\ phase = "finding"
  /\ exitCode = 0
  /\ aborted = FALSE
  /\ projectIndex = 0
  /\ activeWorkers = 0
  /\ thread = [p \in Projects |-> "unstarted"]
  /\ script = [p \in Projects |-> "none"]
  /\ inbox = [p \in Projects |-> "empty"]
  /\ results = {}
  /\ summary = {}

-----------------------------------------------------------------------------
(* The main thread before and after the pool.                              *)

\* fs.existsSync(BUILD_SCRIPT) is false.
ScriptMissing ==
  /\ phase = "finding"
  /\ phase' = "exited"
  /\ exitCode' = 1
  /\ aborted' = TRUE
  /\ UNCHANGED <<limit, found, pool, thread, script, inbox, results, summary>>

\* findProjects found nothing, or failed and returned []: main returns.
NothingFound ==
  /\ phase = "finding"
  /\ phase' = "cleaning"
  /\ UNCHANGED <<main, pool, thread, script, inbox, results, summary>>

\* Mutant: one worker too many in the first batch (i <= MAX_PARALLEL).
FindProjects_OneMore ==
  /\ phase = "finding"
  /\ \E n \in 1 .. MaxProjects :
       LET batch == IF limit < n THEN limit + 1 ELSE n IN
       /\ found' = n
       /\ projectIndex' = batch
       /\ activeWorkers' = batch
       /\ thread' = [p \in Projects |->
                       IF p <= batch THEN "starting" ELSE "unstarted"]
  /\ phase' = "building"
  /\ UNCHANGED <<limit, exitCode, aborted, script, inbox, results, summary>>

\* The loop that starts the first batch runs to its end without an event.
FindProjects ==
  /\ phase = "finding"
  /\ \E n \in 1 .. MaxProjects :
       LET batch == IF limit < n THEN limit ELSE n IN
       /\ found' = n
       /\ projectIndex' = batch
       /\ activeWorkers' = batch
       /\ thread' = [p \in Projects |->
                       IF p <= batch THEN "starting" ELSE "unstarted"]
  /\ phase' = "building"
  /\ UNCHANGED <<limit, exitCode, aborted, script, inbox, results, summary>>

\* main() resumes after the awaits of printSummary and reads the array again.
DecideExit ==
  /\ phase = "reporting"
  /\ \/ /\ Failed # {}
        /\ phase' = "exited"
        /\ exitCode' = 1
     \/ /\ Failed = {}
        /\ phase' = "cleaning"
        /\ UNCHANGED exitCode
  /\ UNCHANGED <<limit, found, aborted, pool, thread, script, inbox, results,
                 summary>>

\* Node ends the process with code 0 when nothing is left to wait for: after
\* main returned, or with the promise of the pool pending for ever.
EventLoopEmpty ==
  /\ phase \in {"cleaning", "building"}
  /\ Live = {}
  /\ phase' = "exited"
  /\ UNCHANGED <<main, pool, thread, script, inbox, results, summary>>

\* SIGINT.
Interrupt ==
  /\ phase # "exited"
  /\ phase' = "exited"
  /\ exitCode' = 1
  /\ aborted' = TRUE
  /\ UNCHANGED <<limit, found, pool, thread, script, inbox, results, summary>>

-----------------------------------------------------------------------------
(* The event handlers of the pool.                                         *)

\* The promise is resolved: main counts the results before the next event.
PrintSummary ==
  /\ phase' = "reporting"
  /\ summary' = results'

\* Mutant: the last project is started twice over (projectIndex > length).
StartNextWorker_OffByOne(n, ts) ==
  /\ projectIndex <= found
  /\ projectIndex' = projectIndex + 1
  /\ activeWorkers' = n + 1
  /\ thread' = [p \in Projects |-> IF p = projectIndex + 1 THEN "starting" ELSE ts[p]]
  /\ UNCHANGED <<phase, summary>>

\* Mutant: resolve as soon as no project is left, workers or not.
StartNextWorker_NoCount(n, ts) ==
  /\ activeWorkers' = IF projectIndex < found THEN n + 1 ELSE n
  /\ thread' = [p \in Projects |->
                  IF p = projectIndex + 1 /\ p <= found THEN "starting" ELSE ts[p]]
  /\ projectIndex' = IF projectIndex < found THEN projectIndex + 1 ELSE found
  /\ IF projectIndex >= found /\ phase = "building"
     THEN PrintSummary
     ELSE UNCHANGED <<phase, summary>>

\* Mutant: resolve as soon as no worker is active, projects left or not.
StartNextWorker_NoIndex(n, ts) ==
  /\ activeWorkers' = IF projectIndex < found THEN n + 1 ELSE n
  /\ thread' = [p \in Projects |->
                  IF p = projectIndex + 1 /\ p <= found THEN "starting" ELSE ts[p]]
  /\ projectIndex' = IF projectIndex < found THEN projectIndex + 1 ELSE found
  /\ IF n = 0 /\ phase = "building"
     THEN PrintSummary
     ELSE UNCHANGED <<phase, summary>>

\* startNextWorker, called with activeWorkers = n and the threads in ts.
StartNextWorker(n, ts) ==
  \/ /\ projectIndex < found
     /\ projectIndex' = projectIndex + 1
     /\ activeWorkers' = n + 1
     /\ thread' = [ts EXCEPT ![projectIndex + 1] = "starting"]
     /\ UNCHANGED <<phase, summary>>
  \/ /\ projectIndex >= found
     /\ activeWorkers' = n
     /\ thread' = ts
     /\ IF n = 0 /\ phase = "building"
        THEN PrintSummary
        ELSE UNCHANGED <<phase, summary>>
     /\ UNCHANGED projectIndex

OnMessage(p) ==
  /\ phase # "exited"
  /\ inbox[p] # "empty"
  /\ inbox' = [inbox EXCEPT ![p] = "empty"]
  /\ results' = results \cup {[path |-> p, status |-> inbox[p], logged |-> TRUE]}
  /\ UNCHANGED <<main, pool, phase, thread, script, summary>>

OnError(p) ==
  /\ phase # "exited"
  /\ thread[p] = "crashed"
  /\ results' = results \cup {[path |-> p, status |-> "FAILED", logged |-> FALSE]}
  /\ StartNextWorker(activeWorkers - 1, [thread EXCEPT ![p] = "stopped"])
  /\ UNCHANGED <<main, script, inbox>>

\* Mutants of the exit handler: the counter is left alone; the next worker is
\* not started.
OnExit_NoDecrement(p) ==
  /\ phase # "exited"
  /\ thread[p] = "stopped"
  /\ inbox[p] = "empty"
  /\ UNCHANGED results
  /\ StartNextWorker(activeWorkers, [thread EXCEPT ![p] = "exited"])
  /\ UNCHANGED <<main, script, inbox>>

OnExit_NoNext(p) ==
  /\ phase # "exited"
  /\ thread[p] = "stopped"
  /\ inbox[p] = "empty"
  /\ activeWorkers' = activeWorkers - 1
  /\ thread' = [thread EXCEPT ![p] = "exited"]
  /\ UNCHANGED <<main, projectIndex, phase, script, inbox, results, summary>>

OnExit(p) ==
  /\ phase # "exited"
  /\ thread[p] = "stopped"
  /\ inbox[p] = "empty"
  /\ UNCHANGED results
  /\ StartNextWorker(activeWorkers - 1, [thread EXCEPT ![p] = "exited"])
  /\ UNCHANGED <<main, script, inbox>>

-----------------------------------------------------------------------------
(* A worker thread and the shell it spawns.                                *)

Thread(p, from, to) ==
  /\ phase # "exited"
  /\ thread[p] \in from
  /\ thread' = [thread EXCEPT ![p] = to]
  /\ UNCHANGED <<main, pool, phase, results, summary>>

Post(p, status) == inbox' = [inbox EXCEPT ![p] = status]

\* DO_NOT_AUTOTEST is there, or package.json is not.
WorkerSkips(p) ==
  /\ Thread(p, {"starting"}, "ending")
  /\ Post(p, "SKIPPED")
  /\ UNCHANGED script

WorkerSpawns(p) ==
  /\ Thread(p, {"starting"}, "building")
  /\ script' = [script EXCEPT ![p] = "running"]
  /\ UNCHANGED inbox

\* createWriteStream or spawn throws.
WorkerCatches(p) ==
  /\ Thread(p, {"starting"}, "ending")
  /\ Post(p, "FAILED")
  /\ UNCHANGED script

\* `close' comes with code null when a signal killed the shell: code || 0.
WorkerReports(p) ==
  /\ script[p] \in {"ok", "failed", "killed"}
  /\ Thread(p, {"building"}, "ending")
  /\ Post(p, IF script[p] = "failed" THEN "FAILED" ELSE "SUCCESS")
  /\ UNCHANGED script

\* An uncaught exception of the thread: an `error' of the log stream or of
\* the child process, which have no handler, or the heap that `output' fills.
\* The shell goes on.  What workerBuildProject throws itself it catches, so that
\* the process.exit at the thread's entry is not come to.
WorkerCrashes(p) ==
  /\ Thread(p, {"starting", "building", "ending"}, "crashed")
  /\ UNCHANGED <<script, inbox>>

WorkerStops(p) ==
  /\ Thread(p, {"ending"}, "stopped")
  /\ UNCHANGED <<script, inbox>>

\* A shell outlives its worker, and the process: what it does after that is
\* not modelled, a script still "running" at the end is an orphan.
ScriptEnds(p) ==
  /\ phase # "exited"
  /\ script[p] = "running"
  /\ \E how \in {"ok", "failed", "killed"} : script' = [script EXCEPT ![p] = how]
  /\ UNCHANGED <<main, pool, phase, thread, inbox, results, summary>>

-----------------------------------------------------------------------------

Terminated == phase = "exited" /\ UNCHANGED vars

Handler(p) == OnMessage(p) \/ OnError(p) \/ OnExit(p)

Worker(p) == \/ WorkerSkips(p) \/ WorkerSpawns(p) \/ WorkerCatches(p)
             \/ WorkerReports(p) \/ WorkerCrashes(p) \/ WorkerStops(p)

Main == \/ ScriptMissing \/ NothingFound \/ FindProjects \/ DecideExit
        \/ EventLoopEmpty \/ Interrupt

Next == \/ Main
        \/ \E p \in Projects : Handler(p) \/ Worker(p) \/ ScriptEnds(p)
        \/ Terminated

\* The event loop runs every pending event, a thread that can go on does, and
\* a build script ends: the code puts no time limit on it.  Nobody has to
\* interrupt and no worker has to crash.
Fairness ==
  /\ WF_vars(NothingFound \/ FindProjects)
  /\ WF_vars(DecideExit)
  /\ WF_vars(EventLoopEmpty)
  /\ \A p \in Projects :
       /\ WF_vars(OnMessage(p))
       /\ WF_vars(OnError(p))
       /\ WF_vars(OnExit(p))
       /\ WF_vars(WorkerSkips(p) \/ WorkerSpawns(p) \/ WorkerCatches(p))
       /\ WF_vars(WorkerReports(p))
       /\ WF_vars(WorkerStops(p))
       /\ WF_vars(ScriptEnds(p))

Spec     == Init /\ [][Next]_vars
FairSpec == Spec /\ Fairness

-----------------------------------------------------------------------------
(* Properties.                                                             *)

\* Both the error and the exit handler decrement activeWorkers and start the
\* next worker, and Node emits both for a worker that crashes.  What the pool
\* does keep: each handled crash raises the number of live threads above the
\* limit by at most one, and without a crash the limit holds.
ConcurrencyBound == Cardinality(Live) <= limit + Cardinality(Errored)

\* The counter is exact but for the crashes counted twice.
LiveAccounting == Cardinality(Live) = activeWorkers + Cardinality(Errored)

Reports(p) == {r \in summary : r.path = p}

\* The exit code of a run that was not aborted is what the results say, and 0
\* is only given when the printed summary holds exactly one result for every
\* project found.  It is not obvious: the double decrement can resolve the
\* promise while builds are running, and only the FAILED result that the
\* error handler pushed first keeps that run from ending green.
ExitCodeTruthful ==
  (phase = "exited" /\ ~aborted /\ limit > 0) =>
    IF exitCode = 0
    THEN /\ \A p \in 1 .. found : Cardinality(Reports(p)) = 1
         /\ Failed = {}
    ELSE Failed # {}

\* Once the promise is resolved no further build is started.
NoStartAfterSummary ==
  [][(phase \in {"reporting", "cleaning"}) => UNCHANGED projectIndex]_vars

\* The pool always resolves, however many workers crash, and not before every
\* project found was given a worker: the double decrement cannot step over
\* zero, nor reach it with projects left.
PoolResolves ==
  (phase = "building" /\ limit > 0)
    ~> \/ phase = "reporting" /\ \A p \in 1 .. found : thread[p] # "unstarted"
       \/ aborted

\* What the exit code is for: 0 means that no build script failed or was
\* killed, and none is still running.
GreenMeansBuilt ==
  (phase = "exited" /\ exitCode = 0) =>
    \A p \in Projects : script[p] \in {"none", "ok"}

-----------------------------------------------------------------------------
=============================================================================
