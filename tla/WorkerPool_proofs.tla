-------------------------- MODULE WorkerPool_proofs --------------------------
(***************************************************************************)
(* Proofs about the worker pool, for any number of projects and any        *)
(* configured concurrency.                                                 *)
(*                                                                         *)
(* Accounting is the inductive invariant behind the bound on the           *)
(* concurrency: the counter activeWorkers never exceeds the limit, and the *)
(* live threads it misses are those whose crash was counted twice.         *)
(***************************************************************************)
EXTENDS WorkerPool, FiniteSetTheorems, TLAPS

\* Projects get their workers in order, and nobody skips its turn.
InOrder == \A p \in Projects : thread[p] = "unstarted" <=> p > projectIndex

\* A thread whose error was handled is dead: it never errs a second time.
ErroredIsDead == \A p \in Errored : thread[p] \in {"stopped", "exited"}

\* Before the projects are found nothing has happened.
NothingYet ==
  phase = "finding" => /\ found = 0
                       /\ activeWorkers = 0
                       /\ \A p \in Projects : inbox[p] = "empty"
                       /\ results = {}
                       /\ summary = {}

Accounting ==
  /\ TypeOK
  /\ InOrder
  /\ ErroredIsDead
  /\ NothingYet
  /\ LiveAccounting
  /\ activeWorkers <= limit

-----------------------------------------------------------------------------
(* Finite sets of projects.                                                *)

LEMMA ProjectsFinite ==
  /\ IsFiniteSet(Projects)
  /\ \A S \in SUBSET Projects : IsFiniteSet(S) /\ Cardinality(S) \in Nat
<1>1. IsFiniteSet(Projects)
  BY FS_Interval, PoolAssumption DEF Projects
<1>2. ASSUME NEW S \in SUBSET Projects
      PROVE  IsFiniteSet(S) /\ Cardinality(S) \in Nat
  BY <1>1, FS_Subset, FS_CardinalityType
<1> QED BY <1>1, <1>2

LEMMA InitialSegment ==
  ASSUME NEW n \in 0 .. MaxProjects
  PROVE  Cardinality(1 .. n) = n
BY FS_Interval, PoolAssumption

\* What a handler of thread p does to the threads and to the counter: p goes
\* to its next state, the next project in order may be started, and the
\* distance between live threads and counter is what it was before that.
LEMMA StartNextEffect ==
  ASSUME TypeOK, InOrder,
         NEW p \in Projects, thread[p] \in {"crashed", "stopped"},
         NEW to \in {"stopped", "exited"},
         NEW n \in Int,
         StartNextWorker(n, [thread EXCEPT ![p] = to]),
         UNCHANGED <<main>>
  PROVE  /\ thread' \in [Projects -> ThreadState]
         /\ thread'[p] = to
         /\ \A q \in Projects \ {p} :
              thread'[q] = thread[q] \/ (thread[q] = "unstarted" /\ thread'[q] = "starting")
         /\ InOrder'
         /\ projectIndex' \in 0 .. found
         /\ activeWorkers' \in {n, n + 1}
         /\ Cardinality(Live') - activeWorkers'
              = (IF to = "exited" THEN Cardinality(Live) - 1 ELSE Cardinality(Live)) - n
<1> DEFINE base == IF to = "exited" THEN Live \ {p} ELSE Live
<1>1. /\ Live \in SUBSET Projects
      /\ base \in SUBSET Projects
      /\ p \in Live
  BY DEF Live
<1>2. Cardinality(base) = IF to = "exited" THEN Cardinality(Live) - 1 ELSE Cardinality(Live)
  BY <1>1, ProjectsFinite, FS_RemoveElement
<1>3. CASE projectIndex < found
  <2>1. /\ projectIndex' = projectIndex + 1
        /\ activeWorkers' = n + 1
        /\ projectIndex + 1 \in Projects
        /\ projectIndex' \in 0 .. found
        /\ thread' = [[thread EXCEPT ![p] = to] EXCEPT ![projectIndex + 1] = "starting"]
    BY <1>3, PoolAssumption DEF StartNextWorker, TypeOK, Projects
  <2>2. /\ thread[projectIndex + 1] = "unstarted"
        /\ p # projectIndex + 1
        /\ projectIndex + 1 \notin Live
    BY <2>1 DEF InOrder, TypeOK, Projects, Live
  <2>3. /\ thread' \in [Projects -> ThreadState]
        /\ thread'[p] = to
        /\ thread'[projectIndex + 1] = "starting"
        /\ \A q \in Projects \ {p, projectIndex + 1} : thread'[q] = thread[q]
    BY <2>1, <2>2 DEF TypeOK, ThreadState
  <2>4. InOrder'
    <3> SUFFICES ASSUME NEW q \in Projects
                 PROVE  thread'[q] = "unstarted" <=> q > projectIndex + 1
      BY <2>1 DEF InOrder
    <3>1. thread[q] = "unstarted" <=> q > projectIndex
      BY DEF InOrder
    <3>2. CASE q = projectIndex + 1
      BY <3>2, <2>3 DEF TypeOK
    <3>3. CASE q = p
      BY <3>3, <2>1, <2>2, <2>3, <3>1 DEF TypeOK, Projects
    <3>4. CASE q \notin {p, projectIndex + 1}
      BY <3>4, <3>1, <2>3 DEF TypeOK, Projects
    <3> QED BY <3>2, <3>3, <3>4
  <2>5. Live' = base \cup {projectIndex + 1}
    <3>1. ASSUME NEW q \in Projects
          PROVE  q \in Live' <=> q \in base \cup {projectIndex + 1}
      <4>1. CASE q = projectIndex + 1
        BY <4>1, <2>3 DEF Live
      <4>2. CASE q = p
        BY <4>2, <2>2, <2>3, <1>1 DEF Live
      <4>3. CASE q \notin {p, projectIndex + 1}
        BY <4>3, <2>3 DEF Live
      <4> QED BY <4>1, <4>2, <4>3
    <3> QED BY <3>1, <2>1, <1>1 DEF Live
  <2>6. projectIndex + 1 \notin base
    BY <2>2
  <2>7. Cardinality(Live') = Cardinality(base) + 1
    BY <2>5, <2>6, <1>1, ProjectsFinite, FS_AddElement
  <2>8. Cardinality(base) \in Nat
    BY <1>1, ProjectsFinite
  <2>9. Cardinality(Live') - activeWorkers' = Cardinality(base) - n
    BY <2>1, <2>7, <2>8
  <2> QED BY <1>2, <2>1, <2>2, <2>3, <2>4, <2>9
<1>4. CASE projectIndex >= found
  <2>1. /\ projectIndex' = projectIndex
        /\ activeWorkers' = n
        /\ thread' = [thread EXCEPT ![p] = to]
    BY <1>4 DEF StartNextWorker, TypeOK
  <2>2. /\ thread' \in [Projects -> ThreadState]
        /\ thread'[p] = to
        /\ \A q \in Projects \ {p} : thread'[q] = thread[q]
    BY <2>1 DEF TypeOK, ThreadState
  <2>3. InOrder'
    BY <2>1, <2>2 DEF InOrder
  <2>4. Live' = base
    BY <2>2 DEF Live
  <2> QED BY <1>2, <2>1, <2>2, <2>3, <2>4 DEF TypeOK
<1> QED BY <1>3, <1>4 DEF TypeOK

-----------------------------------------------------------------------------
(* The steps that leave the threads, the counters and the error results    *)
(* alone, and the steps of a worker thread.                                *)

\* Only OnError adds to Errored, and a worker's own result never does.
LEMMA ErroredUnchanged ==
  ASSUME NEW p, NEW s,
         results' = results \cup {[path |-> p, status |-> s, logged |-> TRUE]}
  PROVE  Errored' = Errored
BY DEF Errored

LEMMA ErroredAdds ==
  ASSUME NEW p \in Projects,
         results' = results \cup {[path |-> p, status |-> "FAILED", logged |-> FALSE]}
  PROVE  Errored' = Errored \cup {p}
<1> DEFINE new == [path |-> p, status |-> "FAILED", logged |-> FALSE]
<1>1. new.path = p /\ new.logged = FALSE /\ new \in results'
  OBVIOUS
<1>2. p \in Errored'
  BY <1>1 DEF Errored
<1>3. Errored \subseteq Errored'
  BY DEF Errored
<1>4. ASSUME NEW q \in Errored', q # p
      PROVE  q \in Errored
  <2>1. PICK r \in results' : r.path = q /\ ~r.logged
    BY <1>4 DEF Errored
  <2>2. r # new
    BY <2>1, <1>1, <1>4
  <2> QED BY <2>1, <2>2, <1>4 DEF Errored
<1> QED BY <1>2, <1>3, <1>4

LEMMA ResultTyped ==
  ASSUME NEW p \in Projects, NEW s \in Status, NEW b \in BOOLEAN
  PROVE  [path |-> p, status |-> s, logged |-> b] \in Result
BY DEF Result

\* The typing of the steps of a worker, and what they do to the live threads.
LEMMA WorkerEffect ==
  ASSUME Accounting, NEW p \in Projects, Worker(p)
  PROVE  /\ TypeOK'
         /\ thread[p] \in {"starting", "building", "ending"}
         /\ thread'[p] \in {"building", "ending", "crashed", "stopped"}
         /\ thread' = [thread EXCEPT ![p] = thread'[p]]
         /\ UNCHANGED <<main, pool, phase, results, summary>>
         /\ phase # "exited"
<1> USE DEF Accounting, TypeOK, Thread, main, pool, Post
<1>1. CASE WorkerSkips(p)   BY <1>1 DEF WorkerSkips, ThreadState, Status
<1>2. CASE WorkerSpawns(p)  BY <1>2 DEF WorkerSpawns, ThreadState, ScriptState
<1>3. CASE WorkerCatches(p) BY <1>3 DEF WorkerCatches, ThreadState, Status
<1>4. CASE WorkerReports(p) BY <1>4 DEF WorkerReports, ThreadState, Status
<1>5. CASE WorkerCrashes(p) BY <1>5 DEF WorkerCrashes, ThreadState
<1>6. CASE WorkerStops(p)   BY <1>6 DEF WorkerStops, ThreadState
<1> QED BY <1>1, <1>2, <1>3, <1>4, <1>5, <1>6 DEF Worker

LEMMA WorkerKeepsAccounting ==
  ASSUME Accounting, NEW p \in Projects, Worker(p)
  PROVE  Accounting'
<1>1. /\ TypeOK'
      /\ thread[p] \in {"starting", "building", "ending"}
      /\ thread'[p] \in {"building", "ending", "crashed", "stopped"}
      /\ \A q \in Projects \ {p} : thread'[q] = thread[q]
      /\ UNCHANGED <<main, pool, phase, results, summary>>
  BY WorkerEffect DEF Accounting, TypeOK
<1>2. Live' = Live /\ Errored' = Errored
  BY <1>1 DEF Live, Errored
<1>3. InOrder'
  BY <1>1 DEF InOrder, Accounting, pool
<1>4. ErroredIsDead'
  <2> SUFFICES ASSUME NEW q \in Errored
               PROVE  thread'[q] \in {"stopped", "exited"}
    BY <1>2 DEF ErroredIsDead
  <2>1. thread[q] \in {"stopped", "exited"} /\ q \in Projects
    BY DEF ErroredIsDead, Accounting, Errored
  <2>2. q # p
    BY <2>1, <1>1
  <2> QED BY <1>1, <2>1, <2>2
<1>5. phase # "finding"
  <2>1. phase = "finding" => p > projectIndex
    BY PoolAssumption DEF Accounting, NothingYet, TypeOK, Projects
  <2> QED BY <2>1, <1>1 DEF Accounting, InOrder
<1> QED BY <1>1, <1>2, <1>3, <1>4, <1>5
        DEF Accounting, NothingYet, LiveAccounting, main, pool

-----------------------------------------------------------------------------
(* The handlers.                                                           *)

LEMMA HandlerKeepsAccounting ==
  ASSUME Accounting, NEW p \in Projects, Handler(p)
  PROVE  Accounting'
<1> USE DEF Accounting
<1>1. CASE OnMessage(p)
  <2>1. Errored' = Errored
    BY <1>1, ErroredUnchanged DEF OnMessage
  <2>2. TypeOK'
    <3>1. inbox[p] \in Status
      BY <1>1 DEF OnMessage, TypeOK
    <3>2. results' \subseteq Result
      BY <1>1, <3>1, ResultTyped DEF OnMessage, TypeOK
    <3>3. inbox' \in [Projects -> Status \cup {"empty"}]
      BY <1>1 DEF OnMessage, TypeOK
    <3> QED BY <1>1, <3>2, <3>3 DEF OnMessage, TypeOK, main, pool
  <2>3. phase # "finding"
    BY <1>1 DEF OnMessage, NothingYet, Accounting, TypeOK
  <2> QED BY <1>1, <2>1, <2>2 DEF OnMessage, main, pool, InOrder, ErroredIsDead,
            NothingYet, LiveAccounting, Live
<1>2. CASE OnError(p)
  <2>1. thread[p] = "crashed" /\ activeWorkers - 1 \in Int
    BY <1>2 DEF OnError, TypeOK
  <2>2. p \notin Errored
    BY <2>1 DEF ErroredIsDead
  <2>3. Errored' = Errored \cup {p}
    BY <1>2, ErroredAdds DEF OnError
  <2>4. Errored \in SUBSET Projects
    BY DEF Errored
  <2>5. Cardinality(Errored') = Cardinality(Errored) + 1
    BY <2>2, <2>3, <2>4, ProjectsFinite, FS_AddElement
  <2>6. /\ thread' \in [Projects -> ThreadState]
        /\ thread'[p] = "stopped"
        /\ \A q \in Projects \ {p} :
             thread'[q] = thread[q] \/ (thread[q] = "unstarted" /\ thread'[q] = "starting")
        /\ InOrder'
        /\ projectIndex' \in 0 .. found
        /\ activeWorkers' \in {activeWorkers - 1, activeWorkers - 1 + 1}
        /\ Cardinality(Live') - activeWorkers' = Cardinality(Live) - (activeWorkers - 1)
    BY <1>2, <2>1, StartNextEffect DEF OnError
  <2>7. TypeOK'
    <3>1. results' \subseteq Result
      BY <1>2, ResultTyped, "FAILED" \in Status DEF OnError, TypeOK, Status
    <3>2. /\ phase' \in {phase, "reporting"}
          /\ summary' \subseteq Result
          /\ activeWorkers' \in Int
      BY <1>2, <2>6, <3>1 DEF OnError, TypeOK, StartNextWorker, PrintSummary
    <3> QED BY <1>2, <2>6, <3>1, <3>2 DEF OnError, TypeOK, main
  <2>8. ErroredIsDead'
    <3> SUFFICES ASSUME NEW q \in Errored'
                 PROVE  thread'[q] \in {"stopped", "exited"}
      BY DEF ErroredIsDead
    <3>1. CASE q = p
      BY <3>1, <2>6
    <3>2. CASE q # p
      <4>1. q \in Errored /\ q \in Projects
        BY <3>2, <2>3, <2>4
      <4>2. thread[q] \in {"stopped", "exited"}
        BY <4>1 DEF ErroredIsDead
      <4> QED BY <3>2, <4>1, <4>2, <2>6
    <3> QED BY <3>1, <3>2
  <2>9. LiveAccounting'
    <3>1. /\ Cardinality(Live) \in Nat
          /\ Cardinality(Errored) \in Nat
          /\ Cardinality(Live') \in Nat
      BY ProjectsFinite, <2>4 DEF Live
    <3>2. activeWorkers \in Int /\ activeWorkers' \in Int
      BY <2>7 DEF TypeOK
    <3> QED BY <2>5, <2>6, <3>1, <3>2 DEF LiveAccounting
  <2>10. activeWorkers' <= limit'
    BY <1>2, <2>6, PoolAssumption DEF OnError, TypeOK, main
  <2>11. NothingYet'
    <3>1. phase # "finding"
      <4>1. phase = "finding" => p > projectIndex
        BY PoolAssumption DEF NothingYet, TypeOK, Projects
      <4> QED BY <4>1, <2>1 DEF InOrder
    <3> QED BY <3>1, <1>2 DEF OnError, StartNextWorker, PrintSummary, NothingYet
  <2> QED BY <2>6, <2>7, <2>8, <2>9, <2>10, <2>11
<1>3. CASE OnExit(p)
  <2>1. thread[p] = "stopped" /\ activeWorkers - 1 \in Int
    BY <1>3 DEF OnExit, TypeOK
  <2>2. Errored' = Errored /\ Errored \in SUBSET Projects
    BY <1>3 DEF OnExit, Errored
  <2>3. /\ thread' \in [Projects -> ThreadState]
        /\ thread'[p] = "exited"
        /\ \A q \in Projects \ {p} :
             thread'[q] = thread[q] \/ (thread[q] = "unstarted" /\ thread'[q] = "starting")
        /\ InOrder'
        /\ projectIndex' \in 0 .. found
        /\ activeWorkers' \in {activeWorkers - 1, activeWorkers - 1 + 1}
        /\ Cardinality(Live') - activeWorkers'
             = Cardinality(Live) - 1 - (activeWorkers - 1)
    BY <1>3, <2>1, StartNextEffect DEF OnExit
  <2>4. TypeOK'
    <3>1. results' \subseteq Result
      BY <1>3 DEF OnExit, TypeOK
    <3>2. /\ phase' \in {phase, "reporting"}
          /\ summary' \subseteq Result
          /\ activeWorkers' \in Int
      BY <1>3, <2>3, <3>1 DEF OnExit, TypeOK, StartNextWorker, PrintSummary
    <3> QED BY <1>3, <2>3, <3>1, <3>2 DEF OnExit, TypeOK, main
  <2>5. ErroredIsDead'
    <3> SUFFICES ASSUME NEW q \in Errored
                 PROVE  thread'[q] \in {"stopped", "exited"}
      BY <2>2 DEF ErroredIsDead
    <3>1. thread[q] \in {"stopped", "exited"} /\ q \in Projects
      BY <2>2 DEF ErroredIsDead
    <3> QED BY <3>1, <2>3
  <2>6. LiveAccounting'
    <3>1. /\ Cardinality(Live) \in Nat
          /\ Cardinality(Errored) \in Nat
          /\ Cardinality(Live') \in Nat
      BY ProjectsFinite, <2>2 DEF Live
    <3>2. activeWorkers \in Int /\ activeWorkers' \in Int
      BY <2>4 DEF TypeOK
    <3> QED BY <2>2, <2>3, <3>1, <3>2 DEF LiveAccounting
  <2>7. activeWorkers' <= limit'
    BY <1>3, <2>3, PoolAssumption DEF OnExit, TypeOK, main
  <2>8. NothingYet'
    <3>1. phase # "finding"
      <4>1. phase = "finding" => p > projectIndex
        BY PoolAssumption DEF NothingYet, TypeOK, Projects
      <4> QED BY <4>1, <2>1 DEF InOrder
    <3> QED BY <3>1, <1>3 DEF OnExit, StartNextWorker, PrintSummary, NothingYet
  <2> QED BY <2>3, <2>4, <2>5, <2>6, <2>7, <2>8
<1> QED BY <1>1, <1>2, <1>3 DEF Handler

-----------------------------------------------------------------------------
(* The main thread, and the theorem.                                       *)

LEMMA MainKeepsAccounting ==
  ASSUME Accounting, Main
  PROVE  Accounting'
<1> USE DEF Accounting
<1>1. CASE FindProjects
  <2>1. PICK n \in 1 .. MaxProjects :
          LET batch == IF limit < n THEN limit ELSE n IN
          /\ found' = n
          /\ projectIndex' = batch
          /\ activeWorkers' = batch
          /\ thread' = [p \in Projects |->
                          IF p <= batch THEN "starting" ELSE "unstarted"]
    BY <1>1 DEF FindProjects
  <2> DEFINE batch == IF limit < n THEN limit ELSE n
  <2>2. batch \in 0 .. n /\ batch \in 0 .. MaxProjects /\ batch <= limit
    BY PoolAssumption DEF TypeOK
  <2>3. TypeOK'
    BY <1>1, <2>1, <2>2 DEF FindProjects, TypeOK, ThreadState
  <2>4. InOrder'
    BY <2>1, <2>2 DEF InOrder, Projects
  <2>5. Live' = 1 .. batch
    BY <2>1, <2>2, PoolAssumption DEF Live, Projects
  <2>6. Errored' = {} /\ Errored = {}
    BY <1>1 DEF FindProjects, NothingYet, Errored
  <2>7. LiveAccounting'
    <3>1. Cardinality(Live') = batch
      BY <2>2, <2>5, InitialSegment
    <3>2. Cardinality(Errored') = 0
      BY <2>6, FS_EmptySet
    <3> QED BY <3>1, <3>2, <2>1, <2>2 DEF LiveAccounting
  <2>8. ErroredIsDead' /\ NothingYet'
    BY <1>1, <2>6 DEF FindProjects, ErroredIsDead, NothingYet
  <2> QED BY <1>1, <2>1, <2>2, <2>3, <2>4, <2>7, <2>8 DEF FindProjects
<1>2. CASE ScriptMissing \/ NothingFound \/ DecideExit \/ EventLoopEmpty \/ Interrupt
  <2>1. /\ UNCHANGED <<limit, found, pool, thread, script, inbox, results, summary>>
        /\ phase' \in {"cleaning", "exited"}
        /\ exitCode' \in {0, 1}
        /\ aborted' \in BOOLEAN
    BY <1>2 DEF ScriptMissing, NothingFound, DecideExit, EventLoopEmpty, Interrupt,
                TypeOK, main
  <2>2. Live' = Live /\ Errored' = Errored
    BY <2>1 DEF Live, Errored
  <2>3. TypeOK'
    BY <2>1 DEF TypeOK, pool
  <2> QED BY <2>1, <2>2, <2>3 DEF InOrder, ErroredIsDead, NothingYet, LiveAccounting, pool
<1> QED BY <1>1, <1>2 DEF Main

\* The invariant behind the bound holds for every number of projects and
\* every configured concurrency.
THEOREM PoolAccounting == Spec => []Accounting
<1>1. Init => Accounting
  <2> SUFFICES ASSUME Init PROVE Accounting
    OBVIOUS
  <2>1. TypeOK
    <3>1. /\ limit \in Limits
          /\ found \in 0 .. MaxProjects
          /\ projectIndex \in 0 .. found
          /\ activeWorkers \in Int
      BY PoolAssumption DEF Init
    <3>2. /\ thread \in [Projects -> ThreadState]
          /\ script \in [Projects -> ScriptState]
          /\ inbox \in [Projects -> Status \cup {"empty"}]
      BY DEF Init, ThreadState, ScriptState
    <3> QED BY <3>1, <3>2 DEF Init, TypeOK
  <2>2. Live = {} /\ Errored = {}
    BY DEF Init, Live, Errored
  <2>3. InOrder
    BY DEF Init, InOrder, Projects
  <2>4. Cardinality({}) = 0
    BY FS_EmptySet
  <2> QED BY <2>1, <2>2, <2>3, <2>4, PoolAssumption
          DEF Init, Accounting, ErroredIsDead, NothingYet, LiveAccounting
<1>2. Accounting /\ [Next]_vars => Accounting'
  <2> SUFFICES ASSUME Accounting, [Next]_vars PROVE Accounting'
    OBVIOUS
  <2>1. CASE Main
    BY <2>1, MainKeepsAccounting
  <2>2. ASSUME NEW p \in Projects, Handler(p)
        PROVE  Accounting'
    BY <2>2, HandlerKeepsAccounting
  <2>3. ASSUME NEW p \in Projects, Worker(p)
        PROVE  Accounting'
    BY <2>3, WorkerKeepsAccounting
  <2>4. ASSUME NEW p \in Projects, ScriptEnds(p)
        PROVE  Accounting'
    <3>1. TypeOK'
      BY <2>4 DEF ScriptEnds, Accounting, TypeOK, ScriptState, main, pool
    <3> QED BY <2>4, <3>1 DEF ScriptEnds, Accounting, InOrder, ErroredIsDead,
              NothingYet, LiveAccounting, Live, Errored, main, pool
  <2>5. CASE UNCHANGED vars
    BY <2>5 DEF vars, main, pool, Accounting, TypeOK, InOrder, ErroredIsDead, NothingYet,
                LiveAccounting, Live, Errored
  <2> QED BY <2>1, <2>2, <2>3, <2>4, <2>5 DEF Next, Terminated
<1> QED BY <1>1, <1>2, PTL DEF Spec

\* TypeOK for every value of the constants.
THEOREM PoolTypeOK == Spec => []TypeOK
<1>1. Accounting => TypeOK
  BY DEF Accounting
<1> QED BY <1>1, PoolAccounting, PTL

\* The counter is exact but for the crashes counted twice.
THEOREM PoolLiveAccounting == Spec => []LiveAccounting
<1>1. Accounting => LiveAccounting
  BY DEF Accounting
<1> QED BY <1>1, PoolAccounting, PTL

\* No interleaving of crashes raises the number of live threads above the
\* limit by more than the number of crashes handled.
THEOREM PoolConcurrencyBound == Spec => []ConcurrencyBound
<1>1. Accounting => ConcurrencyBound
  <2> SUFFICES ASSUME Accounting PROVE ConcurrencyBound
    OBVIOUS
  <2>1. Cardinality(Errored) \in Nat
    BY ProjectsFinite DEF Errored
  <2> QED BY <2>1, PoolAssumption DEF Accounting, LiveAccounting, ConcurrencyBound, TypeOK
<1> QED BY <1>1, PoolAccounting, PTL

-----------------------------------------------------------------------------
(* Each worker posts one result at most, and one that ends without having  *)
(* crashed has posted it.                                                  *)

Own(p) == {r \in results : r.path = p /\ r.logged}

PostsOnce(p) ==
  /\ thread[p] \in {"unstarted", "starting", "building"}
       => inbox[p] = "empty" /\ Own(p) = {}
  /\ inbox[p] # "empty" => Own(p) = {}
  /\ \A r, s \in Own(p) : r = s
  /\ thread[p] \in {"ending", "stopped", "exited"}
       => inbox[p] # "empty" \/ Own(p) # {} \/ p \in Errored
  /\ thread[p] = "exited" => inbox[p] = "empty"

Posting ==
  /\ \A p \in Projects : PostsOnce(p)
  /\ \A r \in results : ~r.logged => r.status = "FAILED"

LEMMA OwnAdds ==
  ASSUME NEW p \in Projects, NEW s \in Status,
         results' = results \cup {[path |-> p, status |-> s, logged |-> TRUE]}
  PROVE  /\ Own(p)' = Own(p) \cup {[path |-> p, status |-> s, logged |-> TRUE]}
         /\ \A q \in Projects \ {p} : Own(q)' = Own(q)
<1> DEFINE new == [path |-> p, status |-> s, logged |-> TRUE]
<1>1. new.path = p /\ new.logged
  OBVIOUS
<1>2. Own(p)' = Own(p) \cup {new}
  BY <1>1 DEF Own
<1>3. ASSUME NEW q \in Projects \ {p}
      PROVE  Own(q)' = Own(q)
  BY <1>1 DEF Own
<1> QED BY <1>2, <1>3

LEMMA OwnUnchanged ==
  ASSUME NEW p \in Projects,
         results' = results \cup {[path |-> p, status |-> "FAILED", logged |-> FALSE]}
  PROVE  \A q \in Projects : Own(q)' = Own(q)
<1> DEFINE new == [path |-> p, status |-> "FAILED", logged |-> FALSE]
<1>1. new.logged = FALSE
  OBVIOUS
<1> QED BY <1>1 DEF Own

LEMMA WorkerKeepsPosting ==
  ASSUME Accounting, Posting, NEW p \in Projects, Worker(p)
  PROVE  Posting'
<1>1. /\ TypeOK /\ TypeOK'
      /\ thread' = [thread EXCEPT ![p] = thread'[p]]
      /\ results' = results
  BY WorkerEffect DEF Accounting
<1>2. Errored' = Errored /\ \A q \in Projects : Own(q)' = Own(q)
  BY <1>1 DEF Errored, Own
<1>3. \A q \in Projects \ {p} : inbox'[q] = inbox[q] /\ thread'[q] = thread[q]
  BY <1>1 DEF Worker, WorkerSkips, WorkerSpawns, WorkerCatches, WorkerReports,
              WorkerCrashes, WorkerStops, Post, TypeOK
<1>4. PostsOnce(p) /\ thread[p] \in ThreadState
  BY <1>1 DEF Posting, TypeOK
<1>5. PostsOnce(p)'
  <2> USE DEF PostsOnce, Thread, TypeOK
  <2>1. CASE WorkerSkips(p)   BY <2>1, <1>1, <1>2, <1>4 DEF WorkerSkips, Post
  <2>2. CASE WorkerSpawns(p)  BY <2>2, <1>1, <1>2, <1>4 DEF WorkerSpawns
  <2>3. CASE WorkerCatches(p) BY <2>3, <1>1, <1>2, <1>4 DEF WorkerCatches, Post
  <2>4. CASE WorkerReports(p) BY <2>4, <1>1, <1>2, <1>4 DEF WorkerReports, Post
  <2>5. CASE WorkerCrashes(p) BY <2>5, <1>1, <1>2, <1>4 DEF WorkerCrashes
  <2>6. CASE WorkerStops(p)   BY <2>6, <1>1, <1>2, <1>4 DEF WorkerStops
  <2> QED BY <2>1, <2>2, <2>3, <2>4, <2>5, <2>6 DEF Worker
<1>6. ASSUME NEW q \in Projects \ {p}
      PROVE  PostsOnce(q)'
  <2>1. PostsOnce(q)
    BY DEF Posting
  <2> QED BY <2>1, <1>2, <1>3 DEF PostsOnce
<1> QED BY <1>1, <1>5, <1>6 DEF Posting

LEMMA HandlerKeepsPosting ==
  ASSUME Accounting, Posting, NEW p \in Projects, Handler(p)
  PROVE  Posting'
<1>1. PostsOnce(p) /\ TypeOK
  BY DEF Posting, Accounting
<1>2. CASE OnMessage(p)
  <2>1. inbox[p] \in Status /\ inbox[p] # "empty"
    BY <1>1, <1>2 DEF OnMessage, TypeOK
  <2>2. /\ Own(p)' = Own(p) \cup {[path |-> p, status |-> inbox[p], logged |-> TRUE]}
        /\ \A q \in Projects \ {p} : Own(q)' = Own(q)
        /\ Errored' = Errored
    BY <1>2, <2>1, OwnAdds, ErroredUnchanged DEF OnMessage
  <2>3. /\ inbox'[p] = "empty"
        /\ \A q \in Projects \ {p} : inbox'[q] = inbox[q]
        /\ thread' = thread
    BY <1>1, <1>2 DEF OnMessage, TypeOK
  <2>4. Own(p) = {}
    BY <1>1, <2>1 DEF PostsOnce
  <2>5. PostsOnce(p)'
    BY <1>1, <2>1, <2>2, <2>3, <2>4 DEF PostsOnce
  <2>6. ASSUME NEW q \in Projects \ {p}
        PROVE  PostsOnce(q)'
    <3>1. PostsOnce(q)
      BY DEF Posting
    <3> QED BY <3>1, <2>2, <2>3 DEF PostsOnce
  <2>7. \A r \in results' : ~r.logged => r.status = "FAILED"
    BY <1>2 DEF OnMessage, Posting
  <2> QED BY <2>5, <2>6, <2>7 DEF Posting
<1>3. CASE OnError(p)
  <2>1. /\ \A q \in Projects : Own(q)' = Own(q)
        /\ Errored' = Errored \cup {p}
        /\ inbox' = inbox
        /\ thread[p] = "crashed" /\ activeWorkers - 1 \in Int
    BY <1>1, <1>3, OwnUnchanged, ErroredAdds DEF OnError, TypeOK
  <2>2. /\ thread'[p] = "stopped"
        /\ \A q \in Projects \ {p} :
             thread'[q] = thread[q] \/ (thread[q] = "unstarted" /\ thread'[q] = "starting")
    BY <1>3, <2>1, StartNextEffect DEF OnError, Accounting
  <2>3. PostsOnce(p)'
    BY <1>1, <2>1, <2>2 DEF PostsOnce
  <2>4. ASSUME NEW q \in Projects \ {p}
        PROVE  PostsOnce(q)'
    <3>1. PostsOnce(q)
      BY DEF Posting
    <3> QED BY <3>1, <2>1, <2>2 DEF PostsOnce
  <2>5. \A r \in results' : ~r.logged => r.status = "FAILED"
    BY <1>3 DEF OnError, Posting
  <2> QED BY <2>3, <2>4, <2>5 DEF Posting
<1>4. CASE OnExit(p)
  <2>1. /\ \A q \in Projects : Own(q)' = Own(q)
        /\ Errored' = Errored
        /\ inbox' = inbox
        /\ inbox[p] = "empty"
        /\ thread[p] = "stopped" /\ activeWorkers - 1 \in Int
    BY <1>1, <1>4 DEF OnExit, TypeOK, Own, Errored
  <2>2. /\ thread'[p] = "exited"
        /\ \A q \in Projects \ {p} :
             thread'[q] = thread[q] \/ (thread[q] = "unstarted" /\ thread'[q] = "starting")
    BY <1>4, <2>1, StartNextEffect DEF OnExit, Accounting
  <2>3. PostsOnce(p)'
    BY <1>1, <2>1, <2>2 DEF PostsOnce
  <2>4. ASSUME NEW q \in Projects \ {p}
        PROVE  PostsOnce(q)'
    <3>1. PostsOnce(q)
      BY DEF Posting
    <3> QED BY <3>1, <2>1, <2>2 DEF PostsOnce
  <2>5. \A r \in results' : ~r.logged => r.status = "FAILED"
    BY <1>4 DEF OnExit, Posting
  <2> QED BY <2>3, <2>4, <2>5 DEF Posting
<1> QED BY <1>2, <1>3, <1>4 DEF Handler

LEMMA MainKeepsPosting ==
  ASSUME Accounting, Posting, Main
  PROVE  Posting'
<1>1. CASE FindProjects
  <2>1. /\ results' = results /\ results = {} /\ inbox' = inbox
        /\ \A p \in Projects : inbox[p] = "empty"
        /\ \A p \in Projects : thread'[p] \in {"unstarted", "starting"}
    BY <1>1 DEF FindProjects, Accounting, NothingYet
  <2>2. ASSUME NEW p \in Projects
        PROVE  PostsOnce(p)'
    <3>1. Own(p)' = {} /\ inbox'[p] = "empty"
      BY <2>1 DEF Own
    <3> QED BY <2>1, <3>1 DEF PostsOnce
  <2> QED BY <2>1, <2>2 DEF Posting
<1>2. CASE ScriptMissing \/ NothingFound \/ DecideExit \/ EventLoopEmpty \/ Interrupt
  <2>1. UNCHANGED <<thread, inbox, results>>
    BY <1>2 DEF ScriptMissing, NothingFound, DecideExit, EventLoopEmpty, Interrupt
  <2>2. Errored' = Errored /\ \A p \in Projects : Own(p)' = Own(p)
    BY <2>1 DEF Errored, Own
  <2> QED BY <2>1, <2>2 DEF Posting, PostsOnce
<1> QED BY <1>1, <1>2 DEF Main

-----------------------------------------------------------------------------
(* The exit code.  As long as the promise is pending the counter is above  *)
(* zero, so the process cannot run out of events; once it is resolved, the *)
(* threads still alive are at most as many as the crashes handled, each of *)
(* which left a FAILED result behind.                                      *)

Resolution ==
  /\ phase # "exited" => exitCode = 0 /\ ~aborted
  /\ phase = "building" => (limit > 0 => activeWorkers > 0)
  /\ phase \in {"reporting", "cleaning"} => projectIndex = found
  /\ phase \in {"reporting", "cleaning"} =>
       (Errored = {} => Live = {} /\ summary = results)
  /\ phase = "cleaning" => Failed = {}
  /\ ExitCodeTruthful

Outcome == Accounting /\ Posting /\ Resolution

\* With no crash handled the pool is quiet once it is resolved.
LEMMA QuietAfterResolution ==
  ASSUME Outcome, phase \in {"reporting", "cleaning"}, Errored = {},
         NEW p \in Projects
  PROVE  ~Handler(p) /\ ~Worker(p)
<1>1. thread[p] \in {"unstarted", "exited"}
  BY DEF Outcome, Resolution, Live
<1>2. inbox[p] = "empty"
  BY <1>1 DEF Outcome, Posting, PostsOnce
<1>3. ~Handler(p)
  BY <1>1, <1>2 DEF Handler, OnMessage, OnError, OnExit
<1>4. ~Worker(p)
  BY <1>1, WorkerEffect DEF Outcome
<1> QED BY <1>3, <1>4

LEMMA FailedFree ==
  ASSUME Posting, Failed = {}
  PROVE  Errored = {}
BY DEF Posting, Failed, Errored

LEMMA HandlerKeepsResolution ==
  ASSUME Outcome, NEW p \in Projects, Handler(p)
  PROVE  Resolution'
<1> USE DEF Outcome
<1>1. Accounting' /\ Posting'
  BY HandlerKeepsAccounting, HandlerKeepsPosting
<1>2. /\ phase \in {"finding", "building", "reporting", "cleaning"}
      /\ UNCHANGED <<main>>
      /\ TypeOK /\ TypeOK'
  BY <1>1 DEF Handler, OnMessage, OnError, OnExit, Accounting, TypeOK
<1>3. phase # "cleaning"
  <2>1. phase = "cleaning" => Errored = {}
    BY FailedFree DEF Resolution
  <2> QED BY <2>1, QuietAfterResolution
<1>4. phase = "reporting" => Errored # {}
  BY QuietAfterResolution
<1>5. Errored \subseteq Errored'
  BY DEF Handler, OnMessage, OnError, OnExit, Errored
<1>6. CASE OnMessage(p)
  BY <1>2, <1>3, <1>4, <1>5, <1>6
     DEF OnMessage, Resolution, ExitCodeTruthful, main, pool
<1>7. CASE OnError(p) \/ OnExit(p)
  <2>1. PICK n \in Int, ts \in [Projects -> ThreadState] :
          StartNextWorker(n, ts) /\ n = activeWorkers - 1
    <3>1. /\ activeWorkers - 1 \in Int
          /\ [thread EXCEPT ![p] = "stopped"] \in [Projects -> ThreadState]
          /\ [thread EXCEPT ![p] = "exited"] \in [Projects -> ThreadState]
      BY <1>2 DEF TypeOK, ThreadState
    <3> QED BY <3>1, <1>7 DEF OnError, OnExit
  <2>2. CASE phase = "reporting" \/ phase = "finding"
    <3>1. phase' = phase
      BY <2>1, <2>2 DEF StartNextWorker
    <3>2. phase = "reporting" => projectIndex' = projectIndex
      BY <2>1, <1>2 DEF StartNextWorker, Resolution, TypeOK
    <3> QED BY <1>2, <1>4, <1>5, <2>2, <3>1, <3>2
            DEF Resolution, ExitCodeTruthful, main
  <2>3. CASE phase = "building"
    <3>1. CASE phase' = "building"
      <4>1. limit > 0 => activeWorkers' > 0
        BY <1>2, <2>1, <2>3, <3>1, PoolAssumption
           DEF StartNextWorker, PrintSummary, Resolution, TypeOK, main
      <4> QED BY <1>2, <2>3, <3>1, <4>1 DEF Resolution, ExitCodeTruthful, main
    <3>2. CASE phase' # "building"
      <4>1. /\ phase' = "reporting"
            /\ summary' = results'
            /\ projectIndex' = projectIndex
            /\ projectIndex >= found
            /\ activeWorkers' = 0
        BY <2>1, <2>3, <3>2 DEF StartNextWorker, PrintSummary
      <4>2. projectIndex' = found'
        BY <1>2, <4>1 DEF TypeOK, main
      <4>3. Errored' = {} => Live' = {}
        <5>1. Cardinality(Live') = 0 + Cardinality(Errored')
          BY <1>1, <4>1 DEF Accounting, LiveAccounting
        <5>2. IsFiniteSet(Live')
          BY ProjectsFinite DEF Live
        <5> QED BY <5>1, <5>2, FS_EmptySet
      <4> QED BY <1>2, <2>3, <4>1, <4>2, <4>3 DEF Resolution, ExitCodeTruthful, main
    <3> QED BY <3>1, <3>2
  <2> QED BY <1>2, <1>3, <2>2, <2>3
<1> QED BY <1>6, <1>7 DEF Handler

LEMMA WorkerKeepsResolution ==
  ASSUME Outcome, NEW p \in Projects, Worker(p)
  PROVE  Resolution'
<1> USE DEF Outcome
<1>1. /\ UNCHANGED <<main, pool, phase, results, summary>>
      /\ phase # "exited"
  BY WorkerEffect
<1>2. Errored' = Errored /\ Failed' = Failed
  BY <1>1 DEF Errored, Failed
<1>3. phase \in {"reporting", "cleaning"} => Errored # {}
  BY QuietAfterResolution
<1> QED BY <1>1, <1>2, <1>3 DEF Resolution, ExitCodeTruthful, main, pool

\* Nothing is left to wait for and no result is FAILED: every project has
\* exactly one result, and the summary counted it.
LEMMA GreenIsComplete ==
  ASSUME Outcome, phase = "cleaning", Live = {}, NEW p \in 1 .. found
  PROVE  Cardinality(Reports(p)) = 1
<1> USE DEF Outcome
<1>1. Errored = {} /\ summary = results /\ projectIndex = found /\ p \in Projects
  <2>1. Failed = {} /\ projectIndex = found
    BY DEF Resolution
  <2>2. Errored = {}
    BY <2>1, FailedFree
  <2>3. p \in Projects
    BY PoolAssumption DEF Accounting, TypeOK, Projects
  <2> QED BY <2>1, <2>2, <2>3 DEF Resolution
<1>2. thread[p] = "exited"
  <2>1. thread[p] # "unstarted"
    BY <1>1, PoolAssumption DEF Accounting, InOrder, TypeOK, Projects
  <2> QED BY <1>1, <2>1 DEF Live
<1>3. Own(p) # {} /\ \A r, s \in Own(p) : r = s
  BY <1>1, <1>2 DEF Posting, PostsOnce
<1>4. Reports(p) = Own(p)
  BY <1>1 DEF Reports, Own, Errored
<1>5. PICK r : Own(p) = {r}
  <2>1. PICK r : r \in Own(p)
    BY <1>3
  <2>2. Own(p) = {r}
    BY <1>3, <2>1
  <2> QED BY <2>2
<1> QED BY <1>4, <1>5, FS_Singleton

LEMMA MainKeepsResolution ==
  ASSUME Outcome, Main
  PROVE  Resolution'
<1> USE DEF Outcome
<1>1. CASE ScriptMissing \/ Interrupt
  BY <1>1 DEF ScriptMissing, Interrupt, Resolution, ExitCodeTruthful
<1>2. CASE NothingFound
  <2>1. /\ phase = "finding" /\ phase' = "cleaning"
        /\ UNCHANGED <<main, pool, thread, results, summary>>
    BY <1>2 DEF NothingFound
  <2>2. found = 0 /\ projectIndex = 0 /\ results = {} /\ summary = {}
    BY <2>1, PoolAssumption DEF Accounting, NothingYet, TypeOK
  <2>3. Live' = {}
    BY <2>1, <2>2, PoolAssumption DEF Live, Accounting, InOrder, Projects
  <2>4. Failed' = {}
    BY <2>1, <2>2 DEF Failed
  <2> QED BY <2>1, <2>2, <2>3, <2>4 DEF Resolution, ExitCodeTruthful, main, pool
<1>3. CASE FindProjects
  <2>1. limit > 0 => activeWorkers' > 0
    BY <1>3, PoolAssumption DEF FindProjects, Accounting, TypeOK
  <2> QED BY <1>3, <2>1 DEF FindProjects, Resolution, ExitCodeTruthful
<1>4. CASE DecideExit
  <2>1. /\ phase = "reporting"
        /\ UNCHANGED <<limit, found, aborted, pool, thread, results, summary>>
    BY <1>4 DEF DecideExit
  <2>2. Live' = Live /\ Errored' = Errored /\ Failed' = Failed
    BY <2>1 DEF Live, Errored, Failed
  <2>3. CASE Failed # {}
    BY <1>4, <2>1, <2>2, <2>3 DEF DecideExit, Resolution, ExitCodeTruthful
  <2>4. CASE Failed = {}
    BY <1>4, <2>1, <2>2, <2>4 DEF DecideExit, Resolution, ExitCodeTruthful, pool
  <2> QED BY <2>3, <2>4
<1>5. CASE EventLoopEmpty
  <2>1. /\ phase \in {"cleaning", "building"} /\ phase' = "exited"
        /\ UNCHANGED <<main, pool, thread, results, summary>>
        /\ Live = {}
    BY <1>5 DEF EventLoopEmpty
  <2>2. Failed' = Failed /\ \A p : Reports(p)' = Reports(p)
    BY <2>1 DEF Failed, Reports
  <2>3. CASE phase = "cleaning"
    <3>1. \A p \in 1 .. found : Cardinality(Reports(p)) = 1
      BY <2>1, <2>3, GreenIsComplete
    <3> QED BY <2>1, <2>2, <2>3, <3>1 DEF Resolution, ExitCodeTruthful, main
  <2>4. CASE phase = "building"
    <3>1. ~(limit > 0)
      <4>1. Cardinality(Live) = 0
        BY <2>1, FS_EmptySet
      <4>2. Cardinality(Errored) \in Nat
        BY ProjectsFinite DEF Errored
      <4> QED BY <2>4, <4>1, <4>2 DEF Accounting, LiveAccounting, Resolution, TypeOK
    <3> QED BY <2>1, <3>1 DEF Resolution, ExitCodeTruthful, main
  <2> QED BY <2>1, <2>3, <2>4
<1> QED BY <1>1, <1>2, <1>3, <1>4, <1>5 DEF Main

\* The inductive invariant of the whole pool: counters, posted results and
\* the resolution of the promise.
THEOREM PoolOutcome == Spec => []Outcome
<1>1. Init => Posting /\ Resolution
  <2> SUFFICES ASSUME Init PROVE Posting /\ Resolution
    OBVIOUS
  <2>1. Posting
    BY DEF Init, Posting, PostsOnce, Own
  <2>2. Resolution
    BY DEF Init, Resolution, ExitCodeTruthful
  <2> QED BY <2>1, <2>2
<1>2. Accounting /\ Accounting' /\ Posting /\ Resolution /\ [Next]_vars
        => Posting' /\ Resolution'
  <2> SUFFICES ASSUME Outcome, [Next]_vars PROVE Posting' /\ Resolution'
    BY DEF Outcome
  <2> USE DEF Outcome
  <2>1. CASE Main
    BY <2>1, MainKeepsPosting, MainKeepsResolution
  <2>2. ASSUME NEW p \in Projects, Handler(p)
        PROVE  Posting' /\ Resolution'
    BY <2>2, HandlerKeepsPosting, HandlerKeepsResolution
  <2>3. ASSUME NEW p \in Projects, Worker(p)
        PROVE  Posting' /\ Resolution'
    BY <2>3, WorkerKeepsPosting, WorkerKeepsResolution
  <2>4. CASE UNCHANGED <<main, pool, phase, thread, inbox, results, summary>>
    <3>1. /\ Errored' = Errored /\ Failed' = Failed /\ Live' = Live
          /\ \A p : Own(p)' = Own(p) /\ Reports(p)' = Reports(p)
      BY <2>4 DEF Errored, Failed, Live, Own, Reports
    <3>2. Posting'
      BY <2>4, <3>1 DEF Posting, PostsOnce
    <3>3. Resolution'
      BY <2>4, <3>1 DEF Resolution, ExitCodeTruthful, main, pool
    <3> QED BY <3>2, <3>3
  <2>5. (\E p \in Projects : ScriptEnds(p)) \/ UNCHANGED vars
          => UNCHANGED <<main, pool, phase, thread, inbox, results, summary>>
    BY DEF ScriptEnds, vars
  <2> QED BY <2>1, <2>2, <2>3, <2>4, <2>5 DEF Next, Terminated
<1> QED BY <1>1, <1>2, PoolAccounting, PTL DEF Spec, Outcome

\* Whatever workers crash and in whatever order events are delivered, a run
\* that is not aborted exits 0 only with a summary that holds exactly one
\* result for each project and no failure, and exits 1 only for a failure.
THEOREM PoolExitCode == Spec => []ExitCodeTruthful
<1>1. Outcome => ExitCodeTruthful
  BY DEF Outcome, Resolution
<1> QED BY <1>1, PoolOutcome, PTL

\* Once the promise is resolved no further build is started, although the
\* handlers of late events still call startNextWorker.
THEOREM PoolNoStartAfterSummary == Spec => NoStartAfterSummary
<1>1. Outcome /\ [Next]_vars
        => [(phase \in {"reporting", "cleaning"}) => UNCHANGED projectIndex]_vars
  <2> SUFFICES ASSUME Outcome, Next, phase \in {"reporting", "cleaning"}
               PROVE  UNCHANGED projectIndex
    OBVIOUS
  <2>1. projectIndex >= found /\ ~(projectIndex < found)
    BY PoolAssumption DEF Outcome, Accounting, Resolution, TypeOK
  <2>2. CASE Main
    BY <2>2 DEF Main, ScriptMissing, NothingFound, FindProjects, DecideExit,
                EventLoopEmpty, Interrupt, pool
  <2>3. ASSUME NEW p \in Projects, Handler(p)
        PROVE  UNCHANGED projectIndex
    BY <2>1, <2>3 DEF Handler, OnMessage, OnError, OnExit, StartNextWorker, pool
  <2>4. ASSUME NEW p \in Projects, Worker(p)
        PROVE  UNCHANGED projectIndex
    BY <2>4, WorkerEffect DEF Outcome, pool
  <2>5. CASE (\E p \in Projects : ScriptEnds(p)) \/ Terminated
    BY <2>5 DEF ScriptEnds, Terminated, vars, pool
  <2> QED BY <2>2, <2>3, <2>4, <2>5 DEF Next
<1> QED BY <1>1, PoolOutcome, PTL DEF Spec, NoStartAfterSummary

-----------------------------------------------------------------------------
(* The safety half of PoolResolves: a run never rests before its end, and  *)
(* every step it takes is one of a bounded number.                         *)

\* A thread spawns its shell when it starts to wait for it, not before.
Spawned ==
  \A p \in Projects :
    /\ thread[p] \in {"unstarted", "starting"} => script[p] = "none"
    /\ thread[p] = "building" => script[p] # "none"

\* What p has to do, or is waited for to do: a result to be received, or the
\* next step of its thread or of its shell.
Pending(p) ==
  \/ inbox[p] # "empty"
  \/ thread[p] \in {"starting", "ending", "crashed"}
  \/ thread[p] = "building" /\ script[p] \in {"running", "ok", "failed", "killed"}
  \/ thread[p] = "stopped" /\ inbox[p] = "empty"

\* While the pool builds somebody has something to do, and once the promise
\* is resolved every project found was given a worker.
NeverStranded ==
  limit > 0 =>
    /\ phase = "building" => \E p \in Projects : Pending(p)
    /\ phase \in {"reporting", "cleaning"} =>
         \A p \in 1 .. found : thread[p] # "unstarted"

\* The stations of a thread, of a shell and of main().
ThreadRank == [unstarted |-> 0, starting |-> 1, building |-> 2, ending |-> 3,
               crashed |-> 4, stopped |-> 5, exited |-> 6]
ScriptRank == [none |-> 0, running |-> 1, ok |-> 2, failed |-> 2, killed |-> 2]
PhaseRank  == [finding |-> 0, building |-> 1, reporting |-> 2, cleaning |-> 3,
               exited |-> 4]

NoneGoesBack ==
  /\ PhaseRank[phase] <= PhaseRank[phase']
  /\ \A p \in Projects : /\ ThreadRank[thread[p]] <= ThreadRank[thread'[p]]
                         /\ ScriptRank[script[p]] <= ScriptRank[script'[p]]
                         /\ Own(p) \subseteq Own(p)'

OneGoesOn ==
  \/ PhaseRank[phase] < PhaseRank[phase']
  \/ \E p \in Projects : \/ ThreadRank[thread[p]] < ThreadRank[thread'[p]]
                         \/ ScriptRank[script[p]] < ScriptRank[script'[p]]
                         \/ Own(p) # Own(p)'

LEMMA HandlerMoves ==
  ASSUME Accounting, NEW p \in Projects, OnError(p) \/ OnExit(p)
  PROVE  /\ \/ thread[p] = "crashed" /\ thread'[p] = "stopped"
            \/ thread[p] = "stopped" /\ thread'[p] = "exited"
         /\ \A q \in Projects \ {p} :
              thread'[q] = thread[q] \/ (thread[q] = "unstarted" /\ thread'[q] = "starting")
         /\ UNCHANGED script
<1> USE DEF Accounting
<1>1. activeWorkers - 1 \in Int
  BY DEF TypeOK
<1>2. CASE OnError(p)
  BY <1>1, <1>2, StartNextEffect DEF OnError
<1>3. CASE OnExit(p)
  BY <1>1, <1>3, StartNextEffect DEF OnExit
<1> QED BY <1>2, <1>3

LEMMA WorkerMoves ==
  ASSUME Accounting, NEW p \in Projects, Worker(p)
  PROVE  /\ \/ thread[p] = "starting" /\ thread'[p] \in {"building", "ending", "crashed"}
            \/ thread[p] = "building" /\ thread'[p] \in {"ending", "crashed"}
            \/ thread[p] = "ending" /\ thread'[p] \in {"crashed", "stopped"}
         /\ \A q \in Projects \ {p} : thread'[q] = thread[q] /\ script'[q] = script[q]
         /\ script'[p] = script[p] \/ (thread[p] = "starting" /\ script'[p] = "running")
         /\ thread'[p] = "building" => script'[p] = "running"
         /\ UNCHANGED <<phase, results>>
<1> USE DEF Accounting, TypeOK, Thread
<1>1. CASE WorkerSkips(p)   BY <1>1 DEF WorkerSkips
<1>2. CASE WorkerSpawns(p)  BY <1>2 DEF WorkerSpawns
<1>3. CASE WorkerCatches(p) BY <1>3 DEF WorkerCatches
<1>4. CASE WorkerReports(p) BY <1>4 DEF WorkerReports
<1>5. CASE WorkerCrashes(p) BY <1>5 DEF WorkerCrashes
<1>6. CASE WorkerStops(p)   BY <1>6 DEF WorkerStops
<1> QED BY <1>1, <1>2, <1>3, <1>4, <1>5, <1>6 DEF Worker

LEMMA SpawnedInvariance == Spec => []Spawned
<1>1. Init => Spawned
  BY DEF Init, Spawned
<1>2. Accounting /\ Spawned /\ [Next]_vars => Spawned'
  <2> SUFFICES ASSUME Accounting, Spawned, [Next]_vars PROVE Spawned'
    OBVIOUS
  <2> USE DEF Spawned
  <2>1. CASE Main
    <3>1. CASE FindProjects
      <4>1. \A p \in Projects : thread[p] = "unstarted"
        BY <3>1, PoolAssumption
           DEF FindProjects, Accounting, InOrder, NothingYet, TypeOK, Projects
      <4> QED BY <3>1, <4>1 DEF FindProjects
    <3>2. CASE ScriptMissing \/ NothingFound \/ DecideExit \/ EventLoopEmpty \/ Interrupt
      BY <3>2 DEF ScriptMissing, NothingFound, DecideExit, EventLoopEmpty, Interrupt
    <3> QED BY <2>1, <3>1, <3>2 DEF Main
  <2>2. ASSUME NEW p \in Projects, Handler(p)
        PROVE  Spawned'
    BY <2>2, HandlerMoves DEF Handler, OnMessage
  <2>3. ASSUME NEW p \in Projects, Worker(p)
        PROVE  Spawned'
    <3>1. /\ \A q \in Projects \ {p} : thread'[q] = thread[q] /\ script'[q] = script[q]
          /\ thread'[p] \in {"building", "ending", "crashed", "stopped"}
          /\ thread'[p] = "building" => script'[p] = "running"
      BY <2>3, WorkerMoves
    <3> QED BY <3>1
  <2>4. ASSUME NEW p \in Projects, ScriptEnds(p)
        PROVE  Spawned'
    BY <2>4 DEF ScriptEnds, Accounting, TypeOK
  <2>5. CASE UNCHANGED vars
    BY <2>5 DEF vars
  <2> QED BY <2>1, <2>2, <2>3, <2>4, <2>5 DEF Next, Terminated
<1> QED BY <1>1, <1>2, PoolAccounting, PTL DEF Spec

\* The pool is never left with projects to build and nobody at work: while it
\* builds, some result is there to be received or some thread or shell has a
\* next step, and it is not resolved before every project has its worker.
THEOREM PoolNeverStranded == Spec => []NeverStranded
<1>1. Outcome /\ Spawned => NeverStranded
  <2> SUFFICES ASSUME Outcome, Spawned, limit > 0
               PROVE  /\ phase = "building" => \E p \in Projects : Pending(p)
                      /\ phase \in {"reporting", "cleaning"} =>
                           \A p \in 1 .. found : thread[p] # "unstarted"
    BY DEF NeverStranded
  <2> USE DEF Outcome
  <2>1. ASSUME phase = "building"
        PROVE  \E p \in Projects : Pending(p)
    <3>1. Live # {}
      <4>1. Cardinality(Errored) \in Nat
        BY ProjectsFinite DEF Errored
      <4>2. Cardinality(Live) # 0
        BY <2>1, <4>1 DEF Accounting, LiveAccounting, Resolution, TypeOK
      <4> QED BY <4>2, FS_EmptySet
    <3>2. PICK p \in Live : TRUE
      BY <3>1
    <3>3. p \in Projects /\ thread[p] \in ThreadState /\ script[p] \in ScriptState
      BY DEF Live, Accounting, TypeOK
    <3> QED BY <3>2, <3>3 DEF Live, Pending, Spawned, ThreadState, ScriptState
  <2>2. ASSUME phase \in {"reporting", "cleaning"}, NEW p \in 1 .. found
        PROVE  thread[p] # "unstarted"
    <3>1. projectIndex >= found /\ p \in Projects
      BY <2>2, PoolAssumption DEF Resolution, Accounting, TypeOK, Projects
    <3> QED BY <3>1, PoolAssumption DEF Accounting, InOrder, TypeOK
  <2> QED BY <2>1, <2>2
<1> QED BY <1>1, PoolOutcome, SpawnedInvariance, PTL

LEMMA RanksNat ==
  ASSUME Outcome
  PROVE  /\ PhaseRank[phase] \in Nat
         /\ \A p \in Projects : /\ ThreadRank[thread[p]] \in Nat
                                /\ ScriptRank[script[p]] \in Nat
<1>1. \A s \in ThreadState : ThreadRank[s] \in Nat
  BY DEF ThreadState, ThreadRank
<1>2. \A s \in ScriptState : ScriptRank[s] \in Nat
  BY DEF ScriptState, ScriptRank
<1>3. phase \in {"finding", "building", "reporting", "cleaning", "exited"}
  BY DEF Outcome, Accounting, TypeOK
<1> QED BY <1>1, <1>2, <1>3 DEF Outcome, Accounting, TypeOK, PhaseRank

LEMMA MainAdvances ==
  ASSUME Outcome, Main
  PROVE  NoneGoesBack /\ OneGoesOn
<1> USE DEF Outcome, Accounting
<1>1. ASSUME UNCHANGED <<thread, script, results>>,
             PhaseRank[phase'] \in Nat, PhaseRank[phase] < PhaseRank[phase']
      PROVE  NoneGoesBack /\ OneGoesOn
  <2>1. \A p \in Projects : /\ ThreadRank[thread[p]] \in Nat
                           /\ ScriptRank[script[p]] \in Nat
    BY RanksNat
  <2>2. PhaseRank[phase] \in Nat
    BY RanksNat
  <2> QED BY <1>1, <2>1, <2>2 DEF NoneGoesBack, OneGoesOn, Own
<1>2. CASE FindProjects
  <2>1. \A p \in Projects : thread[p] = "unstarted"
    BY <1>2, PoolAssumption DEF FindProjects, InOrder, NothingYet, TypeOK, Projects
  <2>2. \A p \in Projects : thread'[p] \in {"unstarted", "starting"}
    BY <1>2 DEF FindProjects
  <2>3. phase = "finding" /\ phase' = "building" /\ UNCHANGED <<script, results>>
    BY <1>2 DEF FindProjects
  <2>4. \A p \in Projects : ScriptRank[script[p]] \in Nat
    BY RanksNat
  <2> QED BY <2>1, <2>2, <2>3, <2>4
          DEF NoneGoesBack, OneGoesOn, Own, PhaseRank, ThreadRank
<1>3. CASE ScriptMissing \/ NothingFound \/ DecideExit \/ EventLoopEmpty \/ Interrupt
  <2>1. /\ UNCHANGED <<thread, script, results>>
        /\ phase = "finding" => phase' \in {"cleaning", "exited"}
        /\ phase = "building" => phase' = "exited"
        /\ phase = "reporting" => phase' \in {"cleaning", "exited"}
        /\ phase = "cleaning" => phase' = "exited"
        /\ phase # "exited"
    BY <1>3 DEF ScriptMissing, NothingFound, DecideExit, EventLoopEmpty, Interrupt
  <2>2. PhaseRank[phase'] \in Nat /\ PhaseRank[phase] < PhaseRank[phase']
    BY <2>1 DEF PhaseRank, TypeOK
  <2> QED BY <1>1, <2>1, <2>2
<1> QED BY <1>2, <1>3 DEF Main

LEMMA HandlerAdvances ==
  ASSUME Outcome, NEW p \in Projects, Handler(p)
  PROVE  NoneGoesBack /\ OneGoesOn
<1> USE DEF Outcome, Accounting
<1>0. \A q \in Projects : /\ ThreadRank[thread[q]] \in Nat
                         /\ ScriptRank[script[q]] \in Nat
  BY RanksNat
<1>1. CASE OnMessage(p)
  <2>1. UNCHANGED <<phase, thread, script>> /\ inbox[p] \in Status
    BY <1>1 DEF OnMessage, TypeOK
  <2>2. PICK new : /\ Own(p)' = Own(p) \cup {new}
                   /\ \A q \in Projects \ {p} : Own(q)' = Own(q)
    BY <1>1, <2>1, OwnAdds DEF OnMessage
  <2>3. Own(p) = {}
    BY <1>1 DEF OnMessage, Posting, PostsOnce
  <2> QED BY <1>0, <2>1, <2>2, <2>3, RanksNat DEF NoneGoesBack, OneGoesOn
<1>2. CASE OnError(p) \/ OnExit(p)
  <2>1. /\ \/ thread[p] = "crashed" /\ thread'[p] = "stopped"
           \/ thread[p] = "stopped" /\ thread'[p] = "exited"
        /\ \A q \in Projects \ {p} :
             thread'[q] = thread[q] \/ (thread[q] = "unstarted" /\ thread'[q] = "starting")
        /\ UNCHANGED script
    BY <1>2, HandlerMoves
  <2>2. phase' = phase \/ (phase = "building" /\ phase' = "reporting")
    BY <1>2 DEF OnError, OnExit, StartNextWorker, PrintSummary
  <2>3. \A q \in Projects : Own(q)' = Own(q)
    BY <1>2, OwnUnchanged DEF OnError, OnExit, Own
  <2>4. PhaseRank[phase] <= PhaseRank[phase']
    BY <2>2, RanksNat DEF PhaseRank
  <2>5. \A q \in Projects \ {p} : ThreadRank[thread[q]] <= ThreadRank[thread'[q]]
    BY <1>0, <2>1 DEF ThreadRank
  <2>6. ThreadRank[thread[p]] < ThreadRank[thread'[p]]
    BY <2>1 DEF ThreadRank
  <2> QED BY <1>0, <2>1, <2>3, <2>4, <2>5, <2>6 DEF NoneGoesBack, OneGoesOn, ThreadRank
<1> QED BY <1>1, <1>2 DEF Handler

LEMMA WorkerAdvances ==
  ASSUME Outcome, Spawned, NEW p \in Projects, Worker(p)
  PROVE  NoneGoesBack /\ OneGoesOn
<1> USE DEF Outcome
<1>0. \A q \in Projects : /\ ThreadRank[thread[q]] \in Nat
                         /\ ScriptRank[script[q]] \in Nat
  BY RanksNat
<1>1. /\ \/ thread[p] = "starting" /\ thread'[p] \in {"building", "ending", "crashed"}
         \/ thread[p] = "building" /\ thread'[p] \in {"ending", "crashed"}
         \/ thread[p] = "ending" /\ thread'[p] \in {"crashed", "stopped"}
      /\ \A q \in Projects \ {p} : thread'[q] = thread[q] /\ script'[q] = script[q]
      /\ script'[p] = script[p] \/ (thread[p] = "starting" /\ script'[p] = "running")
      /\ UNCHANGED <<phase, results>>
  BY WorkerMoves
<1>2. thread[p] = "starting" => script[p] = "none"
  BY DEF Spawned
<1> QED BY <1>0, <1>1, <1>2, RanksNat DEF NoneGoesBack, OneGoesOn, Own, ThreadRank, ScriptRank

LEMMA ScriptAdvances ==
  ASSUME Outcome, NEW p \in Projects, ScriptEnds(p)
  PROVE  NoneGoesBack /\ OneGoesOn
<1> USE DEF Outcome
<1>0. \A q \in Projects : /\ ThreadRank[thread[q]] \in Nat
                         /\ ScriptRank[script[q]] \in Nat
  BY RanksNat
<1>1. /\ script[p] = "running" /\ script'[p] \in {"ok", "failed", "killed"}
      /\ \A q \in Projects \ {p} : script'[q] = script[q]
      /\ UNCHANGED <<phase, thread, results>>
  BY DEF ScriptEnds, Accounting, TypeOK
<1> QED BY <1>0, <1>1, RanksNat DEF NoneGoesBack, OneGoesOn, Own, ScriptRank

\* Every step takes main(), a thread, a shell or the result of a worker one
\* station further and none back.  There are four, six, two and one of them,
\* so a run of n projects takes at most 4 + 9 * n steps, whatever crashes.
THEOREM PoolAdvances == Spec => [][NoneGoesBack /\ OneGoesOn]_vars
<1>1. Outcome /\ Spawned /\ [Next]_vars => [NoneGoesBack /\ OneGoesOn]_vars
  <2> SUFFICES ASSUME Outcome, Spawned, Next, ~UNCHANGED vars
               PROVE  NoneGoesBack /\ OneGoesOn
    OBVIOUS
  <2> USE DEF Outcome
  <2>2. CASE Main
    BY <2>2, MainAdvances
  <2>3. ASSUME NEW p \in Projects, Handler(p)
        PROVE  NoneGoesBack /\ OneGoesOn
    BY <2>3, HandlerAdvances
  <2>4. ASSUME NEW p \in Projects, Worker(p)
        PROVE  NoneGoesBack /\ OneGoesOn
    BY <2>4, WorkerAdvances
  <2>5. ASSUME NEW p \in Projects, ScriptEnds(p)
        PROVE  NoneGoesBack /\ OneGoesOn
    BY <2>5, ScriptAdvances
  <2> QED BY <2>2, <2>3, <2>4, <2>5 DEF Next, Terminated
<1> QED BY <1>1, PoolOutcome, SpawnedInvariance, PTL DEF Spec
=============================================================================
