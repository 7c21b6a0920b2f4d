------------------------- MODULE ToolkitBuild_proofs -------------------------
(***************************************************************************)
(* Proofs about the build toolkit, for any number of projects, of tasks at *)
(* a time and of runs on the same tree.                                    *)
(***************************************************************************)
EXTENDS ToolkitBuild, FiniteSetTheorems, TLAPS

Places == {"queued", "ready", "running", "context", "config", "synth", "app", "unlink",
           "rmvenv", "done"}

Last(p) == Len(Pipeline[lang[p]])

\* The context file of p at each place of its task.
Context(p) ==
  /\ copied[p] => ctx[p] # "user"
  /\ task[p] \in {"queued", "ready", "running", "context"} => ~copied[p] /\ ctx[p] = ctxAtStart[p]
  /\ task[p] \in {"config", "synth", "app", "unlink"} =>
       IF copied[p] THEN ctx[p] = "fake" /\ ctxAtStart[p] = "none" ELSE ctx[p] = ctxAtStart[p]
  /\ task[p] \in {"rmvenv", "done"} => "ctx" \in left[p] \/ ctx[p] = ctxAtStart[p]

\* The steps it has run there.
Ran(p) ==
  /\ task[p] = "queued" => steps[p] = << >>
  /\ task[p] # "queued" => p \in Buildable
  /\ task[p] \in {"ready", "running"} => Len(steps[p]) < Last(p)
  /\ task[p] \in {"context", "config", "synth", "app"} => Len(steps[p]) = Last(p)
  /\ task[p] \in {"unlink", "rmvenv"} => Len(steps[p]) = Last(p) + 1
  /\ task[p] = "done" =>
       \/ Len(steps[p]) = Last(p) + 1
       \/ Len(steps[p]) \in 1 .. Last(p) /\ ~steps[p][Len(steps[p])]

\* No step but the last can have failed, and none while there are more to come.
Failed(p) ==
  /\ task[p] \in {"ready", "running", "context", "config", "synth", "app"} =>
       \A i \in 1 .. Len(steps[p]) : steps[p][i]
  /\ \A i \in 1 .. Len(steps[p]) - 1 : steps[p][i]

Venv(p) ==
  (lang[p] = "python" /\ task[p] = "done" /\ Len(steps[p]) = Last(p) + 1) =>
    "venv" \in left[p] \/ ~venv[p]

\* How a run ends.
Ending ==
  /\ phase = "discovering" => \A p \in Projects : task[p] = "queued"
  /\ phase = "exited" => \A p \in Projects : task[p] \in {"queued", "done"}
  /\ phase = "exited" =>
       /\ \A p \in Buildable : task[p] = "done"
       /\ exitCode = IF FailedOnes # {} THEN 1 ELSE 0

Busy(p) == task[p] \notin {"queued", "done"}

\* With one task at a time.
Serial ==
  concurrency = 1 =>
    /\ \A p, q \in Projects : Busy(p) /\ Busy(q) => p = q
    /\ \A p \in Projects :
         /\ task[p] = "running" => ~childEnv[p]
         /\ task[p] = "app" => childEnv[p]
         /\ task[p] \in {"synth", "app"} => env /\ ~savedEnv[p]
    /\ env => \E p \in Projects : task[p] \in {"synth", "app"}

Inv ==
  /\ TypeOK
  /\ \A p \in Projects : Context(p) /\ Ran(p) /\ Failed(p) /\ Venv(p)
  /\ Ending
  /\ Serial

-----------------------------------------------------------------------------
(* The language of a project and its steps.                                *)

\* Every language that is built has one to three steps.
LEMMA Pipelines ==
  ASSUME NEW l \in DOMAIN Pipeline
  PROVE  Len(Pipeline[l]) \in 1 .. 3
<1>1. DOMAIN Pipeline = {"typescript", "python", "java", "go", "csharp"}
  BY DEF Pipeline
<1>2. /\ Pipeline["typescript"] = <<"install", "build", "test">>
      /\ Pipeline["python"] = <<"install">>
      /\ Pipeline["java"] = <<"build", "test">>
      /\ Pipeline["go"] = <<"build", "test">>
      /\ Pipeline["csharp"] = <<"build">>
  BY DEF Pipeline
<1>3. /\ Len(<<"install", "build", "test">>) = 3 /\ Len(<<"install">>) = 1
      /\ Len(<<"build", "test">>) = 2 /\ Len(<<"build">>) = 1
  OBVIOUS
<1>4. QED
  BY <1>1, <1>2, <1>3

\* What a step adds to the outcomes.
LEMMA Appended ==
  ASSUME NEW s \in Seq(BOOLEAN), NEW b \in BOOLEAN
  PROVE  /\ Append(s, b) \in Seq(BOOLEAN)
         /\ Len(s) \in Nat /\ Len(Append(s, b)) = Len(s) + 1
         /\ \A i \in 1 .. Len(s) : Append(s, b)[i] = s[i]
         /\ Append(s, b)[Len(s) + 1] <=> b
OBVIOUS

\* What the steps of a task have in common.
LEMMA TaskFacts ==
  ASSUME TypeOK, NEW p \in Projects, NEW from \in Places, NEW to \in Places, Task(p, from, to)
  PROVE  /\ phase = "building" /\ p \in Buildable /\ task[p] = from
         /\ lang[p] \in DOMAIN Pipeline
         /\ task' \in [Projects -> Places]
         /\ task'[p] = to /\ \A q \in Projects \ {p} : task'[q] = task[q]
         /\ UNCHANGED <<lang, flag, ctxAtStart, filter, concurrency, runs, phase, exitCode>>
<1>1. /\ phase = "building" /\ p \in Buildable /\ task[p] = from
      /\ task' = [task EXCEPT ![p] = to]
      /\ UNCHANGED <<lang, flag, ctxAtStart, filter, concurrency, runs, phase, exitCode>>
  BY DEF Task, tree, options
<1>2. lang[p] \in Langs /\ lang[p] # "unknown"
  BY <1>1 DEF Buildable, TypeOK
<1>3. lang[p] \in DOMAIN Pipeline
  BY <1>2, ToolkitAssumption
<1>4. task \in [Projects -> Places]
  BY DEF TypeOK, Places
<1>5. QED
  BY <1>1, <1>3, <1>4

\* Which projects are built does not change in a run.
LEMMA SameBuildable ==
  ASSUME UNCHANGED <<lang, flag, filter>>
  PROVE  Buildable' = Buildable
BY DEF Buildable, Discovered

-----------------------------------------------------------------------------
(* What is unchanged.                                                      *)

ProjectInv(p) == Context(p) /\ Ran(p) /\ Failed(p) /\ Venv(p)

\* A step of one project leaves what is said of the others.
LEMMA Others ==
  ASSUME NEW q \in Projects, ProjectInv(q),
         UNCHANGED <<lang, flag, filter, ctxAtStart>>,
         task'[q] = task[q], steps'[q] = steps[q], ctx'[q] = ctx[q],
         copied'[q] = copied[q], left'[q] = left[q], venv'[q] = venv[q]
  PROVE  ProjectInv(q)'
<1>1. Buildable' = Buildable
  BY SameBuildable
<1>2. QED
  BY <1>1 DEF ProjectInv, Context, Ran, Failed, Venv, Last

\* So that there is this much to show of a step of p.
LEMMA StepOf ==
  ASSUME Inv, NEW p \in Projects, NEW from \in Places, NEW to \in Places, Task(p, from, to),
         TypeOK', ProjectInv(p)', Serial',
         \A q \in Projects \ {p} :
           /\ steps'[q] = steps[q] /\ ctx'[q] = ctx[q] /\ copied'[q] = copied[q]
           /\ left'[q] = left[q] /\ venv'[q] = venv[q]
  PROVE  Inv'
<1> USE DEF Inv
<1>1. /\ phase' = "building"
      /\ UNCHANGED <<lang, flag, ctxAtStart, filter>>
      /\ \A q \in Projects \ {p} : task'[q] = task[q]
  BY TaskFacts
<1>2. Ending'
  BY <1>1 DEF Ending
<1>3. \A q \in Projects : ProjectInv(q)'
  BY <1>1, Others DEF ProjectInv
<1>4. QED
  BY <1>2, <1>3 DEF ProjectInv

\* With one task at a time, nobody else is at work.
LEMMA Alone ==
  ASSUME Inv, concurrency = 1, NEW p \in Projects, Busy(p)
  PROVE  \A q \in Projects \ {p} : task[q] \in {"queued", "done"}
BY DEF Inv, Serial, Busy

\* A step that neither begins nor ends a child process or a synthesis.
LEMMA SerialFrame ==
  ASSUME Inv, NEW p \in Projects, NEW from \in Places \ {"queued", "synth", "app"},
         NEW to \in Places \ {"running", "app", "synth"}, Task(p, from, to),
         from # "done", UNCHANGED <<env, savedEnv, childEnv>>
  PROVE  Serial'
<1> USE DEF Inv
<1> SUFFICES ASSUME concurrency' = 1 PROVE Serial'
  BY DEF Serial
<1>1. /\ task[p] = from /\ task'[p] = to /\ concurrency = 1
      /\ \A q \in Projects \ {p} : task'[q] = task[q]
  BY TaskFacts
<1>2. \A q \in Projects \ {p} : task[q] \in {"queued", "done"}
  BY <1>1, Alone DEF Busy
<1>3. \A q, r \in Projects : Busy(q)' /\ Busy(r)' => q = r
  BY <1>1, <1>2 DEF Busy
<1>4. ~env
  BY <1>1, <1>2 DEF Serial
<1>5. QED
  BY <1>1, <1>2, <1>3, <1>4 DEF Serial

-----------------------------------------------------------------------------
(* The steps of a project.                                                 *)

LEMMA StartTaskStep ==
  ASSUME Inv, NEW p \in Projects, StartTask(p)
  PROVE  Inv'
<1> USE DEF Inv
<1>1. /\ Task(p, "queued", "ready")
      /\ Cardinality(Active) < concurrency
      /\ UNCHANGED <<ctx, venv, env, steps, savedEnv, copied, childEnv, left>>
  BY DEF StartTask
<1>2. "queued" \in Places /\ "ready" \in Places
  BY DEF Places
<1>3. /\ p \in Buildable /\ task[p] = "queued" /\ task'[p] = "ready" /\ lang[p] \in DOMAIN Pipeline
      /\ task' \in [Projects -> Places]
      /\ \A q \in Projects \ {p} : task'[q] = task[q]
      /\ UNCHANGED <<lang, flag, ctxAtStart, filter, concurrency, runs, phase, exitCode>>
  BY <1>1, <1>2, TaskFacts
<1>4. TypeOK'
  BY <1>1, <1>3 DEF TypeOK, Places
<1>5. ProjectInv(p)'
  <2>1. Len(steps[p]) = 0 /\ Last(p) > 0
    <3>1. steps[p] = << >>
      BY <1>3 DEF Ran
    <3>2. Last(p) \in 1 .. 3
      BY <1>3, Pipelines DEF Last
    <3>3. QED
      BY <3>1, <3>2
  <2>2. Buildable' = Buildable
    BY <1>3, SameBuildable
  <2>3. QED
    BY <1>1, <1>3, <2>1, <2>2 DEF ProjectInv, Context, Ran, Failed, Venv, Last
<1>6. Serial'
  <2> SUFFICES ASSUME concurrency = 1 PROVE Serial'
    BY <1>3 DEF Serial
  <2>1. IsFiniteSet(Projects)
    BY ToolkitAssumption, FS_Interval DEF Projects
  <2>2. Active \subseteq Projects
    BY DEF Active, Started, Buildable, Discovered
  <2>3. IsFiniteSet(Active)
    BY <2>1, <2>2, FS_Subset
  <2>4. Cardinality(Active) \in Nat
    BY <2>3, FS_CardinalityType
  <2>5. Active = {}
    BY <1>1, <2>3, <2>4, FS_EmptySet
  <2>6. \A q \in Projects : ~Busy(q)
    BY <2>5 DEF Busy, Active, Started, Ran
  <2>7. \A q, r \in Projects : Busy(q)' /\ Busy(r)' => q = r
    BY <1>3, <2>6 DEF Busy
  <2>8. ~env
    BY <2>6 DEF Serial, Busy
  <2>9. \A q \in Projects : task'[q] \notin {"running", "synth", "app"}
    BY <1>3, <2>6 DEF Busy
  <2>10. QED
    BY <1>1, <2>7, <2>8, <2>9 DEF Serial
<1>7. QED
  BY <1>1, <1>2, <1>4, <1>5, <1>6, StepOf

LEMMA RunStepStep ==
  ASSUME Inv, NEW p \in Projects, RunStep(p)
  PROVE  Inv'
<1> USE DEF Inv
<1>1. /\ Task(p, "ready", "running")
      /\ childEnv' = [childEnv EXCEPT ![p] = env]
      /\ UNCHANGED <<ctx, venv, env, steps, savedEnv, copied, left>>
  BY DEF RunStep
<1>2. "ready" \in Places /\ "running" \in Places
  BY DEF Places
<1>3. /\ p \in Buildable /\ task[p] = "ready" /\ task'[p] = "running"
      /\ task' \in [Projects -> Places]
      /\ \A q \in Projects \ {p} : task'[q] = task[q]
      /\ UNCHANGED <<lang, flag, ctxAtStart, filter, concurrency, runs, phase, exitCode>>
  BY <1>1, <1>2, TaskFacts
<1>4. TypeOK'
  BY <1>1, <1>3 DEF TypeOK, Places
<1>5. ProjectInv(p)'
  <2>1. Buildable' = Buildable
    BY <1>3, SameBuildable
  <2>2. QED
    BY <1>1, <1>3, <2>1 DEF ProjectInv, Context, Ran, Failed, Venv, Last
<1>6. Serial'
  <2> SUFFICES ASSUME concurrency = 1 PROVE Serial'
    BY <1>3 DEF Serial
  <2>1. \A q \in Projects \ {p} : task[q] \in {"queued", "done"}
    BY <1>3, Alone DEF Busy
  <2>2. ~env
    BY <1>3, <2>1 DEF Serial
  <2>3. \A q, r \in Projects : Busy(q)' /\ Busy(r)' => q = r
    BY <1>3, <2>1 DEF Busy
  <2>4. ~childEnv'[p]
    BY <1>1, <2>2 DEF TypeOK
  <2>5. QED
    BY <1>1, <1>3, <2>1, <2>2, <2>3, <2>4 DEF Serial
<1>7. QED
  BY <1>1, <1>2, <1>4, <1>5, <1>6, StepOf

LEMMA StepSucceedsStep ==
  ASSUME Inv, NEW p \in Projects, StepSucceeds(p)
  PROVE  Inv'
<1> USE DEF Inv
<1> DEFINE last == Len(steps[p]) + 1 = Last(p)
           to == IF last THEN "context" ELSE "ready"
<1>1. /\ Task(p, "running", to)
      /\ steps' = [steps EXCEPT ![p] = Append(steps[p], TRUE)]
      /\ venv' = [venv EXCEPT ![p] = venv[p] \/ lang[p] = "python"]
      /\ UNCHANGED <<ctx, env, savedEnv, copied, childEnv, left>>
  BY DEF StepSucceeds, Last
<1>2. /\ "running" \in Places \ {"queued", "synth", "app"}
      /\ to \in Places \ {"running", "app", "synth"}
  BY DEF Places
<1> HIDE DEF to
<1>3. /\ p \in Buildable /\ task[p] = "running" /\ task'[p] = to /\ lang[p] \in DOMAIN Pipeline
      /\ task' \in [Projects -> Places]
      /\ \A q \in Projects \ {p} : task'[q] = task[q]
      /\ UNCHANGED <<lang, flag, ctxAtStart, filter, concurrency, runs, phase, exitCode>>
  BY <1>1, <1>2, TaskFacts
<1>4. /\ steps[p] \in Seq(BOOLEAN) /\ steps'[p] = Append(steps[p], TRUE)
      /\ steps'[p] \in Seq(BOOLEAN) /\ Len(steps'[p]) = Len(steps[p]) + 1
      /\ \A i \in 1 .. Len(steps[p]) : steps'[p][i] = steps[p][i]
      /\ steps'[p][Len(steps[p]) + 1] /\ Len(steps[p]) \in Nat
  <2>1. steps[p] \in Seq(BOOLEAN) /\ steps'[p] = Append(steps[p], TRUE)
    BY <1>1 DEF TypeOK
  <2>2. /\ Append(steps[p], TRUE) \in Seq(BOOLEAN)
        /\ Len(steps[p]) \in Nat /\ Len(Append(steps[p], TRUE)) = Len(steps[p]) + 1
        /\ \A i \in 1 .. Len(steps[p]) : Append(steps[p], TRUE)[i] = steps[p][i]
    BY <2>1, Appended
  <2>3. Append(steps[p], TRUE)[Len(steps[p]) + 1]
    BY <2>1, Appended
  <2>4. QED
    BY <2>1, <2>2, <2>3
<1>5. TypeOK'
  <2>1. venv' \in [Projects -> BOOLEAN]
    BY <1>1 DEF TypeOK
  <2>2. steps' \in [Projects -> Seq(BOOLEAN)]
    BY <1>1, <1>4 DEF TypeOK
  <2>3. QED
    BY <1>1, <1>3, <2>1, <2>2 DEF TypeOK, Places
<1>6. ProjectInv(p)'
  <2>1. Buildable' = Buildable /\ Last(p)' = Last(p) /\ Last(p) \in Nat
    BY <1>3, SameBuildable, Pipelines DEF Last
  <2>2. task'[p] \in {"context", "ready"}
    BY <1>3 DEF to
  <2>3. Context(p)'
    BY <1>1, <1>3, <2>2 DEF Context
  <2>4. Ran(p)'
    <3>1. Len(steps[p]) < Last(p)
      BY <1>3 DEF Ran
    <3>2. IF task'[p] = "context" THEN Len(steps'[p]) = Last(p) ELSE Len(steps'[p]) < Last(p)
      BY <1>3, <1>4, <2>1, <3>1 DEF to
    <3>3. QED
      BY <1>3, <2>1, <2>2, <3>2 DEF Ran
  <2>5. Failed(p)'
    <3>1. \A i \in 1 .. Len(steps[p]) : steps[p][i]
      BY <1>3 DEF Failed
    <3>2. \A i \in 1 .. Len(steps'[p]) : steps'[p][i]
      BY <1>4, <3>1
    <3>3. QED
      BY <1>4, <3>2 DEF Failed
  <2>6. Venv(p)'
    BY <2>2 DEF Venv
  <2>7. QED
    BY <2>3, <2>4, <2>5, <2>6 DEF ProjectInv
<1>7. Serial'
  BY <1>1, <1>2, SerialFrame
<1>8. QED
  BY <1>1, <1>2, <1>5, <1>6, <1>7, StepOf DEF TypeOK

LEMMA StepFailsStep ==
  ASSUME Inv, NEW p \in Projects, StepFails(p)
  PROVE  Inv'
<1> USE DEF Inv
<1>1. /\ Task(p, "running", "done")
      /\ steps' = [steps EXCEPT ![p] = Append(steps[p], FALSE)]
      /\ venv' = venv \/ venv' = [venv EXCEPT ![p] = TRUE]
      /\ UNCHANGED <<ctx, env, savedEnv, copied, childEnv, left>>
  BY DEF StepFails
<1>2. /\ "running" \in Places \ {"queued", "synth", "app"}
      /\ "done" \in Places \ {"running", "app", "synth"}
  BY DEF Places
<1>3. /\ p \in Buildable /\ task[p] = "running" /\ task'[p] = "done" /\ lang[p] \in DOMAIN Pipeline
      /\ task' \in [Projects -> Places]
      /\ \A q \in Projects \ {p} : task'[q] = task[q]
      /\ UNCHANGED <<lang, flag, ctxAtStart, filter, concurrency, runs, phase, exitCode>>
  BY <1>1, <1>2, TaskFacts
<1>4. /\ steps[p] \in Seq(BOOLEAN) /\ steps'[p] = Append(steps[p], FALSE)
      /\ steps'[p] \in Seq(BOOLEAN) /\ Len(steps'[p]) = Len(steps[p]) + 1
      /\ \A i \in 1 .. Len(steps[p]) : steps'[p][i] = steps[p][i]
      /\ ~steps'[p][Len(steps[p]) + 1] /\ Len(steps[p]) \in Nat
  <2>1. steps[p] \in Seq(BOOLEAN) /\ steps'[p] = Append(steps[p], FALSE)
    BY <1>1 DEF TypeOK
  <2>2. /\ Append(steps[p], FALSE) \in Seq(BOOLEAN)
        /\ Len(steps[p]) \in Nat /\ Len(Append(steps[p], FALSE)) = Len(steps[p]) + 1
        /\ \A i \in 1 .. Len(steps[p]) : Append(steps[p], FALSE)[i] = steps[p][i]
    BY <2>1, Appended
  <2>3. ~Append(steps[p], FALSE)[Len(steps[p]) + 1]
    BY <2>1, Appended
  <2>4. QED
    BY <2>1, <2>2, <2>3
<1>5. TypeOK'
  <2>1. venv' \in [Projects -> BOOLEAN]
    BY <1>1 DEF TypeOK
  <2>2. steps' \in [Projects -> Seq(BOOLEAN)]
    BY <1>1, <1>4 DEF TypeOK
  <2>3. QED
    BY <1>1, <1>3, <2>1, <2>2 DEF TypeOK, Places
<1>6. ProjectInv(p)'
  <2>1. Buildable' = Buildable /\ Last(p)' = Last(p) /\ Last(p) \in Nat
    BY <1>3, SameBuildable, Pipelines DEF Last
  <2>2. Context(p)'
    BY <1>1, <1>3 DEF Context
  <2>3. Len(steps[p]) < Last(p)
    BY <1>3 DEF Ran
  <2>4. Len(steps'[p]) \in 1 .. Last(p) /\ ~steps'[p][Len(steps'[p])]
    BY <1>4, <2>1, <2>3
  <2>5. Ran(p)'
    BY <1>3, <2>1, <2>4 DEF Ran
  <2>6. Failed(p)'
    <3>1. \A i \in 1 .. Len(steps[p]) : steps[p][i]
      BY <1>3 DEF Failed
    <3>2. \A i \in 1 .. Len(steps'[p]) - 1 : steps'[p][i]
      BY <1>4, <3>1
    <3>3. QED
      BY <1>3, <3>2 DEF Failed
  <2>7. Venv(p)'
    BY <2>1, <2>4 DEF Venv
  <2>8. QED
    BY <2>2, <2>5, <2>6, <2>7 DEF ProjectInv
<1>7. Serial'
  BY <1>1, <1>2, SerialFrame
<1>8. QED
  BY <1>1, <1>2, <1>5, <1>6, <1>7, StepOf DEF TypeOK

LEMMA PlaceContextStep ==
  ASSUME Inv, NEW p \in Projects, PlaceContext(p)
  PROVE  Inv'
<1> USE DEF Inv
<1>1. /\ Task(p, "context", "config")
      /\ ctx' = [ctx EXCEPT ![p] = IF ctx[p] = "none" THEN "fake" ELSE ctx[p]]
      /\ copied' = [copied EXCEPT ![p] = ctx[p] = "none"]
      /\ UNCHANGED <<venv, env, steps, savedEnv, childEnv, left>>
  BY DEF PlaceContext
<1>2. /\ "context" \in Places \ {"queued", "synth", "app"}
      /\ "config" \in Places \ {"running", "app", "synth"}
  BY DEF Places
<1>3. /\ p \in Buildable /\ task[p] = "context" /\ task'[p] = "config"
      /\ task' \in [Projects -> Places]
      /\ \A q \in Projects \ {p} : task'[q] = task[q]
      /\ UNCHANGED <<lang, flag, ctxAtStart, filter, concurrency, runs, phase, exitCode>>
  BY <1>1, <1>2, TaskFacts
<1>4. TypeOK'
  <2>1. ctx' \in [Projects -> {"none", "user", "fake"}]
    BY <1>1 DEF TypeOK
  <2>2. copied' \in [Projects -> BOOLEAN]
    BY <1>1 DEF TypeOK
  <2>3. QED
    BY <1>1, <1>3, <2>1, <2>2 DEF TypeOK, Places
<1>5. ProjectInv(p)'
  <2>1. Buildable' = Buildable
    BY <1>3, SameBuildable
  <2>2. Context(p)'
    <3>1. ctx[p] = ctxAtStart[p]
      BY <1>3 DEF Context
    <3>2. /\ ctx'[p] = IF ctx[p] = "none" THEN "fake" ELSE ctx[p]
          /\ copied'[p] = (ctx[p] = "none")
      BY <1>1 DEF TypeOK
    <3>3. QED
      BY <1>3, <3>1, <3>2 DEF Context
  <2>3. QED
    BY <1>1, <1>3, <2>1, <2>2 DEF ProjectInv, Ran, Failed, Venv, Last
<1>6. Serial'
  BY <1>1, <1>2, SerialFrame
<1>7. QED
  BY <1>1, <1>2, <1>4, <1>5, <1>6, StepOf DEF TypeOK

\* A synthesis that is given up or has ended: one outcome is added.
LEMMA OutcomeOf ==
  ASSUME Inv, NEW p \in Projects, NEW from \in {"context", "config", "synth", "app"},
         NEW ok \in BOOLEAN, Task(p, from, "unlink"),
         from = "context" => ctx[p] = "none",
         steps' = [steps EXCEPT ![p] = Append(steps[p], ok)],
         env' \in BOOLEAN, UNCHANGED <<ctx, venv, savedEnv, copied, childEnv, left>>
  PROVE  TypeOK' /\ ProjectInv(p)'
<1> USE DEF Inv
<1>1. from \in Places /\ "unlink" \in Places
  BY DEF Places
<1>2. /\ p \in Buildable /\ task[p] = from /\ task'[p] = "unlink" /\ lang[p] \in DOMAIN Pipeline
      /\ task' \in [Projects -> Places]
      /\ UNCHANGED <<lang, flag, ctxAtStart, filter, concurrency, runs, phase, exitCode>>
  BY <1>1, TaskFacts
<1>3. /\ steps[p] \in Seq(BOOLEAN) /\ steps'[p] = Append(steps[p], ok)
      /\ steps'[p] \in Seq(BOOLEAN) /\ Len(steps'[p]) = Len(steps[p]) + 1
      /\ \A i \in 1 .. Len(steps[p]) : steps'[p][i] = steps[p][i]
      /\ Len(steps[p]) \in Nat
  BY Appended DEF TypeOK
<1>4. TypeOK'
  <2>1. steps' \in [Projects -> Seq(BOOLEAN)]
    BY <1>3 DEF TypeOK
  <2>2. QED
    BY <1>2, <2>1 DEF TypeOK, Places
<1>5. Buildable' = Buildable /\ Last(p)' = Last(p) /\ Last(p) \in Nat
  BY <1>2, SameBuildable, Pipelines DEF Last
<1>6. Context(p)'
  BY <1>2 DEF Context
<1>7. Ran(p)'
  <2>1. Len(steps[p]) = Last(p)
    BY <1>2 DEF Ran
  <2>2. QED
    BY <1>2, <1>3, <1>5, <2>1 DEF Ran
<1>8. Failed(p)'
  <2>1. \A i \in 1 .. Len(steps[p]) : steps[p][i]
    BY <1>2 DEF Failed
  <2>2. \A i \in 1 .. Len(steps'[p]) - 1 : steps'[p][i]
    BY <1>3, <2>1
  <2>3. QED
    BY <1>2, <2>2 DEF Failed
<1>9. Venv(p)'
  BY <1>2 DEF Venv
<1>10. QED
  BY <1>4, <1>6, <1>7, <1>8, <1>9 DEF ProjectInv

LEMMA SynthNotStartedStep ==
  ASSUME Inv, NEW p \in Projects, SynthNotStarted(p)
  PROVE  Inv'
<1>1. PICK from \in {"context", "config"} :
        Task(p, from, "unlink") /\ (from = "context" => ctx[p] = "none")
  BY DEF SynthNotStarted
<1>2. /\ steps' = [steps EXCEPT ![p] = Append(steps[p], FALSE)]
      /\ UNCHANGED <<ctx, venv, env, savedEnv, copied, childEnv, left>>
  BY DEF SynthNotStarted
<1>3. /\ from \in Places \ {"queued", "synth", "app"} /\ from # "done"
      /\ "unlink" \in Places \ {"running", "app", "synth"}
  BY DEF Places
<1>4. env' \in BOOLEAN
  BY <1>2 DEF Inv, TypeOK
<1>5. TypeOK' /\ ProjectInv(p)'
  BY <1>1, <1>2, <1>4, OutcomeOf
<1>6. Serial'
  BY <1>1, <1>2, <1>3, SerialFrame
<1>7. QED
  BY <1>1, <1>2, <1>3, <1>5, <1>6, StepOf DEF Inv, TypeOK

LEMMA EnterSynthStep ==
  ASSUME Inv, NEW p \in Projects, EnterSynth(p)
  PROVE  Inv'
<1> USE DEF Inv
<1>1. /\ Task(p, "config", "synth")
      /\ savedEnv' = [savedEnv EXCEPT ![p] = env]
      /\ env' = TRUE
      /\ UNCHANGED <<ctx, venv, steps, copied, childEnv, left>>
  BY DEF EnterSynth
<1>2. "config" \in Places /\ "synth" \in Places
  BY DEF Places
<1>3. /\ p \in Buildable /\ task[p] = "config" /\ task'[p] = "synth"
      /\ task' \in [Projects -> Places]
      /\ \A q \in Projects \ {p} : task'[q] = task[q]
      /\ UNCHANGED <<lang, flag, ctxAtStart, filter, concurrency, runs, phase, exitCode>>
  BY <1>1, <1>2, TaskFacts
<1>4. TypeOK'
  BY <1>1, <1>3 DEF TypeOK, Places
<1>5. ProjectInv(p)'
  <2>1. Buildable' = Buildable
    BY <1>3, SameBuildable
  <2>2. QED
    BY <1>1, <1>3, <2>1 DEF ProjectInv, Context, Ran, Failed, Venv, Last
<1>6. Serial'
  <2> SUFFICES ASSUME concurrency = 1 PROVE Serial'
    BY <1>3 DEF Serial
  <2>1. \A q \in Projects \ {p} : task[q] \in {"queued", "done"}
    BY <1>3, Alone DEF Busy
  <2>2. ~env
    BY <1>3, <2>1 DEF Serial
  <2>3. \A q, r \in Projects : Busy(q)' /\ Busy(r)' => q = r
    BY <1>3, <2>1 DEF Busy
  <2>4. ~savedEnv'[p]
    BY <1>1, <2>2 DEF TypeOK
  <2>5. QED
    BY <1>1, <1>3, <2>1, <2>3, <2>4 DEF Serial
<1>7. QED
  BY <1>1, <1>2, <1>4, <1>5, <1>6, StepOf

LEMMA RunAppStep ==
  ASSUME Inv, NEW p \in Projects, RunApp(p)
  PROVE  Inv'
<1> USE DEF Inv
<1>1. /\ Task(p, "synth", "app")
      /\ childEnv' = [childEnv EXCEPT ![p] = env]
      /\ UNCHANGED <<ctx, venv, env, steps, savedEnv, copied, left>>
  BY DEF RunApp
<1>2. "synth" \in Places /\ "app" \in Places
  BY DEF Places
<1>3. /\ p \in Buildable /\ task[p] = "synth" /\ task'[p] = "app"
      /\ task' \in [Projects -> Places]
      /\ \A q \in Projects \ {p} : task'[q] = task[q]
      /\ UNCHANGED <<lang, flag, ctxAtStart, filter, concurrency, runs, phase, exitCode>>
  BY <1>1, <1>2, TaskFacts
<1>4. TypeOK'
  BY <1>1, <1>3 DEF TypeOK, Places
<1>5. ProjectInv(p)'
  <2>1. Buildable' = Buildable
    BY <1>3, SameBuildable
  <2>2. QED
    BY <1>1, <1>3, <2>1 DEF ProjectInv, Context, Ran, Failed, Venv, Last
<1>6. Serial'
  <2> SUFFICES ASSUME concurrency = 1 PROVE Serial'
    BY <1>3 DEF Serial
  <2>1. \A q \in Projects \ {p} : task[q] \in {"queued", "done"}
    BY <1>3, Alone DEF Busy
  <2>2. env /\ ~savedEnv[p]
    BY <1>3 DEF Serial
  <2>3. \A q, r \in Projects : Busy(q)' /\ Busy(r)' => q = r
    BY <1>3, <2>1 DEF Busy
  <2>4. childEnv'[p]
    BY <1>1, <2>2 DEF TypeOK
  <2>5. QED
    BY <1>1, <1>3, <2>1, <2>2, <2>3, <2>4 DEF Serial
<1>7. QED
  BY <1>1, <1>2, <1>4, <1>5, <1>6, StepOf

LEMMA LeaveSynthStep ==
  ASSUME Inv, NEW p \in Projects, LeaveSynth(p)
  PROVE  Inv'
<1> USE DEF Inv
<1>1. PICK ok \in BOOLEAN :
        /\ Task(p, "app", "unlink") \/ Task(p, "synth", "unlink")
        /\ steps' = [steps EXCEPT ![p] = Append(steps[p], ok)]
  BY DEF LeaveSynth
<1>2. PICK from \in {"synth", "app"} : Task(p, from, "unlink")
  BY <1>1
<1>3. env' = savedEnv[p] /\ UNCHANGED <<ctx, venv, savedEnv, copied, childEnv, left>>
  BY DEF LeaveSynth
<1>4. from \in Places /\ "unlink" \in Places
  BY DEF Places
<1>5. env' \in BOOLEAN
  BY <1>3 DEF TypeOK
<1>6. TypeOK' /\ ProjectInv(p)'
  BY <1>1, <1>2, <1>3, <1>5, OutcomeOf
<1>7. Serial'
  <2>1. /\ task[p] = from /\ task'[p] = "unlink" /\ concurrency' = concurrency
        /\ \A q \in Projects \ {p} : task'[q] = task[q]
    BY <1>2, <1>4, TaskFacts
  <2> SUFFICES ASSUME concurrency = 1 PROVE Serial'
    BY <2>1 DEF Serial
  <2>2. \A q \in Projects \ {p} : task[q] \in {"queued", "done"}
    BY <2>1, Alone DEF Busy
  <2>3. ~env'
    BY <1>3, <2>1 DEF Serial
  <2>4. \A q, r \in Projects : Busy(q)' /\ Busy(r)' => q = r
    BY <2>1, <2>2 DEF Busy
  <2>5. QED
    BY <2>1, <2>2, <2>3, <2>4 DEF Serial
<1>8. QED
  BY <1>1, <1>2, <1>3, <1>4, <1>6, <1>7, StepOf DEF TypeOK

LEMMA UnlinkContextStep ==
  ASSUME Inv, NEW p \in Projects, UnlinkContext(p)
  PROVE  Inv'
<1> USE DEF Inv
<1> DEFINE to == IF lang[p] = "python" THEN "rmvenv" ELSE "done"
<1>1. /\ Task(p, "unlink", to)
      /\ UNCHANGED <<venv, env, steps, savedEnv, copied, childEnv>>
  BY DEF UnlinkContext
<1>2. \/ copied[p] /\ ctx' = [ctx EXCEPT ![p] = "none"] /\ left' = left
      \/ copied[p] /\ left' = [left EXCEPT ![p] = left[p] \cup {"ctx"}] /\ ctx' = ctx
      \/ ~copied[p] /\ ctx' = ctx /\ left' = left
  BY DEF UnlinkContext
<1>3. /\ "unlink" \in Places \ {"queued", "synth", "app"}
      /\ to \in Places \ {"running", "app", "synth"}
      /\ to \in {"rmvenv", "done"} /\ (to = "done" => lang[p] # "python")
  BY DEF Places
<1> HIDE DEF to
<1>4. /\ p \in Buildable /\ task[p] = "unlink" /\ task'[p] = to
      /\ task' \in [Projects -> Places]
      /\ \A q \in Projects \ {p} : task'[q] = task[q]
      /\ UNCHANGED <<lang, flag, ctxAtStart, filter, concurrency, runs, phase, exitCode>>
  BY <1>1, <1>3, TaskFacts
<1>5. /\ ctx' \in [Projects -> {"none", "user", "fake"}]
      /\ left' \in [Projects -> SUBSET {"ctx", "venv"}]
      /\ \A q \in Projects \ {p} : ctx'[q] = ctx[q] /\ left'[q] = left[q]
  <2>1. ctx \in [Projects -> {"none", "user", "fake"}] /\ left \in [Projects -> SUBSET {"ctx", "venv"}]
    BY DEF TypeOK
  <2>2. left[p] \cup {"ctx"} \in SUBSET {"ctx", "venv"}
    BY <2>1
  <2>3. "none" \in {"none", "user", "fake"}
    OBVIOUS
  <2>4. ctx' \in [Projects -> {"none", "user", "fake"}] /\ \A q \in Projects \ {p} : ctx'[q] = ctx[q]
    BY <1>2, <2>1, <2>3
  <2>5. left' \in [Projects -> SUBSET {"ctx", "venv"}] /\ \A q \in Projects \ {p} : left'[q] = left[q]
    BY <1>2, <2>1, <2>2
  <2>6. QED
    BY <2>4, <2>5
<1>6. TypeOK'
  BY <1>1, <1>4, <1>5 DEF TypeOK, Places
<1>7. ProjectInv(p)'
  <2>1. Buildable' = Buildable
    BY <1>4, SameBuildable
  <2>2. Context(p)'
    <3>1. IF copied[p] THEN ctx[p] = "fake" /\ ctxAtStart[p] = "none"
          ELSE ctx[p] = ctxAtStart[p]
      BY <1>4 DEF Context
    <3>2. \/ copied[p] /\ ctx'[p] = "none"
          \/ copied[p] /\ "ctx" \in left'[p] /\ ctx'[p] = ctx[p]
          \/ ~copied[p] /\ ctx'[p] = ctx[p]
      BY <1>2 DEF TypeOK
    <3>3. QED
      BY <1>1, <1>3, <1>4, <3>1, <3>2 DEF Context
  <2>3. Ran(p)'
    BY <1>1, <1>3, <1>4, <2>1 DEF Ran, Last
  <2>4. Failed(p)'
    BY <1>1, <1>3, <1>4 DEF Failed
  <2>5. Venv(p)'
    BY <1>3, <1>4 DEF Venv
  <2>6. QED
    BY <2>2, <2>3, <2>4, <2>5 DEF ProjectInv
<1>8. Serial'
  BY <1>1, <1>3, SerialFrame
<1>9. QED
  BY <1>1, <1>3, <1>5, <1>6, <1>7, <1>8, StepOf

LEMMA RemoveVenvStep ==
  ASSUME Inv, NEW p \in Projects, RemoveVenv(p)
  PROVE  Inv'
<1> USE DEF Inv
<1>1. /\ Task(p, "rmvenv", "done")
      /\ UNCHANGED <<ctx, env, steps, savedEnv, copied, childEnv>>
  BY DEF RemoveVenv
<1>2. \/ venv' = [venv EXCEPT ![p] = FALSE] /\ left' = left
      \/ left' = [left EXCEPT ![p] = left[p] \cup {"venv"}] /\ venv' = venv
  BY DEF RemoveVenv
<1>3. /\ "rmvenv" \in Places \ {"queued", "synth", "app"}
      /\ "done" \in Places \ {"running", "app", "synth"}
  BY DEF Places
<1>4. /\ p \in Buildable /\ task[p] = "rmvenv" /\ task'[p] = "done"
      /\ task' \in [Projects -> Places]
      /\ \A q \in Projects \ {p} : task'[q] = task[q]
      /\ UNCHANGED <<lang, flag, ctxAtStart, filter, concurrency, runs, phase, exitCode>>
  BY <1>1, <1>3, TaskFacts
<1>5. /\ venv' \in [Projects -> BOOLEAN]
      /\ left' \in [Projects -> SUBSET {"ctx", "venv"}]
      /\ \A q \in Projects \ {p} : venv'[q] = venv[q] /\ left'[q] = left[q]
  <2>1. venv \in [Projects -> BOOLEAN] /\ left \in [Projects -> SUBSET {"ctx", "venv"}]
    BY DEF TypeOK
  <2>2. left[p] \cup {"venv"} \in SUBSET {"ctx", "venv"}
    BY <2>1
  <2>3. FALSE \in BOOLEAN
    OBVIOUS
  <2>4. venv' \in [Projects -> BOOLEAN] /\ \A q \in Projects \ {p} : venv'[q] = venv[q]
    BY <1>2, <2>1, <2>3
  <2>5. left' \in [Projects -> SUBSET {"ctx", "venv"}] /\ \A q \in Projects \ {p} : left'[q] = left[q]
    BY <1>2, <2>1, <2>2
  <2>6. QED
    BY <2>4, <2>5
<1>6. TypeOK'
  BY <1>1, <1>4, <1>5 DEF TypeOK, Places
<1>7. ProjectInv(p)'
  <2>1. Buildable' = Buildable
    BY <1>4, SameBuildable
  <2>2. left[p] \subseteq left'[p] /\ ("venv" \in left'[p] \/ ~venv'[p])
    BY <1>2 DEF TypeOK
  <2>3. Context(p)'
    BY <1>1, <1>4, <2>2 DEF Context
  <2>4. Ran(p)'
    BY <1>1, <1>4, <2>1 DEF Ran, Last
  <2>5. Failed(p)'
    BY <1>1, <1>4 DEF Failed
  <2>6. Venv(p)'
    BY <2>2 DEF Venv
  <2>7. QED
    BY <2>3, <2>4, <2>5, <2>6 DEF ProjectInv
<1>8. Serial'
  BY <1>1, <1>3, SerialFrame
<1>9. QED
  BY <1>1, <1>3, <1>5, <1>6, <1>7, <1>8, StepOf

-----------------------------------------------------------------------------
(* The steps of a run.                                                     *)

LEMMA InitInv == ASSUME Init PROVE Inv
<1> USE DEF Init
<1>1. TypeOK
  <2>1. runs \in 1 .. MaxRuns
    BY ToolkitAssumption
  <2>2. << >> \in Seq(BOOLEAN)
    OBVIOUS
  <2>3. QED
    BY <2>1, <2>2 DEF TypeOK
<1>2. \A p \in Projects : Context(p) /\ Ran(p) /\ Failed(p) /\ Venv(p)
  BY DEF Context, Ran, Failed, Venv
<1>3. Ending /\ Serial
  BY DEF Ending, Serial, Busy
<1>4. QED
  BY <1>1, <1>2, <1>3 DEF Inv

\* A run that goes on or ends touches no project.
LEMMA RunFrame ==
  ASSUME Inv,
         UNCHANGED <<tree, ctx, venv, ctxAtStart, options, env, task, steps, savedEnv, copied,
                     childEnv, left>>,
         phase' \in {"discovering", "building"} \cup Ended, exitCode' \in {0, 1}, Ending'
  PROVE  Inv'
<1> USE DEF Inv, tree, options
<1>1. TypeOK'
  BY DEF TypeOK
<1>2. \A p \in Projects : ProjectInv(p)'
  BY Others DEF ProjectInv
<1>3. Serial'
  BY DEF Serial, Busy
<1>4. QED
  BY <1>1, <1>2, <1>3 DEF ProjectInv

LEMMA RunSteps ==
  ASSUME Inv,
         Discover \/ Fatal \/ ReportAndExit \/ Kill \/ \E p \in Projects : SpawnThrows(p)
  PROVE  Inv'
<1> USE DEF Inv
<1>1. UNCHANGED <<tree, ctx, venv, ctxAtStart, options, env, task, steps, savedEnv, copied,
                  childEnv, left>>
  BY DEF Discover, Fatal, ReportAndExit, Kill, SpawnThrows, End
<1>2. Buildable' = Buildable /\ FailedOnes' = FailedOnes
  BY <1>1 DEF FailedOnes, Buildable, Discovered, tree, options
<1>3. \A p \in Projects : task[p] # "queued" => p \in Buildable
  BY DEF Ran
<1>4. CASE Discover
  <2>1. phase' = "building" /\ exitCode' = exitCode
    BY <1>4 DEF Discover
  <2>2. Ending'
    BY <2>1 DEF Ending
  <2>3. QED
    BY <1>1, <2>1, <2>2, RunFrame DEF TypeOK
<1>5. CASE Fatal \/ \E p \in Projects : SpawnThrows(p)
  <2>1. phase' = "fatal" /\ exitCode' = 1
    BY <1>5 DEF Fatal, SpawnThrows, End
  <2>2. Ending'
    BY <2>1 DEF Ending
  <2>3. QED
    BY <1>1, <2>1, <2>2, RunFrame DEF Ended
<1>6. CASE ReportAndExit
  <2>1. /\ \A p \in Buildable : task[p] = "done"
        /\ phase' = "exited" /\ exitCode' = IF FailedOnes # {} THEN 1 ELSE 0
    BY <1>6 DEF ReportAndExit, End
  <2>2. \A p \in Projects : task[p] \in {"queued", "done"}
    BY <1>3, <2>1
  <2>3. Ending'
    BY <1>1, <1>2, <2>1, <2>2 DEF Ending
  <2>4. QED
    BY <1>1, <2>1, <2>3, RunFrame DEF Ended
<1>7. CASE Kill
  <2>1. phase' = "killed" /\ exitCode' = 1
    BY <1>7 DEF Kill, End
  <2>2. Ending'
    BY <2>1 DEF Ending
  <2>3. QED
    BY <1>1, <2>1, <2>2, RunFrame DEF Ended
<1>8. QED
  BY <1>4, <1>5, <1>6, <1>7

LEMMA RerunStep ==
  ASSUME Inv, Rerun
  PROVE  Inv'
<1> USE DEF Inv, Rerun, tree
<1>1. TypeOK'
  <2>1. runs' \in 1 .. MaxRuns
    <3>1. runs \in 1 .. MaxRuns /\ MaxRuns \in Nat
      BY ToolkitAssumption DEF TypeOK
    <3>2. QED
      BY <3>1
  <2>2. << >> \in Seq(BOOLEAN)
    OBVIOUS
  <2>3. QED
    BY <2>1, <2>2 DEF TypeOK
<1>2. \A p \in Projects : (Context(p) /\ Ran(p) /\ Failed(p) /\ Venv(p))'
  BY DEF Context, Ran, Failed, Venv, TypeOK
<1>3. Ending'
  BY DEF Ending
<1>4. Serial'
  BY DEF Serial, Busy
<1>5. QED
  BY <1>1, <1>2, <1>3, <1>4

LEMMA NextInv == ASSUME Inv, [Next]_vars PROVE Inv'
<1>1. CASE UNCHANGED vars
  <2>1. UNCHANGED <<tree, ctx, venv, ctxAtStart, options, env, task, steps, savedEnv, copied,
                    childEnv, left, phase, exitCode>>
    BY <1>1 DEF vars
  <2>2. FailedOnes' = FailedOnes /\ Buildable' = Buildable
    BY <2>1 DEF FailedOnes, Buildable, Discovered, tree, options
  <2>3. Ending'
    BY <2>1, <2>2 DEF Inv, Ending
  <2>4. QED
    BY <2>1, <2>3, RunFrame DEF Inv, TypeOK
<1>2. CASE Discover \/ Fatal \/ ReportAndExit \/ Kill \/ \E p \in Projects : SpawnThrows(p)
  BY <1>2, RunSteps
<1>3. CASE Rerun
  BY <1>3, RerunStep
<1>4. CASE \E p \in Projects : ProjectStep(p)
  BY <1>4, StartTaskStep, RunStepStep, StepSucceedsStep, StepFailsStep, PlaceContextStep,
     SynthNotStartedStep, EnterSynthStep, RunAppStep, LeaveSynthStep, UnlinkContextStep,
     RemoveVenvStep DEF ProjectStep
<1>5. QED
  BY <1>1, <1>2, <1>3, <1>4 DEF Next, Terminated

LEMMA Invariance == Spec => []Inv
<1>1. Init => Inv
  BY InitInv
<1>2. Inv /\ [Next]_vars => Inv'
  BY NextInv
<1>3. QED
  BY <1>1, <1>2, PTL DEF Spec

-----------------------------------------------------------------------------
(* The theorems.                                                           *)

\* The toolkit's variables keep their types: the exit code is 0 or 1, whatever
\* fails, and a task is at one of its places.
THEOREM ToolkitTypeOK == Spec => []TypeOK
<1>1. Inv => TypeOK
  BY DEF Inv
<1>2. QED
  BY <1>1, Invariance, PTL

\* The exit code of a run that ends by itself tells whether a step failed, and
\* every buildable project has been taken as far as its steps allow.
THEOREM ToolkitExitTruthful == Spec => []ExitTruthful
<1>1. ASSUME Inv, phase = "exited" PROVE ExitTruthful
  <2> USE <1>1 DEF Inv
  <2>1. \A p \in Buildable : p \in Projects /\ task[p] = "done"
    BY DEF Ending, Buildable, Discovered
  <2>2. ASSUME NEW p \in Buildable
        PROVE  /\ Passed(p) => Complete(p)
               /\ \A i \in 1 .. Len(steps[p]) - 1 : steps[p][i]
               /\ Passed(p) <=> p \notin FailedOnes
    <3>1. p \in Projects /\ task[p] = "done" /\ Ran(p) /\ Failed(p)
      BY <2>1
    <3>2. steps[p] \in Seq(BOOLEAN) /\ DOMAIN steps[p] = 1 .. Len(steps[p])
      BY <3>1 DEF TypeOK
    <3>3. Len(steps[p]) = Last(p) + 1 \/ ~Passed(p)
      BY <3>1, <3>2 DEF Ran, Passed
    <3>4. Passed(p) <=> p \notin FailedOnes
      BY <3>1, <3>2 DEF Passed, FailedOnes
    <3>5. QED
      BY <3>1, <3>3, <3>4 DEF Failed, Complete, Last
  <2>3. exitCode = 0 <=> FailedOnes = {}
    BY DEF Ending
  <2>4. FailedOnes \subseteq Buildable
    BY DEF FailedOnes
  <2>5. exitCode = 0 <=> \A p \in Buildable : Passed(p)
    BY <2>2, <2>3, <2>4
  <2>6. QED
    BY <2>2, <2>5 DEF ExitTruthful
<1>2. Inv => ExitTruthful
  BY <1>1 DEF ExitTruthful
<1>3. QED
  BY <1>2, Invariance, PTL

\* Wherever a run ends, the context files are as it found them, but for those of
\* projects that it was synthesizing then and for the removals that failed; a run
\* that ends with its report leaves no other, nor a venv of a project it
\* synthesized.
THEOREM ToolkitCleanedUp == Spec => []CleanedUp
<1>1. Inv => ContextRestored
  <2> SUFFICES ASSUME Inv, NEW p \in Projects
               PROVE  \/ ctx[p] = ctxAtStart[p]
                      \/ "ctx" \in left[p]
                      \/ phase # "exited" /\ task[p] \in Synthesizing
    BY DEF ContextRestored
  <2>1. /\ Context(p)
        /\ phase = "exited" => task[p] \in {"queued", "done"}
        /\ task[p] \in {"queued", "ready", "running", "context", "rmvenv", "done"} \cup Synthesizing
    BY DEF Inv, Ending, TypeOK, Synthesizing
  <2>2. QED
    BY <2>1 DEF Context, Synthesizing
<1>2. Inv => VenvRemoved
  <2> SUFFICES ASSUME Inv, NEW p \in Buildable, lang[p] = "python", task[p] = "done", Complete(p)
               PROVE  "venv" \in left[p] \/ ~venv[p]
    BY DEF VenvRemoved
  <2>1. p \in Projects
    BY DEF Buildable, Discovered
  <2>2. QED
    BY <2>1 DEF Inv, Venv, Complete, Last
<1>3. Inv => CleanedUp
  BY <1>1, <1>2 DEF CleanedUp
<1>4. QED
  BY <1>3, Invariance, PTL

\* One task at a time, every child process gets the environment meant for it.
THEOREM ToolkitSerialEnvironment == Spec => []SerialEnvironment
<1>1. Inv => SerialEnvironment
  <2> SUFFICES ASSUME Inv, concurrency = 1
               PROVE  /\ AppEnvironment /\ StepEnvironment
                      /\ env <=> \E p \in Projects : task[p] \in {"synth", "app"}
    BY DEF SerialEnvironment
  <2>1. AppEnvironment /\ StepEnvironment
    BY DEF Inv, Serial, AppEnvironment, StepEnvironment
  <2>2. env <=> \E p \in Projects : task[p] \in {"synth", "app"}
    BY DEF Inv, Serial, TypeOK
  <2>3. QED
    BY <2>1, <2>2
<1>2. QED
  BY <1>1, Invariance, PTL

\* No run ever replaces or removes a context file of the project's own.
THEOREM ToolkitContextKept == Spec => ContextKept
<1>1. ASSUME Inv, [Next]_vars, NEW p \in Projects, ctx[p] = "user" PROVE ctx'[p] = "user"
  <2> USE <1>1 DEF Inv
  <2>1. CASE ctx' = ctx
    BY <2>1
  <2>2. ASSUME NEW q \in Projects, PlaceContext(q) PROVE ctx'[p] = "user"
    <3>1. ctx' = [ctx EXCEPT ![q] = IF ctx[q] = "none" THEN "fake" ELSE ctx[q]]
      BY <2>2 DEF PlaceContext
    <3>2. ctx \in [Projects -> {"none", "user", "fake"}]
      BY DEF TypeOK
    <3>3. CASE q = p
      BY <3>1, <3>2, <3>3
    <3>4. CASE q # p
      BY <3>1, <3>2, <3>4
    <3>5. QED
      BY <3>3, <3>4
  <2>3. ASSUME NEW q \in Projects, UnlinkContext(q) PROVE ctx'[p] = "user"
    <3>1. \/ ctx' = ctx
          \/ copied[q] /\ ctx' = [ctx EXCEPT ![q] = "none"]
      BY <2>3, Zenon DEF UnlinkContext
    <3>2. ~copied[p]
      BY DEF Context
    <3>3. QED
      BY <3>1, <3>2 DEF TypeOK
  <2>4. CASE \/ Discover \/ Fatal \/ ReportAndExit \/ Kill \/ Rerun \/ Terminated \/ UNCHANGED vars
             \/ \E q \in Projects : SpawnThrows(q)
    BY <2>1, <2>4 DEF Discover, Fatal, ReportAndExit, Kill, Rerun, SpawnThrows, Terminated, End,
       vars
  <2>5. ASSUME NEW q \in Projects, ProjectStep(q) PROVE ctx'[p] = "user"
    BY <2>1, <2>2, <2>3, <2>5 DEF ProjectStep, StartTask, RunStep, StepSucceeds, StepFails,
       SynthNotStarted, EnterSynth, RunApp, LeaveSynth, RemoveVenv
  <2>6. QED
    BY <2>4, <2>5 DEF Next
<1>2. Inv /\ [Next]_vars => [\A p \in Projects : ctx[p] = "user" => ctx'[p] = "user"]_vars
  BY <1>1
<1>3. QED
  BY <1>2, Invariance, PTL DEF Spec, ContextKept
=============================================================================
