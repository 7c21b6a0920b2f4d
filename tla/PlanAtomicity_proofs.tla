------------------------ MODULE PlanAtomicity_proofs ------------------------
(***************************************************************************)
(* PlanRunner implements AtomicPlans, for any number of projects, edits    *)
(* and runs.                                                               *)
(***************************************************************************)
EXTENDS PlanAtomicity, PlanRunner_proofs

\* What applyTextUpdates has compared stays as it was read, and nothing is
\* edited late before a plan is applied.
Compared ==
  /\ step = "write" => \A f \in Updates(cur) : saved[cur][f] = plan[cur].before[f]
  /\ phase = "scanning" => late = {}

\* The updater while it has come to the plan of p.
LEMMA ApplyFacts ==
  ASSUME Inv, NEW p \in Projects, Apply(p)
  PROVE  /\ phase = "executing" /\ phase' = phase /\ cur = p
         /\ UNCHANGED <<mode, plan, edits, late>>
         /\ result[p] = "none"
         /\ step # "next" => Applies(p)
<1>1. /\ phase = "executing" /\ phase' = phase /\ cur = p
      /\ UNCHANGED <<mode, plan, edits, late>>
  BY DEF Apply, PassOver, Preflight, ReadGoFiles, ReadFails, WriteFile, WriteFails, GoCommand,
         GoCommandFails, options, history, At
<1>2. QED
  BY <1>1, UpdaterAssumption DEF Inv, Stage, Projects

LEMMA ComparedStep ==
  Inv /\ Compared /\ [Next]_vars => Compared'
<1> SUFFICES ASSUME Inv, Compared, [Next]_vars PROVE Compared'
  OBVIOUS
<1> USE DEF Inv
<1>a. saved \in [Projects -> [Files -> Content]]
  BY DEF TypeOK
<1>1. ASSUME NEW p \in Projects, Apply(p) PROVE Compared'
  <2>1. phase' = "executing" /\ cur = p /\ plan' = plan
    BY <1>1, ApplyFacts
  <2>2. CASE Preflight(p)
    BY <2>1, <2>2, <1>a DEF Preflight, Go, Report, Compared, Updates
  <2>3. CASE step' # "write"
    BY <2>1, <2>3 DEF Compared
  <2>4. CASE step' = "write" /\ ~Preflight(p)
    <3>1. WriteFile(p)
      BY <1>1, <2>4 DEF Apply, PassOver, ReadGoFiles, ReadFails, WriteFails, GoCommand,
                        GoCommandFails, Recover, Report, Go
    <3>2. step = "write" /\ saved' = saved /\ cur' = cur
      BY <3>1, <2>4 DEF WriteFile, Report, Go, At
    <3>3. QED
      BY <2>1, <3>2 DEF Compared, Updates
  <2>5. QED
    BY <2>2, <2>3, <2>4
<1>2. ASSUME NEW p \in Projects, NEW f \in Files, Restore(p, f) PROVE Compared'
  <2>1. UNCHANGED <<phase, plan, saved, late>>
    BY <1>2 DEF Restore, Restored, RestoreFails, history
  <2>2. (step' = step /\ cur' = cur) \/ step' = "next"
    BY <1>2 DEF Restore, Restored, RestoreFails, Settle, Report
  <2>3. QED
    BY <2>1, <2>2 DEF Compared, Updates
<1>3. ASSUME NEW p \in Projects, NEW f \in Files, Edit(p, f) PROVE Compared'
  <2>1. UNCHANGED <<phase, plan, saved, step, cur>>
    BY <1>3 DEF Edit
  <2>2. phase = "scanning" => ~Begun(p)
    BY UpdaterAssumption DEF Stage, Begun, Projects
  <2>3. QED
    BY <1>3, <2>1, <2>2 DEF Edit, Compared, Updates
<1>4. ASSUME NEW p \in Projects, Scan(p) PROVE Compared'
  BY <1>4 DEF Scan, Compared, Stage, history
<1>5. CASE ScanFails \/ ExecutePlans \/ Exit \/ Kill \/ UNCHANGED vars
  BY <1>5 DEF ScanFails, ExecutePlans, Exit, Kill, vars, history, Compared, Updates
<1>6. CASE Rerun
  BY <1>6 DEF Rerun, Compared
<1>7. QED
  BY <1>1, <1>2, <1>3, <1>4, <1>5, <1>6 DEF Next, Updater, Terminated

-----------------------------------------------------------------------------

\* A plan that is applied is one the promise is about.
LEMMA AppliedSeen ==
  ASSUME Inv, NEW p \in Projects, Applies(p)
  PROVE  p \in Plans!Applied
<1>1. dueSeen[p] = IF Kind[p] = "go" THEN Files ELSE Updates(p)
  BY DEF Applies, dueSeen
<1>2. Kind[p] # "go" => Kind[p] = "text"
  BY UpdaterAssumption
<1>3. dueSeen[p] # {}
  BY <1>1, <1>2 DEF Inv, Stage, Applies, Files
<1>4. QED
  BY <1>3 DEF Plans!Applied, Applies

\* A step that reports nothing and leaves the files of every plan as they are
\* seen, but for plans that are spoiled.
LEMMA SpoilSteps ==
  ASSUME Inv, NEW S \in SUBSET Projects, \A p \in S : Applies(p),
         UNCHANGED <<mode, edits, plan, result>>,
         spoiledSeen' = spoiledSeen \cup S,
         \A q \in Projects \ spoiledSeen' : treeSeen'[q] = treeSeen[q]
  PROVE  Plans!Next
<1>1. S \subseteq Plans!Applied
  BY AppliedSeen
<1>2. dueSeen' = dueSeen /\ beforeSeen' = beforeSeen
  BY DEF dueSeen, beforeSeen, Updates
<1>3. Plans!Spoil
  BY <1>1, <1>2 DEF Plans!Spoil, Plans!Spoils
<1>4. QED
  BY <1>3 DEF Plans!Next

\* One that answers for p.
LEMMA AnswerSteps ==
  ASSUME Inv, NEW p \in Projects, NEW status \in Plans!Statuses, NEW S \in SUBSET {p},
         \A q \in S : Applies(q),
         result[p] = "none", result' = [result EXCEPT ![p] = status],
         mode = "write" => status # "would-update",
         UNCHANGED <<mode, edits, plan>>,
         spoiledSeen' = spoiledSeen \cup S,
         \A q \in Projects \ spoiledSeen' : treeSeen'[q] = treeSeen[q]
  PROVE  Plans!Next
<1>1. S \subseteq Plans!Applied
  BY AppliedSeen
<1>2. dueSeen' = dueSeen /\ beforeSeen' = beforeSeen
  BY DEF dueSeen, beforeSeen, Updates
<1>3. Plans!Leaves(p, treeSeen[p])
  BY DEF Plans!Leaves
<1>4. Plans!Answer(p, status)
  BY <1>1, <1>2, <1>3 DEF Plans!Answer, Plans!Spoils, Plans!Statuses
<1>5. QED
  BY <1>4 DEF Plans!Next

LEMMA ApplyElsewhere ==
  ASSUME Inv, NEW p \in Projects, NEW q \in Projects \ {p}, Apply(p)
  PROVE  file'[q] = file[q] /\ (cur' # q \/ step' = "next")
<1>1. file'[q] = file[q]
  BY OtherPlans DEF Inv
<1>2. cur = p /\ (cur' = cur \/ step' = "next")
  BY DEF Apply, PassOver, Preflight, ReadGoFiles, ReadFails, WriteFile, WriteFails, GoCommand,
         GoCommandFails, Recover, Report, Go, At
<1>3. QED
  BY <1>1, <1>2

\* What Apply(p) does to the others, as seen from outside.
LEMMA OthersSeen ==
  ASSUME Inv, NEW p \in Projects, Apply(p)
  PROVE  /\ \E S \in SUBSET {p} : /\ \A q \in S : Applies(q)
                                 /\ spoiledSeen' = spoiledSeen \cup S
         /\ \A q \in Projects \ {p} : treeSeen'[q] = treeSeen[q]
<1>a. /\ phase = "executing" /\ phase' = phase /\ cur = p
      /\ UNCHANGED <<mode, plan, edits, late>>
      /\ step # "next" => Applies(p)
  BY ApplyFacts
<1>b. damaged \subseteq damaged' /\ damaged' \subseteq damaged \cup {p}
  BY DEF Apply, PassOver, Preflight, ReadGoFiles, ReadFails, WriteFile, WriteFails, GoCommand,
         GoCommandFails, history
<1>c. damaged' # damaged => step # "next"
  BY DEF Apply, PassOver, Preflight, ReadGoFiles, ReadFails, WriteFile, WriteFails, GoCommand,
         GoCommandFails, history, At
<1>1. spoiledSeen' = spoiledSeen \cup (damaged' \ damaged)
  BY <1>a, <1>b DEF spoiledSeen, Applies, Inv, TypeOK
<1>2. (damaged' \ damaged) \in SUBSET {p} /\ \A q \in damaged' \ damaged : Applies(q)
  BY <1>a, <1>b, <1>c
<1>3. ASSUME NEW q \in Projects \ {p} PROVE treeSeen'[q] = treeSeen[q]
  <2>1. file'[q] = file[q] /\ (cur' # q \/ step' = "next")
    BY <1>a, ApplyElsewhere
  <2>2. QED
    BY <1>a, <2>1 DEF treeSeen, InHand
<1>4. QED
  BY <1>1, <1>2, <1>3

\* What is left to be shown of Apply(p): its own files, if nothing spoils them.
LEMMA OwnSpoil ==
  ASSUME Inv, NEW p \in Projects, Apply(p), result' = result,
         p \notin spoiledSeen' => treeSeen'[p] = treeSeen[p]
  PROVE  Plans!Next
<1>1. UNCHANGED <<mode, plan, edits>>
  BY ApplyFacts
<1>2. \A q \in Projects \ spoiledSeen' : treeSeen'[q] = treeSeen[q]
  BY OthersSeen
<1>3. PICK S \in SUBSET {p} : (\A q \in S : Applies(q)) /\ spoiledSeen' = spoiledSeen \cup S
  BY OthersSeen
<1>4. QED
  BY <1>1, <1>2, <1>3, SpoilSteps

LEMMA OwnAnswer ==
  ASSUME Inv, NEW p \in Projects, Apply(p), NEW status \in Plans!Statuses,
         Report(p, status), mode = "write" => status # "would-update",
         p \notin spoiledSeen' => treeSeen'[p] = treeSeen[p]
  PROVE  Plans!Next
<1>1. UNCHANGED <<mode, plan, edits>> /\ result[p] = "none"
  BY ApplyFacts
<1>2. \A q \in Projects \ spoiledSeen' : treeSeen'[q] = treeSeen[q]
  BY OthersSeen
<1>3. PICK S \in SUBSET {p} : (\A q \in S : Applies(q)) /\ spoiledSeen' = spoiledSeen \cup S
  BY OthersSeen
<1>4. QED
  BY <1>1, <1>2, <1>3, AnswerSteps DEF Report

\* The files of a plan that nothing has spoiled are as UnderWay says.
LEMMA Unspoiled ==
  ASSUME Inv, Application, NEW p \in Projects, Apply(p), step # "next", p \notin spoiledSeen
  PROVE  UnderWay(p) /\ Untouched(p) = Files
<1>1. phase = "executing" /\ cur = p /\ Applies(p)
  BY ApplyFacts
<1>2. p \notin damaged /\ Untouched(p) = Files
  BY <1>1 DEF spoiledSeen, Untouched
<1>3. QED
  BY <1>1, <1>2 DEF Application

LEMMA SeenBefore ==
  ASSUME Inv, NEW p \in Projects, Apply(p)
  PROVE  /\ treeSeen[p] = IF step # "next" THEN saved[p] ELSE file[p]
         /\ treeSeen'[p] = IF cur' = p /\ step' # "next" THEN saved'[p] ELSE file'[p]
BY ApplyFacts DEF treeSeen, InHand

LEMMA ReportEnds ==
  ASSUME Inv, NEW p \in Projects, NEW status, Apply(p), Report(p, status)
  PROVE  treeSeen'[p] = file'[p]
BY SeenBefore DEF Report

LEMMA ErrorStatus ==
  "error" \in Plans!Statuses
BY DEF Plans!Statuses

\* Nothing is written before the first file is, and nothing is told.
LEMMA PassOverSeen ==
  ASSUME Inv, NEW p \in Projects, PassOver(p)
  PROVE  Plans!Next
<1>1. Apply(p)
  BY DEF Apply
<1>2. step = "next" /\ file' = file /\ phase = "executing" /\ result[p] = "none"
  BY <1>1, ApplyFacts DEF PassOver, At
<1>3. treeSeen'[p] = treeSeen[p]
  BY <1>1, <1>2, SeenBefore, ReportEnds DEF PassOver
<1>4. CASE plan[p].status = "skipped"
  <2>1. result' = result
    BY <1>2, <1>4 DEF PassOver, Report, Inv, TypeOK
  <2>2. QED
    BY <1>1, <1>3, <2>1, OwnSpoil
<1>5. CASE plan[p].status # "skipped"
  <2>1. plan[p].status \in Plans!Statuses
    BY <1>2, <1>5 DEF Inv, Stage, TypeOK, PlanStatus, Plans!Statuses
  <2>2. Report(p, plan[p].status)
    BY <1>5 DEF PassOver
  <2>3. mode = "write" => plan[p].status # "would-update"
    BY DEF PassOver, Applies
  <2>4. QED
    BY <1>1, <1>3, <2>1, <2>2, <2>3, OwnAnswer
<1>6. QED
  BY <1>4, <1>5

\* The application of a plan begins with the files as they are.
LEMMA BeginSeen ==
  ASSUME Inv, NEW p \in Projects, Preflight(p) \/ ReadGoFiles(p) \/ ReadFails(p)
  PROVE  Plans!Next
<1>1. Apply(p)
  BY DEF Apply
<1>2. step = "next" /\ file' = file /\ saved'[p] = file[p]
  BY DEF Preflight, ReadGoFiles, ReadFails, At, Inv, TypeOK
<1>3. treeSeen'[p] = treeSeen[p]
  BY <1>1, <1>2, SeenBefore
<1>4. CASE Report(p, "error")
  BY <1>1, <1>3, <1>4, OwnAnswer, ErrorStatus
<1>5. CASE ~Report(p, "error")
  <2>1. result' = result
    BY <1>5 DEF Preflight, ReadGoFiles, ReadFails, Go
  <2>2. QED
    BY <1>1, <1>3, <2>1, OwnSpoil
<1>6. QED
  BY <1>4, <1>5

\* The last write of a text plan shows all of its writes at once.
LEMMA WriteSeen ==
  ASSUME Inv, Application, Compared, NEW p \in Projects, WriteFile(p)
  PROVE  Plans!Next
<1> USE DEF Inv
<1>1. Apply(p)
  BY DEF Apply
<1>2. /\ step = "write" /\ saved' = saved /\ Kind[p] = "text" /\ cur = p
      /\ Applies(p) /\ result[p] = "none" /\ UNCHANGED <<mode, plan, edits>>
      /\ damaged' = damaged /\ Updates(p) \ written # {}
  BY <1>1, ApplyFacts DEF WriteFile, At, Stage, history
<1>3. treeSeen[p] = saved[p]
  BY <1>1, <1>2, SeenBefore
<1>4. CASE Updates(p) # written \cup {ToWrite(p)}
  <2>1. Go("write")
    BY <1>4 DEF WriteFile
  <2>2. treeSeen'[p] = saved[p] /\ result' = result
    BY <1>1, <1>2, <2>1, SeenBefore DEF Go
  <2>3. QED
    BY <1>1, <1>3, <2>2, OwnSpoil
<1>5. CASE Updates(p) = written \cup {ToWrite(p)}
  <2>1. Report(p, "updated")
    BY <1>5 DEF WriteFile
  <2>2. treeSeen'[p] = file'[p]
    BY <1>1, <2>1, ReportEnds
  <2>3. dueSeen[p] = Updates(p) /\ Updates(p) \subseteq Files
    BY <1>2 DEF dueSeen, Applies, Updates, OldFiles
  <2>4. \A f \in Updates(p) : saved[p][f] = plan[p].before[f]
    BY <1>2 DEF Compared
  <2>5. /\ saved[p] \in [Files -> Content] /\ file[p] \in [Files -> Content]
        /\ \A f \in Files :
             file'[p][f] = IF f = ToWrite(p) THEN After(p, f) ELSE file[p][f]
        /\ file'[p] \in [Files -> Content]
    <3>1. ToWrite(p) \in Files
      BY <1>2, ToWriteRemains
    <3>2. After(p, ToWrite(p)) \in Content
      BY <3>1, ContentTypes
    <3>3. QED
      BY <3>1, <3>2 DEF TypeOK, WriteFile
  <2>6. ASSUME p \notin spoiledSeen
        PROVE  file'[p] = [f \in Files |-> IF f \in dueSeen[p]
                                          THEN [saved[p][f] EXCEPT !.ver = "new"]
                                          ELSE saved[p][f]]
    <3>1. \A f \in Files : file[p][f] = IF f \in written THEN After(p, f) ELSE saved[p][f]
      BY <1>1, <1>2, <2>6, Unspoiled DEF UnderWay
    <3>2. \A f \in Files :
            file'[p][f] = IF f \in Updates(p) THEN After(p, f) ELSE saved[p][f]
      BY <1>5, <2>5, <3>1
    <3>3. ASSUME NEW f \in Files
          PROVE  file'[p][f] = IF f \in dueSeen[p] THEN [saved[p][f] EXCEPT !.ver = "new"]
                                                   ELSE saved[p][f]
      <4>1. CASE f \in Updates(p)
        BY <2>3, <2>4, <3>2, <4>1 DEF After
      <4>2. CASE f \notin Updates(p)
        BY <2>3, <2>5, <3>2, <4>2 DEF Content
      <4>3. QED
        BY <4>1, <4>2
    <3>4. QED
      BY <2>5, <3>3
  <2>7. \E c \in Plans!Updated(p) : Plans!Leaves(p, c)
    <3> DEFINE c == [f \in Files |-> IF f \in dueSeen[p]
                                    THEN [treeSeen[p][f] EXCEPT !.ver = "new"]
                                    ELSE treeSeen[p][f]]
    <3>1. c \in Plans!Updated(p)
      BY <1>2 DEF Plans!Updated, Files, Plans!Files
    <3>2. spoiledSeen \subseteq spoiledSeen'
      BY <1>1, OthersSeen
    <3>3. \A q \in Projects \ spoiledSeen' :
            treeSeen'[q] = IF q = p THEN c ELSE treeSeen[q]
      BY <1>1, <1>3, <2>2, <2>6, <3>2, OthersSeen
    <3>4. QED
      BY <3>1, <3>3 DEF Plans!Leaves
  <2>8. spoiledSeen' = spoiledSeen
    BY <1>2, ApplyFacts, <1>1 DEF spoiledSeen, Applies
  <2>9. p \in Plans!Applied
    BY <1>2, AppliedSeen
  <2>10. \A f \in dueSeen[p] : treeSeen[p][f] = beforeSeen[p][f]
    BY <1>3, <2>3, <2>4 DEF beforeSeen
  <2>11. dueSeen' = dueSeen /\ beforeSeen' = beforeSeen
    BY <1>2 DEF dueSeen, beforeSeen, Updates
  <2>12. Plans!Update(p)
    BY <1>2, <2>1, <2>7, <2>8, <2>9, <2>10, <2>11 DEF Plans!Update, Report
  <2>13. QED
    BY <2>12 DEF Plans!Next
<1>6. QED
  BY <1>4, <1>5

\* A text plan whose write fails is seen as it was, or is spoiled.
LEMMA WriteFailsSeen ==
  ASSUME Inv, Application, NEW p \in Projects, WriteFails(p)
  PROVE  Plans!Next
<1> USE DEF Inv
<1>1. Apply(p)
  BY DEF Apply
<1>2. step = "write" /\ saved' = saved /\ cur = p
  BY DEF WriteFails, At
<1>3. treeSeen[p] = saved[p]
  BY <1>1, <1>2, SeenBefore
<1>4. CASE written # {}
  <2>1. Go("restore")
    BY <1>4 DEF WriteFails, Recover
  <2>2. treeSeen'[p] = saved[p] /\ result' = result
    BY <1>1, <1>2, <2>1, SeenBefore DEF Go
  <2>3. QED
    BY <1>1, <1>3, <2>2, OwnSpoil
<1>5. CASE written = {}
  <2>1. Report(p, "error")
    BY <1>5 DEF WriteFails, Recover
  <2>2. ASSUME p \notin spoiledSeen' PROVE treeSeen'[p] = treeSeen[p]
    <3>1. p \notin spoiledSeen
      BY <1>1, <2>2, OthersSeen
    <3>2. p \notin damaged'
      BY <2>2 DEF spoiledSeen
    <3>3. file' = file
      BY <3>2 DEF WriteFails
    <3>4. \A f \in Files : file[p][f] = saved[p][f]
      BY <1>1, <1>2, <1>5, <3>1, Unspoiled DEF UnderWay
    <3>5. file[p] = saved[p]
      BY <3>4 DEF TypeOK
    <3>6. QED
      BY <1>1, <1>3, <2>1, <3>3, <3>5, ReportEnds
  <2>3. QED
    BY <1>1, <2>1, <2>2, OwnAnswer, ErrorStatus
<1>6. QED
  BY <1>4, <1>5

\* The end of `go mod tidy' shows what both commands have changed.
LEMMA GoSeen ==
  ASSUME Inv, Application, NEW p \in Projects, GoCommand(p)
  PROVE  Plans!Next
<1> USE DEF Inv
<1>1. Apply(p)
  BY DEF Apply
<1>2. PICK s \in {"get", "tidy"}, r \in GoResolves :
        /\ At(p, s)
        /\ file' = [file EXCEPT ![p] = Ran(s, @, r)]
        /\ IF s = "get" THEN Go("tidy") ELSE Report(p, "updated")
        /\ UNCHANGED <<edits, options, phase, exitCode, plan, saved, written, restoring, history>>
  BY DEF GoCommand
<1>3. step = s /\ cur = p /\ saved' = saved /\ Applies(p) /\ result[p] = "none"
      /\ Kind[p] = "go" /\ UNCHANGED <<mode, plan, edits, damaged>>
  BY <1>1, <1>2, ApplyFacts DEF At, Stage, history
<1>4. treeSeen[p] = saved[p]
  BY <1>1, <1>3, SeenBefore
<1>5. CASE s = "get"
  <2>1. treeSeen'[p] = saved[p] /\ result' = result
    BY <1>1, <1>2, <1>3, <1>5, SeenBefore DEF Go
  <2>2. QED
    BY <1>1, <1>4, <2>1, OwnSpoil
<1>6. CASE s = "tidy"
  <2>1. Report(p, "updated") /\ file'[p] = Ran(s, file[p], r)
    BY <1>2, <1>6 DEF TypeOK
  <2>2. treeSeen'[p] = file'[p]
    BY <1>1, <2>1, ReportEnds
  <2>3. file[p] \in [Files -> Content] /\ saved[p] \in [Files -> Content]
    BY DEF TypeOK
  <2>4. ASSUME p \notin spoiledSeen
        PROVE  \E v \in GoResolves : file'[p] = [saved[p] EXCEPT ![1].ver = v, ![2].ver = "new"]
    <3>1. /\ \A f \in Files : file[p][f].text = saved[p][f].text
          /\ file[p][1].ver \in GoResolves
      BY <1>1, <1>3, <1>6, <2>4, Unspoiled DEF UnderWay, Files
    <3>2. file'[p] = [file[p] EXCEPT ![2].ver = "new"]
      BY <1>6, <2>1 DEF Ran
    <3> DEFINE c == [saved[p] EXCEPT ![1].ver = file[p][1].ver, ![2].ver = "new"]
    <3>3. file'[p][1] = c[1] /\ file'[p][2] = c[2]
      BY <2>3, <3>1, <3>2 DEF Files, Content
    <3>4. c \in [Files -> Content] /\ file'[p] \in [Files -> Content]
      BY <2>3, <3>2 DEF Files, Content, Versions
    <3>5. file'[p] = c
      BY <3>3, <3>4 DEF Files
    <3>6. QED
      BY <3>1, <3>5
  <2>5. \E c \in Plans!Updated(p) : Plans!Leaves(p, c)
    <3>1. spoiledSeen \subseteq spoiledSeen'
      BY <1>1, OthersSeen
    <3>2. PICK v \in GoResolves :
            p \notin spoiledSeen => file'[p] = [saved[p] EXCEPT ![1].ver = v, ![2].ver = "new"]
      BY <1>2, <2>4
    <3> DEFINE c == [treeSeen[p] EXCEPT ![1].ver = v, ![2].ver = "new"]
    <3>3. c \in Plans!Updated(p)
      BY <1>3 DEF Plans!Updated
    <3>4. \A q \in Projects \ spoiledSeen' :
            treeSeen'[q] = IF q = p THEN c ELSE treeSeen[q]
      BY <1>1, <1>4, <2>2, <3>1, <3>2, OthersSeen
    <3>5. QED
      BY <3>3, <3>4 DEF Plans!Leaves
  <2>6. spoiledSeen' = spoiledSeen
    BY <1>1, <1>3, ApplyFacts DEF spoiledSeen, Applies
  <2>7. p \in Plans!Applied
    BY <1>3, AppliedSeen
  <2>8. dueSeen' = dueSeen /\ beforeSeen' = beforeSeen
    BY <1>3 DEF dueSeen, beforeSeen, Updates
  <2>9. Plans!Update(p)
    BY <1>3, <2>1, <2>5, <2>6, <2>7, <2>8 DEF Plans!Update, Report
  <2>10. QED
    BY <2>9 DEF Plans!Next
<1>7. QED
  BY <1>5, <1>6

LEMMA GoFailsSeen ==
  ASSUME Inv, NEW p \in Projects, GoCommandFails(p)
  PROVE  Plans!Next
<1>1. Apply(p)
  BY DEF Apply
<1>2. step # "next" /\ saved' = saved /\ cur = p /\ Go("restore")
  BY DEF GoCommandFails, At, Recover, Files
<1>3. treeSeen'[p] = treeSeen[p] /\ result' = result
  BY <1>1, <1>2, SeenBefore DEF Go
<1>4. QED
  BY <1>1, <1>3, OwnSpoil

-----------------------------------------------------------------------------

\* A restoration: the last one of a plan shows that nothing was changed, and
\* one that outlives the result of its plan is of a spoiled plan.
LEMMA RestoreFacts ==
  ASSUME Inv, NEW p \in Projects, NEW f \in Files, Restore(p, f)
  PROVE  /\ UNCHANGED <<mode, edits, phase, plan, saved, late>>
         /\ Applies(p)
         /\ cur # p => p \in damaged
         /\ cur = p => step = "restore"
         /\ (result' = result /\ step' = step /\ cur' = cur) \/ (At(p, "restore") /\ Report(p, "error"))
         /\ \A q \in Projects \ {p} : file'[q] = file[q]
         /\ damaged' \in {damaged, damaged \cup {p}}
<1>1. /\ UNCHANGED <<mode, edits, phase, plan, saved, late>>
      /\ damaged' \in {damaged, damaged \cup {p}}
      /\ <<p, f>> \in restoring
  BY DEF Restore, Restored, RestoreFails, history, options
<1>2. Applies(p) /\ (cur # p => p \in damaged) /\ (cur = p => step = "restore")
  BY <1>1, UpdaterAssumption DEF Inv, Restoring, TypeOK, Projects
<1>3. (result' = result /\ step' = step /\ cur' = cur) \/ (At(p, "restore") /\ Report(p, "error"))
  BY DEF Restore, Restored, RestoreFails, Settle
<1>4. \A q \in Projects \ {p} : file'[q] = file[q]
  BY DEF Restore, Restored, RestoreFails, Inv, TypeOK
<1>5. QED
  BY <1>1, <1>2, <1>3, <1>4

LEMMA RestoreSeen ==
  ASSUME Inv, Application, NEW p \in Projects, NEW f \in Files, Restore(p, f)
  PROVE  Plans!Next
<1> USE DEF Inv
<1> DEFINE S == damaged' \ damaged
<1>a. /\ UNCHANGED <<mode, edits, phase, plan, saved, late>>
      /\ Applies(p)
      /\ cur # p => p \in damaged
      /\ cur = p => step = "restore"
      /\ (result' = result /\ step' = step /\ cur' = cur) \/ (At(p, "restore") /\ Report(p, "error"))
      /\ \A q \in Projects \ {p} : file'[q] = file[q]
      /\ damaged' \in {damaged, damaged \cup {p}}
  BY RestoreFacts
<1>b. S \subseteq {p} /\ \A q \in S : Applies(q)
  BY <1>a
<1>c. spoiledSeen' = spoiledSeen \cup S
  <2>1. phase = "killed" => UNCHANGED <<cur, step>>
    BY <1>a DEF At
  <2>2. QED
    BY <1>a, <2>1 DEF spoiledSeen, Applies, InHand, TypeOK
<1>d. \A q \in Projects \ {p} : treeSeen'[q] = treeSeen[q]
  <2>1. ASSUME NEW q \in Projects \ {p} PROVE treeSeen'[q] = treeSeen[q]
    <3>1. CASE step' = step /\ cur' = cur
      BY <1>a, <3>1 DEF treeSeen, InHand
    <3>2. CASE At(p, "restore") /\ Report(p, "error")
      BY <1>a, <3>2 DEF treeSeen, InHand, At, Report
    <3>3. QED
      BY <1>a, <3>1, <3>2
  <2>2. QED
    BY <2>1
<1>1. CASE result' = result /\ step' = step /\ cur' = cur
  <2>1. ASSUME p \notin spoiledSeen' PROVE treeSeen'[p] = treeSeen[p]
    <3>1. cur = p /\ step = "restore" /\ phase # "killed"
      BY <1>1, <1>a, <2>1 DEF spoiledSeen, InHand
    <3>2. phase = "executing"
      BY <3>1 DEF Stage, TypeOK, Ended
    <3>3. QED
      BY <1>1, <1>a, <3>1, <3>2 DEF treeSeen, InHand
  <2>2. \A q \in Projects \ spoiledSeen' : treeSeen'[q] = treeSeen[q]
    BY <1>d, <2>1
  <2>3. QED
    BY <1>1, <1>a, <1>b, <1>c, <2>2, SpoilSteps
<1>2. CASE At(p, "restore") /\ Report(p, "error")
  <2>1. phase = "executing" /\ cur = p /\ step = "restore" /\ result[p] = "none"
    BY <1>2, UpdaterAssumption DEF At, Stage, Projects
  <2>2. treeSeen[p] = saved[p] /\ treeSeen'[p] = file'[p]
    BY <1>2, <1>a, <2>1 DEF treeSeen, InHand, Report
  <2>3. ASSUME p \notin spoiledSeen' PROVE file'[p] = saved[p]
    <3>1. p \notin damaged /\ p \notin damaged' /\ Untouched(p) = Files
      BY <1>a, <1>c, <2>3 DEF spoiledSeen, Untouched
    <3>2. Restored(p, f)
      BY <3>1 DEF Restore, RestoreFails
    <3>3. {g \in Files : <<p, g>> \in restoring} = {f}
      <4>1. step' # step
        BY <1>2, <2>1 DEF Report
      <4>2. QED
        BY <3>2, <4>1 DEF Restored, Settle
    <3>4. \A g \in Files : <<p, g>> \notin restoring => file[p][g] = saved[p][g]
      BY <1>a, <2>1, <3>1 DEF Application, UnderWay
    <3>5. \A g \in Files : file'[p][g] = saved[p][g]
      BY <3>2, <3>3, <3>4 DEF Restored, TypeOK
    <3>6. saved[p] \in [Files -> Content] /\ file'[p] \in [Files -> Content]
      BY <3>2 DEF Restored, TypeOK
    <3>7. QED
      BY <3>5, <3>6
  <2>4. \A q \in Projects \ spoiledSeen' : treeSeen'[q] = treeSeen[q]
    BY <1>d, <2>2, <2>3
  <2>5. result' = [result EXCEPT ![p] = "error"]
    BY <1>2 DEF Report
  <2>6. QED
    BY <1>a, <1>b, <1>c, <2>1, <2>4, <2>5, AnswerSteps, ErrorStatus
<1>3. QED
  BY <1>a, <1>1, <1>2

\* A kill spoils the plan in hand and one with a restoration under way.
LEMMA KillSeen ==
  ASSUME Inv, Kill
  PROVE  Plans!Next
<1> USE DEF Inv
<1> DEFINE S == (damaged' \ damaged) \cup {p \in Projects : InHand(p)}
<1>1. /\ UNCHANGED <<mode, edits, plan, result, cur, step, late>> /\ phase' = "killed"
      /\ damaged \subseteq damaged'
  BY DEF Kill, options
<1>2. ASSUME NEW p \in damaged' \ damaged PROVE p \in Projects /\ Applies(p)
  <2>1. PICK w \in Writing : damaged' = damaged \cup {w[1]}
    BY <1>2 DEF Kill
  <2>2. w[1] = p
    BY <1>2, <2>1
  <2>3. CASE w \in restoring
    BY <2>2, <2>3 DEF Restoring, TypeOK
  <2>4. CASE w \in Projects \X Files /\ At(w[1], "write")
    BY <2>2, <2>4 DEF At, Stage
  <2>5. QED
    BY <2>1, <2>3, <2>4 DEF Writing
<1>3. \A p \in Projects : InHand(p) => Applies(p)
  BY DEF InHand, Stage
<1>4. S \in SUBSET Projects /\ \A p \in S : Applies(p)
  BY <1>2, <1>3
<1>5. spoiledSeen' = spoiledSeen \cup S
  <2>1. \A p \in Projects : Applies(p)' <=> Applies(p)
    BY <1>1 DEF Applies
  <2>2. \A p \in Projects : InHand(p)' <=> InHand(p)
    BY <1>1 DEF InHand
  <2>3. \A p \in Projects : p \in spoiledSeen' <=> p \in spoiledSeen \cup S
    BY <1>1, <2>1, <2>2 DEF spoiledSeen
  <2>4. spoiledSeen \subseteq Projects /\ spoiledSeen' \subseteq Projects
    BY DEF spoiledSeen
  <2>5. QED
    BY <1>4, <2>3, <2>4
<1>6. ASSUME NEW p \in Projects \ spoiledSeen' PROVE treeSeen'[p] = treeSeen[p]
  <2>1. ~InHand(p) /\ p \notin damaged'
    BY <1>1, <1>6 DEF spoiledSeen, InHand
  <2>2. file'[p] = file[p]
    BY <2>1 DEF Kill, TypeOK
  <2>3. QED
    BY <1>1, <2>1, <2>2 DEF treeSeen, InHand
<1>7. QED
  BY <1>1, <1>4, <1>5, <1>6, SpoilSteps

LEMMA RerunSeen ==
  ASSUME Inv, Inv', Rerun
  PROVE  Plans!Next
<1> USE DEF Inv
<1>1. treeSeen = [p \in Projects |-> file[p]] /\ treeSeen' = [p \in Projects |-> file[p]]
  <2>1. phase # "executing" /\ phase' # "executing" /\ file' = file
    BY DEF Rerun, Ended
  <2>2. QED
    BY <2>1 DEF treeSeen
<1>2. dueSeen' = [p \in Projects |-> {}] /\ beforeSeen' = [p \in Projects |-> file[p]]
  BY DEF Rerun, dueSeen, beforeSeen
<1>3. spoiledSeen' = {}
  BY DEF Rerun, spoiledSeen
<1>4. mode' \in Modes /\ edits' = edits /\ result' = [p \in Projects |-> "none"]
  BY DEF Rerun
<1>5. Plans!Restart
  BY <1>1, <1>2, <1>3, <1>4 DEF Plans!Restart
<1>6. QED
  BY <1>5 DEF Plans!Next

LEMMA EditSeen ==
  ASSUME Inv, NEW p \in Projects, NEW f \in Files, Edit(p, f)
  PROVE  Plans!Next
<1> USE DEF Inv
<1> DEFINE S == IF Applies(p) /\ Begun(p) THEN {p} ELSE {}
<1>1. /\ UNCHANGED <<mode, plan, result, phase, cur, step, saved, damaged>>
      /\ edits' = edits + 1
      /\ \A q \in Projects \ {p} : file'[q] = file[q]
      /\ late' = IF Begun(p) THEN late \cup {<<p, f>>} ELSE late
  BY DEF Edit, options, TypeOK
<1>2. spoiledSeen' = spoiledSeen \cup S
  BY <1>1 DEF spoiledSeen, Applies, InHand
<1>3. S \in SUBSET {p} /\ S \subseteq Plans!Applied
  BY AppliedSeen
<1>4. \A q \in Projects \ (spoiledSeen' \cup {p}) : treeSeen'[q] = treeSeen[q]
  BY <1>1 DEF treeSeen, InHand
<1>5. dueSeen' = dueSeen /\ beforeSeen' = beforeSeen
  BY <1>1 DEF dueSeen, beforeSeen, Updates
<1>6. Plans!Edit(p)
  BY <1>1, <1>2, <1>3, <1>4, <1>5 DEF Plans!Edit, Plans!Spoils
<1>7. QED
  BY <1>6 DEF Plans!Next

\* A scan makes a plan of the files as they are.
LEMMA ScanSeen ==
  ASSUME Inv, Compared, NEW p \in Projects, Scan(p)
  PROVE  Plans!Next
<1> USE DEF Inv
<1>1. /\ phase = "scanning" /\ step = "next" /\ late = {} /\ plan[p].status = "unscanned"
      /\ UNCHANGED <<mode, edits, file, phase, cur, step, saved, late, damaged, result>>
  BY DEF Scan, Stage, Compared, options, history
<1>2. /\ treeSeen' = treeSeen /\ treeSeen[p] = file[p]
      /\ spoiledSeen' = spoiledSeen
  BY <1>1 DEF treeSeen, spoiledSeen, InHand
<1>3. /\ plan' = [plan EXCEPT ![p] = plan'[p]]
      /\ plan'[p].before = file[p]
      /\ plan'[p].status = IF Kind[p] = "go" THEN GoStatus(file[p]) ELSE TextStatus(file[p])
  BY DEF Scan, TypeOK
<1>4. beforeSeen' = [beforeSeen EXCEPT ![p] = treeSeen[p]]
  BY <1>2, <1>3 DEF beforeSeen, TypeOK
<1>5. dueSeen[p] = {} /\ dueSeen'[p] \in {{}, Plans!OutOfDate(p)}
  BY <1>1, <1>2, <1>3 DEF dueSeen, Plans!OutOfDate, Updates, OldFiles, Files, Plans!Files
<1>6. \A q \in Projects \ {p} : dueSeen'[q] = dueSeen[q]
  <2>1. \A q \in Projects \ {p} : plan'[q] = plan[q]
    BY <1>3 DEF TypeOK
  <2>2. QED
    BY <2>1 DEF dueSeen, Updates
<1>7. dueSeen' = [dueSeen EXCEPT ![p] = dueSeen'[p]]
  BY <1>6 DEF dueSeen
<1>8. Plans!Plan(p)
  BY <1>1, <1>2, <1>4, <1>5, <1>7 DEF Plans!Plan
<1>9. QED
  BY <1>8 DEF Plans!Next

\* Steps of the process that no plan sees.
LEMMA QuietSteps ==
  ASSUME Inv, ScanFails \/ ExecutePlans \/ Exit \/ UNCHANGED vars
  PROVE  UNCHANGED Plans!vars
<1> USE DEF Inv
<1>1. UNCHANGED <<mode, edits, plan, result, cur, step, late, damaged, file, saved>>
  BY DEF ScanFails, ExecutePlans, Exit, vars, options, history
<1>2. \/ phase' = phase
      \/ step = "next" /\ phase # "killed" /\ phase' # "killed"
  <2>1. CASE ScanFails \/ ExecutePlans
    BY <2>1 DEF ScanFails, ExecutePlans, Stage
  <2>2. CASE Exit
    <3>1. cur \notin Projects
      BY <2>2, UpdaterAssumption DEF Exit, TypeOK, Projects
    <3>2. QED
      BY <2>2, <3>1 DEF Exit, Stage
  <2>3. QED
    BY <2>1, <2>2 DEF vars
<1>3. treeSeen' = treeSeen /\ spoiledSeen' = spoiledSeen
  BY <1>1, <1>2 DEF treeSeen, spoiledSeen, InHand, Applies
<1>4. dueSeen' = dueSeen /\ beforeSeen' = beforeSeen
  BY <1>1 DEF dueSeen, beforeSeen, Updates
<1>5. QED
  BY <1>1, <1>3, <1>4 DEF Plans!vars

LEMMA InitSeen ==
  Init => Plans!Init
<1> SUFFICES ASSUME Init PROVE Plans!Init
  OBVIOUS
<1>1. dueSeen = [p \in Projects |-> {}] /\ spoiledSeen = {}
  BY DEF Init, dueSeen, spoiledSeen
<1>2. beforeSeen = treeSeen
  BY DEF Init, beforeSeen, treeSeen
<1>3. QED
  BY <1>1, <1>2 DEF Init, Plans!Init

LEMMA StepSeen ==
  Inv /\ Inv' /\ Application /\ Compared /\ [Next]_vars => [Plans!Next]_Plans!vars
<1> SUFFICES ASSUME Inv, Inv', Application, Compared, [Next]_vars
             PROVE  [Plans!Next]_Plans!vars
  OBVIOUS
<1>1. ASSUME NEW p \in Projects, Apply(p) PROVE Plans!Next
  BY <1>1, PassOverSeen, BeginSeen, WriteSeen, WriteFailsSeen, GoSeen, GoFailsSeen DEF Apply
<1>2. ASSUME NEW p \in Projects, NEW f \in Files, Restore(p, f) \/ Edit(p, f) PROVE Plans!Next
  BY <1>2, RestoreSeen, EditSeen
<1>3. ASSUME NEW p \in Projects, Scan(p) PROVE Plans!Next
  BY <1>3, ScanSeen
<1>4. CASE Kill \/ Rerun
  BY <1>4, KillSeen, RerunSeen
<1>5. CASE ScanFails \/ ExecutePlans \/ Exit \/ UNCHANGED vars
  BY <1>5, QuietSteps
<1>6. QED
  BY <1>1, <1>2, <1>3, <1>4, <1>5 DEF Next, Updater, Terminated

\* Seen from outside, a plan is applied in one step, to what the scan has read,
\* or not at all, and its files change no more once its result is told: the
\* updater implements AtomicPlans through every failure, roll-back, kill, edit
\* by somebody else and later run.
THEOREM UpdaterAtomic ==
  Spec => Atomic
<1>1. Init => Compared
  BY DEF Init, Compared
<1>2. Inv /\ Compared /\ [Next]_vars => Compared'
  BY ComparedStep
<1>3. QED
  BY <1>1, <1>2, InitSeen, StepSeen, Invariance, PTL DEF Spec, Atomic, Plans!Spec
=============================================================================
