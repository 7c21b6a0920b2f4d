-------------------------- MODULE PlanRunner_proofs --------------------------
(***************************************************************************)
(* Proofs about the dependency updater, for any number of projects, edits  *)
(* and runs.                                                               *)
(***************************************************************************)
EXTENDS PlanRunner, TLAPS

Stale(p) == Kind[p] = "text" /\ \E f \in Updates(p) : <<p, f>> \in early

\* Where the application of a plan can be, and of which plan.
Stage ==
  /\ phase = "scanning" => step = "next" /\ cur = 1
  /\ phase = "exited" => step = "next"
  /\ phase = "executing" => \A p \in Projects : plan[p].status # "unscanned"
  /\ \A p \in Projects :
       /\ result[p] # "none" => p < cur
       /\ Kind[p] = "text" /\ plan[p].status = "would-update" => Updates(p) # {}
  /\ step # "next" => cur \in Projects /\ Applies(cur)
  /\ step = "write" =>
       Kind[cur] = "text" /\ written \subseteq Updates(cur) /\ Updates(cur) \ written # {}
  /\ step \in {"get", "tidy"} => Kind[cur] = "go"

\* Who can have a restoration under way: the current plan, while it waits for
\* it, and plans behind it whose other restoration failed.
Restoring ==
  \A p \in Projects, f \in Files :
    <<p, f>> \in restoring =>
      /\ Applies(p)
      /\ \/ cur = p /\ step = "restore"
         \/ cur > p /\ p \in damaged

\* No text is younger than the last edit.
Texts ==
  \A p \in Projects, f \in Files :
    /\ file[p][f].text <= edits
    /\ saved[p][f].text <= edits
    /\ plan[p].before[f].text <= edits

\* What an edit between the scan and the application of a plan does: the file
\* differs from what was scanned, so the plan is never begun.
Staleness ==
  \A p \in Projects :
    /\ plan[p].status = "unscanned" => \A f \in Files : <<p, f>> \notin early
    /\ ~Begun(p) =>
         \A f \in Files : <<p, f>> \in early => file[p][f].text > plan[p].before[f].text
    /\ Stale(p) =>
         /\ result[p] # "updated"
         /\ ~(cur = p /\ step # "next")
         /\ \A f \in Files : <<p, f>> \notin restoring

Inv == TypeOK /\ Stage /\ Restoring /\ Texts /\ Staleness

-----------------------------------------------------------------------------

\* The file that applyTextUpdates writes next is one of those not yet written.
LEMMA ToWriteRemains ==
  ASSUME NEW p \in Projects, Updates(p) \ written # {}
  PROVE  ToWrite(p) \in Updates(p) \ written /\ ToWrite(p) \in Files
<1> DEFINE S == Updates(p) \ written
<1>1. S \subseteq {1, 2}
  BY DEF Updates, OldFiles, Files
<1>2. \E f \in S : \A g \in S : f <= g
  BY <1>1
<1>3. QED
  BY <1>1, <1>2 DEF ToWrite, Files

LEMMA InitInv ==
  Init => Inv
<1> SUFFICES ASSUME Init PROVE Inv
  OBVIOUS
<1> USE UpdaterAssumption
<1>1. Originals \subseteq Content
  BY DEF Originals, Content
<1>2. file \in [Projects -> [Files -> Content]]
  BY <1>1 DEF Init
<1>3. plan \in [Projects -> [status : PlanStatus, before : [Files -> Content]]]
  BY <1>2 DEF Init, PlanStatus
<1>4. TypeOK
  BY <1>2, <1>3 DEF Init, TypeOK, Projects
<1>5. Stage /\ Restoring
  BY DEF Init, Stage, Restoring, Projects
<1>6. Texts /\ Staleness
  BY DEF Init, Texts, Staleness, Originals, Stale
<1>7. QED
  BY <1>4, <1>5, <1>6 DEF Inv

-----------------------------------------------------------------------------
(* TypeOK is preserved.                                                    *)

LEMMA FileTypes ==
  ASSUME TypeOK, NEW p \in Projects, NEW f \in Files, NEW c \in Content
  PROVE  [file EXCEPT ![p][f] = c] \in [Projects -> [Files -> Content]]
BY DEF TypeOK

LEMMA ContentTypes ==
  ASSUME TypeOK
  PROVE  /\ Torn \in Content
         /\ \A p \in Projects, f \in Files : After(p, f) \in Content
         /\ \A p \in Projects, s \in {"get", "tidy"}, r \in GoResolves :
              Ran(s, file[p], r) \in [Files -> Content]
<1> USE UpdaterAssumption
<1>1. Torn \in Content
  BY DEF Torn, Content, Versions
<1>2. ASSUME NEW p \in Projects, NEW f \in Files
      PROVE  After(p, f) \in Content
  <2>1. plan[p].before[f] \in Content
    BY DEF TypeOK
  <2>2. QED
    BY <2>1 DEF After, Content, Versions
<1>3. ASSUME NEW p \in Projects, NEW s \in {"get", "tidy"}, NEW r \in GoResolves
      PROVE  Ran(s, file[p], r) \in [Files -> Content]
  <2>1. file[p] \in [Files -> Content]
    BY DEF TypeOK
  <2>2. QED
    BY <2>1 DEF Ran, Content, Versions, Files
<1>4. QED
  BY <1>1, <1>2, <1>3

\* Where executePlans is after Report, or at another step of the same plan.
PlaceTyped ==
  /\ result \in [Projects -> {"none", "updated", "up-to-date", "would-update",
                              "manual-migration-required", "error"}]
  /\ cur \in 1 .. NumProjects + 1
  /\ step \in {"next", "write", "get", "tidy", "restore"}

LEMMA PlaceTypes ==
  ASSUME TypeOK, NEW p \in Projects, cur = p,
         \/ Report(p, "error") \/ Report(p, "updated")
         \/ \E s \in {"write", "get", "tidy", "restore"} : Go(s)
         \/ UNCHANGED <<result, cur, step>>
  PROVE  PlaceTyped'
BY UpdaterAssumption DEF TypeOK, PlaceTyped, Report, Go, Projects

LEMMA TypeStep ==
  Inv /\ [Next]_vars => TypeOK'
<1> SUFFICES ASSUME Inv, [Next]_vars PROVE TypeOK'
  OBVIOUS
<1> USE UpdaterAssumption, ContentTypes DEF Inv
<1>1. ASSUME NEW p \in Projects, Scan(p) PROVE TypeOK'
  BY <1>1 DEF Scan, TypeOK, options, history, TextStatus, GoStatus, PlanStatus
<1>2. CASE ScanFails
  BY <1>2 DEF ScanFails, TypeOK, options, history, Ended
<1>3. CASE ExecutePlans
  BY <1>3 DEF ExecutePlans, TypeOK, options, history
<1>4. CASE Exit
  BY <1>4 DEF Exit, TypeOK, options, history, Ended
<1>5. ASSUME NEW p \in Projects, PassOver(p) PROVE TypeOK'
  <2>1. plan[p].status \in PlanStatus \ {"unscanned"}
    BY <1>5 DEF PassOver, At, Stage, TypeOK
  <2>2. QED
    BY <1>5, <2>1 DEF PassOver, TypeOK, options, history, At, Report, Projects, PlanStatus
<1>6. ASSUME NEW p \in Projects, Preflight(p) PROVE TypeOK'
  BY <1>6 DEF Preflight, TypeOK, options, history, At, Report, Go, Projects
<1>7. ASSUME NEW p \in Projects, ReadGoFiles(p) PROVE TypeOK'
  BY <1>7 DEF ReadGoFiles, TypeOK, options, history, At, Go
<1>8. ASSUME NEW p \in Projects, ReadFails(p) PROVE TypeOK'
  BY <1>8 DEF ReadFails, TypeOK, options, history, At, Report, Projects
<1>9. ASSUME NEW p \in Projects, WriteFile(p) PROVE TypeOK'
  <2>1. ToWrite(p) \in Files
    BY <1>9, ToWriteRemains DEF WriteFile, At, Stage
  <2>2. file' \in [Projects -> [Files -> Content]]
    BY <1>9, <2>1 DEF WriteFile, TypeOK
  <2>3. PlaceTyped'
    BY <1>9, PlaceTypes DEF WriteFile, At
  <2>4. QED
    BY <1>9, <2>1, <2>2, <2>3 DEF WriteFile, TypeOK, PlaceTyped, options, history
<1>10. ASSUME NEW p \in Projects, WriteFails(p) PROVE TypeOK'
  <2>1. ToWrite(p) \in Files
    BY <1>10, ToWriteRemains DEF WriteFails, At, Stage
  <2>2. file' \in [Projects -> [Files -> Content]]
    <3>1. CASE file' = file
      BY <3>1 DEF TypeOK
    <3>2. CASE file' = [file EXCEPT ![p][ToWrite(p)] = Torn]
      BY <3>2, <2>1, FileTypes
    <3>3. QED
      BY <1>10, <3>1, <3>2 DEF WriteFails
  <2>3. PlaceTyped'
    BY <1>10, PlaceTypes DEF WriteFails, Recover, At
  <2>4. restoring' \subseteq Projects \X Files
    BY <1>10 DEF WriteFails, Recover, TypeOK
  <2>5. QED
    BY <1>10, <2>2, <2>3, <2>4 DEF WriteFails, TypeOK, PlaceTyped, options
<1>11. ASSUME NEW p \in Projects, GoCommand(p) PROVE TypeOK'
  <2>1. file' \in [Projects -> [Files -> Content]]
    BY <1>11 DEF GoCommand, TypeOK
  <2>2. QED
    BY <1>11, <2>1 DEF GoCommand, TypeOK, options, history, At, Report, Go, Projects
<1>12. ASSUME NEW p \in Projects, GoCommandFails(p) PROVE TypeOK'
  <2>1. file' \in [Projects -> [Files -> Content]]
    BY <1>12 DEF GoCommandFails, TypeOK
  <2>2. PlaceTyped'
    BY <1>12, PlaceTypes DEF GoCommandFails, Recover, At
  <2>3. restoring' \subseteq Projects \X Files
    BY <1>12 DEF GoCommandFails, Recover, TypeOK
  <2>4. QED
    BY <1>12, <2>1, <2>2, <2>3 DEF GoCommandFails, TypeOK, PlaceTyped, options, history
<1>13. ASSUME NEW p \in Projects, NEW f \in Files, Restored(p, f) PROVE TypeOK'
  BY <1>13 DEF Restored, Settle, TypeOK, options, history, At, Report, Projects
<1>14. ASSUME NEW p \in Projects, NEW f \in Files, RestoreFails(p, f) PROVE TypeOK'
  <2>1. file' \in [Projects -> [Files -> Content]]
    <3>1. CASE file' = file
      BY <3>1 DEF TypeOK
    <3>2. CASE file' = [file EXCEPT ![p][f] = Torn]
      BY <3>2, FileTypes
    <3>3. QED
      BY <1>14, <3>1, <3>2 DEF RestoreFails
  <2>2. PlaceTyped'
    BY <1>14, PlaceTypes DEF RestoreFails, At, PlaceTyped, TypeOK
  <2>3. restoring' \subseteq Projects \X Files
    BY <1>14 DEF RestoreFails, TypeOK
  <2>4. QED
    BY <1>14, <2>1, <2>2, <2>3 DEF RestoreFails, TypeOK, PlaceTyped, options
<1>15. CASE Kill
  <2>1. \A w \in Writing : w \in Projects \X Files
    BY ToWriteRemains DEF Writing, TypeOK
  <2>2. file' \in [Projects -> [Files -> Content]]
    <3>1. CASE file' = file
      BY <3>1 DEF TypeOK
    <3>2. ASSUME NEW w \in Writing, file' = [file EXCEPT ![w[1]][w[2]] = Torn]
          PROVE  file' \in [Projects -> [Files -> Content]]
      <4>1. w[1] \in Projects /\ w[2] \in Files
        BY <2>1
      <4>2. QED
        BY <3>2, <4>1, FileTypes
    <3>3. QED
      BY <1>15, <3>1, <3>2 DEF Kill
  <2>3. QED
    BY ZenonT(40), <1>15, <2>1, <2>2 DEF Kill, TypeOK, options, history, Ended
<1>16. CASE Rerun
  BY <1>16 DEF Rerun, TypeOK, options, history, PlanStatus, Projects
<1>17. ASSUME NEW p \in Projects, NEW f \in Files, Edit(p, f) PROVE TypeOK'
  <2>1. ASSUME NEW v \in EditVersions
        PROVE  [text |-> edits + 1, ver |-> v] \in Content
    BY <1>17 DEF Edit, Content, Versions, TypeOK
  <2>2. QED
    BY <1>17, <2>1 DEF Edit, TypeOK, options, history
<1>18. CASE UNCHANGED vars
  BY <1>18 DEF vars, TypeOK, options, history
<1>19. QED
  BY <1>1, <1>2, <1>3, <1>4, <1>5, <1>6, <1>7, <1>8, <1>9, <1>10, <1>11, <1>12, <1>13, <1>14,
     <1>15, <1>16, <1>17, <1>18
     DEF Next, Updater, Apply, Restore, Terminated

-----------------------------------------------------------------------------
(* Stage is preserved.                                                     *)

LEMMA StageStep ==
  Inv /\ [Next]_vars => Stage'
<1> SUFFICES ASSUME Inv, [Next]_vars PROVE Stage'
  OBVIOUS
<1> USE UpdaterAssumption DEF Inv
<1>1. ASSUME NEW p \in Projects, Scan(p) PROVE Stage'
  <2>1. ASSUME NEW q \in Projects
        PROVE  (Kind[q] = "text" /\ plan[q].status = "would-update" => Updates(q) # {})'
    BY <1>1 DEF Scan, Stage, TypeOK, Updates, TextStatus
  <2>2. QED
    BY <1>1, <2>1 DEF Scan, Stage, TypeOK
<1>2. CASE ScanFails
  BY <1>2 DEF ScanFails, Stage, Applies, Updates, options
<1>3. CASE ExecutePlans
  BY <1>3 DEF ExecutePlans, Stage, Applies, Updates, options
<1>4. CASE Exit
  <2>1. step = "next"
    BY <1>4 DEF Exit, Stage, Projects, TypeOK
  <2>2. QED
    BY <1>4, <2>1 DEF Exit, Stage, Updates, options
<1>5. ASSUME NEW p \in Projects, PassOver(p) PROVE Stage'
  BY <1>5 DEF PassOver, At, Report, Stage, TypeOK, Projects, Updates, options
<1>6. ASSUME NEW p \in Projects, Preflight(p) PROVE Stage'
  <2>1. Updates(p) # {} /\ Updates(p)' = Updates(p) /\ Applies(p)' /\ written' = {}
    BY <1>6 DEF Preflight, Applies, Updates, Stage, options
  <2>2. CASE Go("write")
    BY <1>6, <2>1, <2>2 DEF Preflight, At, Go, Stage, TypeOK, Updates
  <2>3. CASE Report(p, "error")
    BY <1>6, <2>3 DEF Preflight, At, Report, Stage, TypeOK, Projects, Updates
  <2>4. QED
    BY <1>6, <2>2, <2>3 DEF Preflight
<1>7. ASSUME NEW p \in Projects, ReadGoFiles(p) PROVE Stage'
  BY <1>7 DEF ReadGoFiles, At, Go, Stage, TypeOK, Projects, Applies, Updates, options
<1>8. ASSUME NEW p \in Projects, ReadFails(p) PROVE Stage'
  BY <1>8 DEF ReadFails, At, Report, Stage, TypeOK, Projects, Updates, options
<1>9. ASSUME NEW p \in Projects, WriteFile(p) PROVE Stage'
  <2>1. ToWrite(p) \in Updates(p) \ written
    BY <1>9, ToWriteRemains DEF WriteFile, At, Stage
  <2>2. QED
    BY <1>9, <2>1 DEF WriteFile, At, Report, Go, Stage, TypeOK, Projects, Applies, Updates,
                      options
<1>10. ASSUME NEW p \in Projects, WriteFails(p) PROVE Stage'
  BY <1>10 DEF WriteFails, Recover, At, Report, Go, Stage, TypeOK, Projects, Applies, Updates,
               options
<1>11. ASSUME NEW p \in Projects, GoCommand(p) PROVE Stage'
  BY <1>11 DEF GoCommand, At, Report, Go, Stage, TypeOK, Projects, Applies, Updates, options
<1>12. ASSUME NEW p \in Projects, GoCommandFails(p) PROVE Stage'
  BY <1>12 DEF GoCommandFails, Recover, At, Report, Go, Stage, TypeOK, Projects, Applies,
               Updates, options
<1>13. ASSUME NEW p \in Projects, NEW f \in Files, Restored(p, f) PROVE Stage'
  BY <1>13 DEF Restored, Settle, At, Report, Stage, TypeOK, Projects, Applies, Updates, options
<1>14. ASSUME NEW p \in Projects, NEW f \in Files, RestoreFails(p, f) PROVE Stage'
  BY <1>14 DEF RestoreFails, At, Report, Stage, TypeOK, Projects, Applies, Updates, options
<1>15. CASE Kill
  BY <1>15 DEF Kill, Stage, Applies, Updates, options
<1>16. CASE Rerun
  BY <1>16 DEF Rerun, Stage, Projects
<1>17. ASSUME NEW p \in Projects, NEW f \in Files, Edit(p, f) PROVE Stage'
  BY <1>17 DEF Edit, Stage, Applies, Updates, options
<1>18. CASE UNCHANGED vars
  BY <1>18 DEF vars, Stage, Applies, Updates, options
<1>19. QED
  BY <1>1, <1>2, <1>3, <1>4, <1>5, <1>6, <1>7, <1>8, <1>9, <1>10, <1>11, <1>12, <1>13, <1>14,
     <1>15, <1>16, <1>17, <1>18
     DEF Next, Updater, Apply, Restore, Terminated

-----------------------------------------------------------------------------
(* Restoring is preserved.                                                 *)

LEMMA RestoringStep ==
  Inv /\ [Next]_vars => Restoring'
<1> SUFFICES ASSUME Inv, [Next]_vars PROVE Restoring'
  OBVIOUS
<1> USE UpdaterAssumption DEF Inv
<1>0. ASSUME NEW p \in Projects, Scan(p) PROVE Restoring'
  BY <1>0 DEF Scan, Stage, Restoring, Projects
<1>1. CASE \/ ScanFails \/ ExecutePlans \/ Exit \/ UNCHANGED vars
           \/ \E p \in Projects, f \in Files : Edit(p, f)
  BY <1>1 DEF ScanFails, ExecutePlans, Exit, Edit, vars, options, history, Restoring, Applies
<1>2. CASE Kill \/ Rerun
  BY <1>2 DEF Kill, Rerun, Restoring
<1>3. ASSUME NEW p \in Projects,
             \/ PassOver(p) \/ Preflight(p) \/ ReadGoFiles(p) \/ ReadFails(p)
             \/ WriteFile(p) \/ GoCommand(p)
      PROVE  Restoring'
  <2>1. /\ cur = p /\ step # "restore" /\ restoring' = restoring
        /\ UNCHANGED <<mode, damaged, plan>>
    BY <1>3 DEF PassOver, Preflight, ReadGoFiles, ReadFails, WriteFile, GoCommand, At,
                options, history
  <2>2. cur' \in {cur, cur + 1}
    BY <1>3 DEF PassOver, Preflight, ReadGoFiles, ReadFails, WriteFile, GoCommand, Report, Go
  <2>3. QED
    BY <2>1, <2>2 DEF Restoring, Projects, TypeOK, Applies
<1>4. ASSUME NEW p \in Projects, WriteFails(p) \/ GoCommandFails(p)
      PROVE  Restoring'
  <2>1. /\ cur = p /\ step # "restore" /\ step # "next"
        /\ damaged \subseteq damaged' /\ mode' = mode /\ plan' = plan
    BY <1>4 DEF WriteFails, GoCommandFails, At, options, history
  <2>2. PICK fs \in SUBSET Files : Recover(p, fs)
    BY <1>4 DEF WriteFails, GoCommandFails, TypeOK
  <2>3. QED
    BY <2>1, <2>2 DEF Recover, Report, Go, Restoring, Projects, TypeOK, Stage, Applies
<1>5. ASSUME NEW p \in Projects, NEW f \in Files, Restored(p, f) PROVE Restoring'
  BY <1>5 DEF Restored, Settle, At, Report, options, history, Restoring, Projects, TypeOK,
              Applies
<1>6. ASSUME NEW p \in Projects, NEW f \in Files, RestoreFails(p, f) PROVE Restoring'
  BY <1>6 DEF RestoreFails, At, Report, options, Restoring, Projects, TypeOK, Applies
<1>7. QED
  BY <1>0, <1>1, <1>2, <1>3, <1>4, <1>5, <1>6 DEF Next, Updater, Apply, Restore, Terminated

-----------------------------------------------------------------------------
(* What a step can do to a file.                                           *)

\* The updater has the files of the project in hand.
Busy(p) == (cur = p /\ step # "next") \/ \E g \in Files : <<p, g>> \in restoring

LEMMA BusyFacts ==
  ASSUME Inv, NEW p \in Projects, Busy(p)
  PROVE  mode = "write" /\ Applies(p) /\ Begun(p) /\ (p \in damaged \/ cur = p)
BY DEF Inv, Stage, Restoring, Busy, Begun, Applies

\* A file stays as it is; or the updater, which has it in hand, cuts it short,
\* or writes another version into its text or into one that it has read; or
\* somebody else writes the next text into it.
LEMMA FileSteps ==
  ASSUME Inv, [Next]_vars, NEW p \in Projects, NEW f \in Files
  PROVE  \/ file'[p][f] = file[p][f]
         \/ /\ Busy(p) /\ edits' = edits
            /\ file'[p][f].text \in {0, file[p][f].text, plan[p].before[f].text,
                                     saved[p][f].text}
         \/ /\ edits' = edits + 1 /\ file'[p][f].text = edits + 1
            /\ plan[p].status # "unscanned" =>
                 <<p, f>> \in IF Begun(p) THEN late' ELSE early'
<1> DEFINE Goal == \/ file'[p][f] = file[p][f]
                   \/ /\ Busy(p) /\ edits' = edits
                      /\ file'[p][f].text \in {0, file[p][f].text, plan[p].before[f].text,
                                               saved[p][f].text}
                   \/ /\ edits' = edits + 1 /\ file'[p][f].text = edits + 1
                      /\ plan[p].status # "unscanned" =>
                           <<p, f>> \in IF Begun(p) THEN late' ELSE early'
<1> SUFFICES Goal
  OBVIOUS
<1>a. file \in [Projects -> [Files -> Content]] /\ restoring \subseteq Projects \X Files
  BY DEF Inv, TypeOK
<1>1. CASE file' = file
  BY <1>1
<1>2. ASSUME NEW q \in Projects, WriteFile(q) PROVE Goal
  BY <1>2, <1>a DEF WriteFile, At, After, Busy
<1>3. ASSUME NEW q \in Projects, WriteFails(q) PROVE Goal
  BY <1>3, <1>a DEF WriteFails, At, Torn, Busy
<1>4. ASSUME NEW q \in Projects, GoCommand(q) \/ GoCommandFails(q) PROVE Goal
  <2>1. PICK s \in {"get", "tidy"}, r \in GoResolves :
          /\ At(q, s) /\ edits' = edits
          /\ \A z \in Projects, h \in Files :
               \/ file'[z][h] = file[z][h]
               \/ z = q /\ file'[z][h] = Ran(s, file[q], r)[h]
    <3>1. CASE GoCommandFails(q)
      BY <3>1, <1>a DEF GoCommandFails
    <3>2. CASE GoCommand(q)
      BY <3>2, <1>a DEF GoCommand
    <3>3. QED
      BY <1>4, <3>1, <3>2
  <2>2. Ran(s, file[q], r)[f].text = file[q][f].text
    BY <1>a DEF Ran, Files, Content
  <2>3. QED
    BY <2>1, <2>2, <1>a DEF At, Busy
<1>5. ASSUME NEW q \in Projects, NEW g \in Files, Restore(q, g) PROVE Goal
  <2>1. <<q, g>> \in restoring /\ edits' = edits
    BY <1>5 DEF Restore, Restored, RestoreFails
  <2>2. file' \in {file, [file EXCEPT ![q][g] = saved[q][g]], [file EXCEPT ![q][g] = Torn]}
    BY <1>5 DEF Restore, Restored, RestoreFails
  <2>3. CASE p = q /\ f = g
    <3>1. file'[p][f] \in {file[p][f], saved[p][f], Torn}
      BY <2>2, <2>3, <1>a
    <3>2. QED
      BY <2>1, <2>3, <3>1 DEF Torn, Busy
  <2>4. CASE ~(p = q /\ f = g)
    BY <2>2, <2>4, <1>a
  <2>5. QED
    BY <2>3, <2>4
<1>6. CASE Kill
  <2>1. ASSUME NEW w \in Writing, file' = [file EXCEPT ![w[1]][w[2]] = Torn], edits' = edits
        PROVE  Goal
    <3>1. /\ w[1] \in Projects
          /\ <<w[1], w[2]>> \in restoring \/ (cur = w[1] /\ step # "next")
      BY <2>1, <1>a DEF Writing, At
    <3>2. CASE w[1] = p /\ w[2] = f
      BY <2>1, <3>1, <3>2, <1>a DEF Torn, Busy
    <3>3. CASE ~(w[1] = p /\ w[2] = f)
      BY <2>1, <3>1, <3>3, <1>a
    <3>4. QED
      BY <3>2, <3>3
  <2>2. QED
    BY <1>6, <1>1, <2>1 DEF Kill
<1>7. ASSUME NEW q \in Projects, NEW g \in Files, Edit(q, g) PROVE Goal
  BY <1>7, <1>a DEF Edit
<1>8. QED
  BY <1>1, <1>2, <1>3, <1>4, <1>5, <1>6, <1>7
     DEF Next, Updater, Apply, Terminated, ScanFails, ExecutePlans, Exit, Scan, PassOver,
         Preflight, ReadGoFiles, ReadFails, Rerun, vars

-----------------------------------------------------------------------------
(* Texts and Staleness are preserved.                                      *)

LEMMA ReadSteps ==
  ASSUME Inv, [Next]_vars, NEW p \in Projects
  PROVE  /\ edits' \in {edits, edits + 1}
         /\ saved'[p] \in {saved[p], file[p]}
         /\ plan'[p].before \in {plan[p].before, file[p]}
<1> USE DEF Inv, TypeOK
<1>1. edits' \in {edits, edits + 1}
  BY DEF Next, Updater, Apply, Restore, Terminated, ScanFails, ExecutePlans, Exit, Scan,
         PassOver, Preflight, ReadGoFiles, ReadFails, WriteFile, WriteFails, GoCommand,
         GoCommandFails, Restored, RestoreFails, Kill, Rerun, Edit, vars
<1>2. \/ saved' \in {saved, file}
      \/ \E q \in Projects : saved' = [saved EXCEPT ![q] = file[q]]
  BY DEF Next, Updater, Apply, Restore, Terminated, ScanFails, ExecutePlans, Exit, Scan,
         PassOver, Preflight, ReadGoFiles, ReadFails, WriteFile, WriteFails, GoCommand,
         GoCommandFails, Restored, RestoreFails, Kill, Rerun, Edit, vars
<1>3. \/ plan' = plan
      \/ Rerun
      \/ \E q \in Projects : Scan(q)
  BY DEF Next, Updater, Apply, Restore, Terminated, ScanFails, ExecutePlans, Exit,
         PassOver, Preflight, ReadGoFiles, ReadFails, WriteFile, WriteFails, GoCommand,
         GoCommandFails, Restored, RestoreFails, Kill, Edit, vars
<1>4. plan'[p].before \in {plan[p].before, file[p]}
  <2>1. CASE Rerun
    BY <2>1 DEF Rerun
  <2>2. ASSUME NEW q \in Projects, Scan(q) PROVE plan'[p].before \in {plan[p].before, file[p]}
    <3>1. PICK s : plan' = [plan EXCEPT ![q] = [status |-> s, before |-> file[q]]]
      BY <2>2 DEF Scan
    <3>2. QED
      BY <3>1
  <2>3. QED
    BY <1>3, <2>1, <2>2
<1>5. saved'[p] \in {saved[p], file[p]}
  BY <1>2
<1>6. QED
  BY <1>1, <1>4, <1>5

LEMMA TextsStep ==
  Inv /\ [Next]_vars => Texts'
<1> SUFFICES ASSUME Inv, [Next]_vars, NEW p \in Projects, NEW f \in Files
             PROVE  /\ (file[p][f].text <= edits)'
                    /\ (saved[p][f].text <= edits)'
                    /\ (plan[p].before[f].text <= edits)'
  BY DEF Texts
<1>1. /\ file[p][f].text <= edits /\ file[p][f].text \in Nat
      /\ saved[p][f].text <= edits /\ saved[p][f].text \in Nat
      /\ plan[p].before[f].text <= edits /\ plan[p].before[f].text \in Nat
      /\ edits \in Nat
  BY UpdaterAssumption DEF Inv, Texts, TypeOK, Content
<1>2. (file[p][f].text <= edits)'
  <2>1. \/ file'[p][f].text = file[p][f].text
        \/ edits' = edits /\ file'[p][f].text \in {0, file[p][f].text, plan[p].before[f].text,
                                                 saved[p][f].text}
        \/ edits' = edits + 1 /\ file'[p][f].text = edits + 1
    BY FileSteps
  <2>2. edits' \in {edits, edits + 1}
    BY ReadSteps
  <2>3. QED
    BY <1>1, <2>1, <2>2
<1>3. QED
  BY ReadSteps, <1>1, <1>2

\* A step of executePlans or of the restoration of a project does not make the
\* plan of another one, nor a stale one, begin, and does not end it with
\* success.
LEMMA StaleKept ==
  ASSUME Inv, NEW p \in Projects, Stale(p), NEW q \in Projects,
         Apply(q) \/ \E g \in Files : Restore(q, g)
  PROVE  /\ result'[p] # "updated"
         /\ ~(cur' = p /\ step' # "next")
         /\ \A f \in Files : <<p, f>> \notin restoring'
<1> USE DEF Inv
<1>a. /\ result[p] # "updated" /\ ~(cur = p /\ step # "next")
      /\ \A f \in Files : <<p, f>> \notin restoring
      /\ result \in [Projects -> {"none", "updated", "up-to-date", "would-update",
                                  "manual-migration-required", "error"}]
  BY DEF Staleness, TypeOK
<1>1. ASSUME NEW g \in Files, Restore(q, g) PROVE q # p
  BY <1>1, <1>a DEF Restore, Restored, RestoreFails
<1>2. CASE \E g \in Files : Restore(q, g)
  BY <1>1, <1>2, <1>a DEF Restore, Restored, RestoreFails, Settle, Report, At
<1>3. CASE PassOver(q)
  BY <1>3, <1>a DEF PassOver, Report, At, TypeOK, PlanStatus
<1>4. CASE Preflight(q)
  <2>1. PICK f \in Updates(p) : <<p, f>> \in early /\ Kind[p] = "text"
    BY DEF Stale
  <2>2. f \in Files
    BY <2>1 DEF Updates, OldFiles
  <2>3. ~Begun(p) => file[p][f] # plan[p].before[f]
    BY <2>1, <2>2, UpdaterAssumption DEF Staleness, TypeOK, Content
  <2>4. CASE q = p
    <3>1. Report(p, "error") /\ restoring' = restoring
      BY <1>4, <2>1, <2>3, <2>4 DEF Preflight, At, Begun, Projects
    <3>2. QED
      BY <1>a, <3>1 DEF Report
  <2>5. CASE q # p
    BY <1>4, <1>a, <2>5 DEF Preflight, Report, Go, At
  <2>6. QED
    BY <2>4, <2>5
<1>5. CASE ReadGoFiles(q)
  BY <1>5, <1>a DEF ReadGoFiles, Go, At, Stale
<1>6. CASE ReadFails(q)
  BY <1>6, <1>a DEF ReadFails, Report, At
<1>7. CASE WriteFile(q) \/ GoCommand(q)
  BY <1>7, <1>a DEF WriteFile, GoCommand, Report, Go, At
<1>8. CASE WriteFails(q) \/ GoCommandFails(q)
  BY <1>8, <1>a DEF WriteFails, GoCommandFails, Recover, Report, Go, At
<1>9. QED
  BY <1>2, <1>3, <1>4, <1>5, <1>6, <1>7, <1>8 DEF Apply

LEMMA StalenessStep ==
  Inv /\ [Next]_vars => Staleness'
<1> SUFFICES ASSUME Inv, [Next]_vars, NEW p \in Projects
             PROVE  /\ (plan[p].status = "unscanned" => \A f \in Files : <<p, f>> \notin early)'
                    /\ (~Begun(p) => \A f \in Files :
                          <<p, f>> \in early => file[p][f].text > plan[p].before[f].text)'
                    /\ (Stale(p) =>
                          /\ result[p] # "updated"
                          /\ ~(cur = p /\ step # "next")
                          /\ \A f \in Files : <<p, f>> \notin restoring)'
  BY DEF Staleness
<1> USE DEF Inv
<1>a. \A f \in Files :
        /\ file[p][f].text \in Nat /\ plan[p].before[f].text \in Nat
        /\ file[p][f].text <= edits /\ plan[p].before[f].text <= edits /\ edits \in Nat
  BY UpdaterAssumption DEF Texts, TypeOK, Content
<1>1. CASE Rerun
  BY <1>1 DEF Rerun, Stale
<1>2. ASSUME plan'[p] = plan[p], \A f \in Files : <<p, f>> \in early' => <<p, f>> \in early,
             Begun(p) => Begun(p)'
      PROVE  /\ (plan[p].status = "unscanned" => \A f \in Files : <<p, f>> \notin early)'
             /\ (~Begun(p) => \A f \in Files :
                   <<p, f>> \in early => file[p][f].text > plan[p].before[f].text)'
             /\ Stale(p)' => Stale(p)
  <2>1. (plan[p].status = "unscanned" => \A f \in Files : <<p, f>> \notin early)'
    BY <1>2 DEF Staleness
  <2>2. ASSUME NEW f \in Files, ~Begun(p)', <<p, f>> \in early'
        PROVE  file'[p][f].text > plan'[p].before[f].text
    <3>1. file[p][f].text > plan[p].before[f].text
      BY <1>2, <2>2 DEF Staleness
    <3>2. ~Busy(p)
      BY <1>2, <2>2, BusyFacts
    <3>3. file'[p][f].text \in {file[p][f].text, edits + 1}
      BY <3>2, FileSteps
    <3>4. QED
      BY <1>2, <1>a, <3>1, <3>3
  <2>3. Stale(p)' => Stale(p)
    BY <1>2 DEF Stale, Updates, OldFiles
  <2>4. QED
    BY <2>1, <2>2, <2>3
<1>3. ASSUME NEW q \in Projects, Scan(q)
      PROVE  /\ (plan[p].status = "unscanned" => \A f \in Files : <<p, f>> \notin early)'
             /\ (~Begun(p) => \A f \in Files :
                   <<p, f>> \in early => file[p][f].text > plan[p].before[f].text)'
             /\ Stale(p)' => Stale(p)
  <2>1. CASE q = p
    BY <1>3, <2>1 DEF Scan, Staleness, Stale, Updates, OldFiles, history
  <2>2. CASE q # p
    BY <1>2, <1>3, <2>2 DEF Scan, Begun, history, TypeOK
  <2>3. QED
    BY <2>1, <2>2
<1>4. CASE \/ ScanFails \/ ExecutePlans \/ Exit \/ Kill \/ UNCHANGED vars
           \/ \E q \in Projects : Scan(q)
  <2>1. /\ UNCHANGED <<cur, step, result>> /\ restoring' \subseteq restoring
        /\ early' = early
    BY <1>4 DEF ScanFails, ExecutePlans, Exit, Kill, vars, Scan, history
  <2>2. plan' = plan \/ \E q \in Projects : Scan(q)
    BY <1>4 DEF ScanFails, ExecutePlans, Exit, Kill, vars
  <2>3. QED
    BY <1>2, <1>3, <2>1, <2>2 DEF Begun, Staleness
<1>5. ASSUME NEW q \in Projects, Apply(q) \/ \E g \in Files : Restore(q, g)
      PROVE  /\ plan' = plan /\ early' = early
             /\ Begun(p) => Begun(p)'
  <2>1. plan' = plan /\ early' = early
    BY <1>5 DEF Apply, Restore, PassOver, Preflight, ReadGoFiles, ReadFails, WriteFile,
                WriteFails, GoCommand, GoCommandFails, Restored, RestoreFails, history
  <2>2. UNCHANGED <<cur, step>> \/ cur' = cur + 1 \/ (cur' = cur /\ step' # "next")
    BY <1>5 DEF Apply, Restore, PassOver, Preflight, ReadGoFiles, ReadFails, WriteFile,
                WriteFails, GoCommand, GoCommandFails, Restored, RestoreFails, Settle, Recover,
                Report, Go, At
  <2>3. QED
    BY <2>1, <2>2 DEF Begun, TypeOK, Projects
<1>6. ASSUME NEW q \in Projects, NEW g \in Files, Edit(q, g)
      PROVE  /\ (plan[p].status = "unscanned" => \A f \in Files : <<p, f>> \notin early)'
             /\ (~Begun(p) => \A f \in Files :
                   <<p, f>> \in early => file[p][f].text > plan[p].before[f].text)'
             /\ (Stale(p) =>
                   /\ result[p] # "updated"
                   /\ ~(cur = p /\ step # "next")
                   /\ \A f \in Files : <<p, f>> \notin restoring)'
  <2>1. UNCHANGED <<plan, cur, step, result, restoring>> /\ edits' = edits + 1
    BY <1>6 DEF Edit, options
  <2>2. CASE \A f \in Files : <<p, f>> \in early' => <<p, f>> \in early
    BY <1>2, <2>1, <2>2 DEF Begun, Staleness
  <2>3. CASE \E f \in Files : <<p, f>> \in early' /\ <<p, f>> \notin early
    <3>1. q = p /\ plan[p].status # "unscanned" /\ ~Begun(p)
      BY <1>6, <2>3 DEF Edit
    <3>2. /\ early' = early \cup {<<p, g>>}
          /\ file'[p][g].text = edits + 1
          /\ \A f \in Files : f # g => file'[p][f] = file[p][f]
      BY <1>6, <3>1 DEF Edit, TypeOK
    <3>3. ASSUME NEW f \in Files, <<p, f>> \in early'
          PROVE  file'[p][f].text > plan'[p].before[f].text
      BY <1>a, <2>1, <3>1, <3>2, <3>3 DEF Staleness, TypeOK
    <3>4. result[p] # "updated" /\ ~Busy(p)
      BY <3>1, BusyFacts DEF Begun, Stage
    <3>5. QED
      BY <2>1, <3>1, <3>3, <3>4 DEF Busy
  <2>4. QED
    BY <2>2, <2>3
<1>7. QED
  BY <1>1, <1>2, <1>4, <1>5, <1>6, StaleKept DEF Next, Updater, Terminated

-----------------------------------------------------------------------------
(* AllOrNothing.                                                           *)

Untouched(p) == {f \in Files : <<p, f>> \notin late}

\* The files of the plan that is being applied.
UnderWay(p) ==
  /\ step = "write" =>
       \A f \in Untouched(p) :
         file[p][f] = IF f \in written THEN After(p, f) ELSE saved[p][f]
  /\ step = "get" => \A f \in Untouched(p) : file[p][f] = saved[p][f]
  /\ step = "tidy" =>
       /\ \A f \in Untouched(p) : file[p][f].text = saved[p][f].text
       /\ 1 \in Untouched(p) => file[p][1].ver \in GoResolves
  /\ step = "restore" =>
       \A f \in Untouched(p) : <<p, f>> \notin restoring => file[p][f] = saved[p][f]

\* The files of a plan that has its result.
Settled(p) ==
  /\ result[p] = "error" => \A f \in Untouched(p) : file[p][f] = saved[p][f]
  /\ (result[p] = "updated" /\ Kind[p] = "text") =>
       \A f \in Untouched(p) :
         file[p][f] = IF f \in Updates(p) THEN After(p, f) ELSE saved[p][f]
  /\ (result[p] = "updated" /\ Kind[p] = "go") =>
       /\ \A f \in Untouched(p) : file[p][f].text = saved[p][f].text
       /\ 1 \in Untouched(p) => file[p][1].ver \in GoResolves
       /\ 2 \in Untouched(p) => file[p][2].ver = "new"

Application ==
  \A p \in Projects \ damaged :
    Applies(p) =>
      /\ (phase = "executing" /\ cur = p) => UnderWay(p)
      /\ Settled(p)

\* A step that leaves a plan and its files alone does not change what is said.
LEMMA ApplicationFrame ==
  ASSUME Application, NEW p \in Projects \ damaged,
         UNCHANGED <<mode, plan[p], file[p], saved[p], result[p]>>,
         \A f \in Files : <<p, f>> \in late' <=> <<p, f>> \in late,
         \/ phase' # "executing" \/ cur' # p \/ step' = "next"
         \/ /\ UNCHANGED <<phase, cur, step, written>>
            /\ \A f \in Files : <<p, f>> \in restoring' <=> <<p, f>> \in restoring
  PROVE  Applies(p)' =>
           /\ (phase' = "executing" /\ cur' = p) => UnderWay(p)'
           /\ Settled(p)'
<1>1. CASE ~Applies(p)
  BY <1>1 DEF Applies
<1>2. CASE Applies(p)
  <2>1. Settled(p)'
    BY <1>2 DEF Application, Settled, Untouched, Updates, OldFiles, After
  <2>2. CASE phase' # "executing" \/ cur' # p
    BY <2>1, <2>2
  <2>3. CASE step' = "next"
    BY <2>1, <2>3 DEF UnderWay
  <2>4. CASE /\ UNCHANGED <<phase, cur, step, written>>
             /\ \A f \in Files : <<p, f>> \in restoring' <=> <<p, f>> \in restoring
    BY <1>2, <2>1, <2>4 DEF Application, UnderWay, Untouched, After
  <2>5. QED
    BY <2>2, <2>3, <2>4
<1>3. QED
  BY <1>1, <1>2

\* What a step of one plan leaves alone of another.
LEMMA OtherPlans ==
  ASSUME TypeOK, NEW p \in Projects, NEW q \in Projects, q # p, Apply(q)
  PROVE  /\ UNCHANGED <<mode, plan, late>>
         /\ damaged \subseteq damaged' /\ damaged' \subseteq damaged \cup {q}
         /\ cur = q /\ (cur' # p \/ step' = "next")
         /\ result'[p] = result[p] /\ file'[p] = file[p] /\ saved'[p] = saved[p]
<1>1. /\ UNCHANGED <<mode, plan, late>> /\ cur = q
      /\ damaged \subseteq damaged' /\ damaged' \subseteq damaged \cup {q}
  BY DEF Apply, PassOver, Preflight, ReadGoFiles, ReadFails, WriteFile, WriteFails, GoCommand,
         GoCommandFails, options, history, At
<1>2. saved'[p] = saved[p] /\ file'[p] = file[p]
  BY DEF TypeOK, Apply, PassOver, Preflight, ReadGoFiles, ReadFails, WriteFile, WriteFails,
         GoCommand, GoCommandFails
<1>3. (\E s : Go(s)) \/ (\E s : Report(q, s))
  BY DEF Apply, PassOver, Preflight, ReadGoFiles, ReadFails, WriteFile, WriteFails,
         GoCommand, GoCommandFails, Recover
<1>4. result'[p] = result[p] /\ (cur' # p \/ step' = "next")
  BY <1>1, <1>3 DEF Go, Report, TypeOK
<1>5. QED
  BY <1>1, <1>2, <1>4

\* The application of a plan, step by step.
LEMMA ApplicationOwn ==
  ASSUME Inv, Application, NEW p \in Projects \ damaged, p \notin damaged', Apply(p)
  PROVE  Applies(p)' =>
           /\ (phase' = "executing" /\ cur' = p) => UnderWay(p)'
           /\ Settled(p)'
<1> DEFINE Goal == /\ (phase' = "executing" /\ cur' = p) => UnderWay(p)'
                   /\ Settled(p)'
<1> SUFFICES ASSUME Applies(p)' PROVE Goal
  OBVIOUS
<1> USE DEF Inv
<1>a. /\ cur = p /\ cur \in Nat /\ cur + 1 # cur /\ phase = "executing" /\ result[p] = "none"
      /\ UNCHANGED <<late, plan, mode>> /\ Applies(p)
  <2>1. cur = p /\ cur \in Nat /\ phase = "executing"
    BY DEF Apply, PassOver, Preflight, ReadGoFiles, ReadFails, WriteFile, WriteFails, GoCommand,
           GoCommandFails, At, Projects
  <2>2. UNCHANGED <<late, plan, mode>>
    BY DEF Apply, PassOver, Preflight, ReadGoFiles, ReadFails, WriteFile, WriteFails, GoCommand,
           GoCommandFails, options, history
  <2>3. QED
    BY <2>1, <2>2 DEF Stage, Applies
<1>b. /\ file \in [Projects -> [Files -> Content]] /\ saved \in [Projects -> [Files -> Content]]
      /\ result \in [Projects -> {"none", "updated", "up-to-date", "would-update",
                                  "manual-migration-required", "error"}]
  BY DEF TypeOK
<1>c. UnderWay(p)
  BY <1>a DEF Application
<1>1. CASE PassOver(p)
  BY <1>1, <1>a DEF PassOver
<1>2. CASE Preflight(p) \/ ReadGoFiles(p) \/ ReadFails(p)
  <2>1. saved'[p] = file'[p] /\ file' = file
    BY <1>2, <1>b DEF Preflight, ReadGoFiles, ReadFails
  <2>2. CASE Report(p, "error")
    BY <1>a, <1>b, <2>1, <2>2 DEF Report, Settled
  <2>3. CASE Go("write") /\ written' = {}
    BY <1>a, <1>b, <2>1, <2>3 DEF Go, UnderWay, Settled
  <2>4. CASE Go("get")
    BY <1>a, <1>b, <2>1, <2>4 DEF Go, UnderWay, Settled
  <2>5. QED
    BY <1>2, <2>2, <2>3, <2>4 DEF Preflight, ReadGoFiles, ReadFails
<1>3. CASE WriteFile(p)
  <2>1. step = "write" /\ Kind[p] = "text" /\ written \subseteq Updates(p)
    BY <1>3, <1>a DEF WriteFile, At, Stage
  <2>2. \A f \in Untouched(p)' :
          file'[p][f] = IF f \in written' THEN After(p, f)' ELSE saved'[p][f]
    BY <1>3, <1>a, <1>b, <1>c, <2>1 DEF WriteFile, UnderWay, Untouched, After
  <2>3. CASE Report(p, "updated") /\ Updates(p) = written'
    BY <1>a, <1>b, <2>1, <2>2, <2>3 DEF Report, Settled, Updates, OldFiles
  <2>4. CASE Go("write")
    BY <1>a, <2>2, <2>4 DEF Go, UnderWay, Settled
  <2>5. QED
    BY <1>3, <2>3, <2>4 DEF WriteFile
<1>4. CASE WriteFails(p)
  <2>1. file' = file /\ saved' = saved /\ step = "write"
    BY <1>4 DEF WriteFails, At
  <2>2. CASE Report(p, "error") /\ written = {}
    BY <1>a, <1>b, <1>c, <2>1, <2>2 DEF Report, Settled, UnderWay, Untouched
  <2>3. CASE Go("restore") /\ restoring' = restoring \cup ({p} \X written)
    BY <1>a, <1>c, <2>1, <2>3 DEF Go, Settled, UnderWay, Untouched
  <2>4. QED
    BY <1>4, <2>2, <2>3 DEF WriteFails, Recover
<1>5. CASE GoCommand(p)
  <2>1. PICK s \in {"get", "tidy"}, r \in GoResolves :
          /\ step = s
          /\ file' = [file EXCEPT ![p] = Ran(s, @, r)]
          /\ IF s = "get" THEN Go("tidy") ELSE Report(p, "updated")
          /\ saved' = saved
    BY <1>5 DEF GoCommand, At
  <2>2. Kind[p] = "go"
    BY <1>a, <2>1 DEF Stage
  <2>3. CASE s = "get"
    <3>1. /\ \A f \in Files : file'[p][f].text = file[p][f].text
          /\ file'[p][1].ver = r
      BY <1>b, <2>1, <2>3 DEF Ran, Files, Content
    <3>2. QED
      BY <1>a, <1>c, <2>1, <2>3, <3>1 DEF Go, UnderWay, Settled, Untouched
  <2>4. CASE s = "tidy"
    <3>1. /\ \A f \in Files : file'[p][f].text = file[p][f].text
          /\ file'[p][1].ver = file[p][1].ver
          /\ file'[p][2].ver = "new"
      BY <1>b, <2>1, <2>4 DEF Ran, Files, Content
    <3>2. QED
      BY <1>a, <1>b, <1>c, <2>1, <2>2, <2>4, <3>1 DEF Report, UnderWay, Settled, Untouched
  <2>5. QED
    BY <2>3, <2>4
<1>6. CASE GoCommandFails(p)
  <2>1. Go("restore") /\ restoring' = restoring \cup ({p} \X Files)
    BY <1>6 DEF GoCommandFails, Recover, Files
  <2>2. QED
    BY <1>a, <2>1 DEF Go, UnderWay, Settled, Untouched
<1>7. QED
  BY <1>1, <1>2, <1>3, <1>4, <1>5, <1>6 DEF Apply

LEMMA ApplicationStep ==
  Inv /\ Application /\ [Next]_vars => Application'
<1> SUFFICES ASSUME Inv, Application, [Next]_vars,
                    NEW p \in Projects, p \notin damaged', Applies(p)'
             PROVE  ((phase = "executing" /\ cur = p) => UnderWay(p))' /\ Settled(p)'
  BY DEF Application
<1> DEFINE Goal == ((phase = "executing" /\ cur = p) => UnderWay(p))' /\ Settled(p)'
<1> USE DEF Inv
<1>b. /\ file \in [Projects -> [Files -> Content]] /\ saved \in [Projects -> [Files -> Content]]
      /\ result \in [Projects -> {"none", "updated", "up-to-date", "would-update",
                                  "manual-migration-required", "error"}]
      /\ cur \in Nat /\ cur + 1 # cur
  BY UpdaterAssumption DEF TypeOK
<1>1. CASE Rerun
  BY <1>1 DEF Rerun, UnderWay, Settled
<1>2. ASSUME NEW q \in Projects, Scan(q) PROVE Goal
  BY <1>2 DEF Scan, Stage, Projects, UnderWay, Settled
<1>3. ASSUME ~Rerun PROVE p \notin damaged
  BY <1>3 DEF Next, Updater, Apply, Restore, Terminated, ScanFails, ExecutePlans, Exit, Scan,
         PassOver, Preflight, ReadGoFiles, ReadFails, WriteFile, WriteFails, GoCommand,
         GoCommandFails, Restored, RestoreFails, Kill, Edit, vars, history
<1>4. CASE ScanFails \/ ExecutePlans \/ Exit \/ UNCHANGED vars
  <2>1. CASE ExecutePlans
    BY <2>1 DEF ExecutePlans, Stage, Projects, UnderWay, Settled
  <2>2. CASE ScanFails \/ Exit \/ UNCHANGED vars
    BY <2>2, <1>3, ApplicationFrame DEF ScanFails, Exit, vars, options, history, Rerun
  <2>3. QED
    BY <1>4, <2>1, <2>2
<1>5. CASE Kill
  <2>1. file'[p] = file[p]
    <3>1. ASSUME NEW w \in Writing, file' = [file EXCEPT ![w[1]][w[2]] = Torn],
                 damaged' = damaged \cup {w[1]}
          PROVE  file'[p] = file[p]
      BY <3>1, <1>b
    <3>2. QED
      BY <1>5, <3>1 DEF Kill
  <2>2. QED
    BY <1>5, <2>1, <1>3, ApplicationFrame DEF Kill, options, Rerun
<1>6. ASSUME NEW q \in Projects, NEW g \in Files, Edit(q, g) PROVE Goal
  <2>1. UNCHANGED <<mode, plan, saved, result, phase, cur, step, written, restoring, damaged>>
    BY <1>6 DEF Edit, options
  <2>2. CASE q # p
    BY <1>6, <1>b, <2>1, <2>2, ApplicationFrame DEF Edit
  <2>3. CASE q = p /\ ~Begun(p)
    BY <2>1, <2>3, <1>b DEF Begun, Stage, UnderWay, Settled
  <2>4. CASE q = p /\ Begun(p)
    <3>1. /\ Untouched(p)' = Untouched(p) \ {g}
          /\ \A f \in Untouched(p)' : file'[p][f] = file[p][f]
      BY <1>6, <1>b, <2>4 DEF Edit, Untouched
    <3>2. Settled(p) /\ ((phase = "executing" /\ cur = p) => UnderWay(p))
      BY <2>1 DEF Application, Applies
    <3>3. Settled(p)'
      BY <2>1, <3>1, <3>2 DEF Settled, Updates, OldFiles, After, Untouched
    <3>4. (phase = "executing" /\ cur = p) => UnderWay(p)'
      BY <2>1, <3>1, <3>2 DEF UnderWay, After, Untouched
    <3>5. QED
      BY <2>1, <3>3, <3>4
  <2>5. QED
    BY <2>2, <2>3, <2>4
<1>7. ASSUME NEW q \in Projects, Apply(q) PROVE Goal
  <2>a. p \notin damaged
    BY <1>7 DEF Apply, PassOver, Preflight, ReadGoFiles, ReadFails, WriteFile, WriteFails,
                GoCommand, GoCommandFails, history
  <2>1. CASE q = p
    BY <1>7, <2>1, <2>a, ApplicationOwn
  <2>2. CASE q # p
    <3>1. /\ UNCHANGED <<mode, plan, late>> /\ p \notin damaged
          /\ cur = q /\ (cur' # p \/ step' = "next")
          /\ result'[p] = result[p] /\ file'[p] = file[p] /\ saved'[p] = saved[p]
      BY <1>7, <2>2, <2>a, OtherPlans
    <3>2. QED
      BY <3>1, ApplicationFrame
  <2>3. QED
    BY <2>1, <2>2
<1>8. ASSUME NEW q \in Projects, NEW g \in Files, Restore(q, g) PROVE Goal
  <2>1. p \notin damaged /\ UNCHANGED <<mode, plan, late, saved, phase, written>>
    BY <1>8 DEF Restore, Restored, RestoreFails, options, history
  <2>2. CASE q # p
    <3>1. file'[p] = file[p] /\ result'[p] = result[p]
      BY <1>8, <1>b, <2>2 DEF Restore, Restored, RestoreFails, Settle, Report
    <3>2. /\ \/ UNCHANGED <<cur, step>> \/ step' = "next"
          /\ \A f \in Files : <<p, f>> \in restoring' <=> <<p, f>> \in restoring
      BY <1>8, <2>2 DEF Restore, Restored, RestoreFails, Settle, Report
    <3>3. QED
      <4>1. CASE step' = "next"
        BY <2>1, <3>1, <4>1, ApplicationFrame
      <4>2. CASE UNCHANGED <<cur, step>>
        BY <2>1, <3>1, <3>2, <4>2, ApplicationFrame
      <4>3. QED
        BY <3>2, <4>1, <4>2
  <2>3. CASE q = p
    <3>1. /\ cur = p /\ step = "restore" /\ Restored(p, g) /\ result[p] = "none"
          /\ Applies(p)
      <4>1. Restored(p, g) /\ <<p, g>> \in restoring
        BY <1>8, <2>3 DEF Restore, Restored, RestoreFails
      <4>2. cur = p /\ step = "restore"
        BY <2>1, <4>1, <1>b DEF Restoring
      <4>3. QED
        BY <4>1, <4>2, <1>b DEF Stage
    <3>2. /\ file'[p] = [file[p] EXCEPT ![g] = saved[p][g]]
          /\ restoring' = restoring \ {<<p, g>>}
      BY <3>1, <1>b DEF Restored
    <3>3. CASE phase # "executing"
      BY <2>1, <3>1, <3>3 DEF Restored, Settle, At, Settled
    <3>4. CASE phase = "executing"
      <4>1. UnderWay(p)
        BY <2>1, <3>1, <3>4 DEF Application
      <4>2. \A f \in Untouched(p) : <<p, f>> \notin restoring' => file'[p][f] = saved[p][f]
        BY <1>b, <3>1, <3>2, <4>1 DEF UnderWay, Untouched
      <4>3. CASE {h \in Files : <<p, h>> \in restoring} = {g}
        <5>1. Report(p, "error") /\ \A f \in Files : <<p, f>> \notin restoring'
          BY <3>1, <3>2, <3>4, <4>3 DEF Restored, Settle, At
        <5>2. QED
          BY <1>b, <2>1, <3>1, <4>2, <5>1 DEF Report, Settled, Untouched
      <4>4. CASE {h \in Files : <<p, h>> \in restoring} # {g}
        <5>1. UNCHANGED <<result, cur, step>>
          BY <3>1, <4>4 DEF Restored, Settle
        <5>2. QED
          BY <2>1, <3>1, <4>2, <5>1 DEF UnderWay, Settled, Untouched
      <4>5. QED
        BY <4>3, <4>4
    <3>5. QED
      BY <3>3, <3>4
  <2>4. QED
    BY <2>2, <2>3
<1>9. QED
  BY <1>1, <1>2, <1>4, <1>5, <1>6, <1>7, <1>8 DEF Next, Updater, Terminated

-----------------------------------------------------------------------------
(* Theorems.                                                               *)

LEMMA InvInductive ==
  Inv /\ [Next]_vars => Inv'
BY TypeStep, StageStep, RestoringStep, TextsStep, StalenessStep DEF Inv

LEMMA Invariance ==
  Spec => [](Inv /\ Application)
<1>1. Init => Inv /\ Application
  BY InitInv DEF Init, Application, Settled, UnderWay
<1>2. Inv /\ Application /\ [Next]_vars => (Inv /\ Application)'
  BY InvInductive, ApplicationStep
<1>3. QED
  BY <1>1, <1>2, PTL DEF Spec

\* The updater's variables keep their types, whatever the number of projects,
\* of edits by others, of failures and of runs.
THEOREM UpdaterTypeOK ==
  Spec => []TypeOK
BY Invariance, PTL DEF Inv

\* A dry run and a check never change a file of the tree: no write and no
\* restoration is under way in a process that is not in write mode.
THEOREM UpdaterReadOnly ==
  Spec => ReadOnlyModes
<1>1. ASSUME Inv, Inv', [Next]_vars, mode # "write", edits' = edits
      PROVE  file' = file
  <2>1. \A p \in Projects, f \in Files : file'[p][f] = file[p][f]
    <3>1. edits + 1 # edits
      BY <1>1, UpdaterAssumption DEF Inv, TypeOK
    <3>2. QED
      BY <1>1, <3>1, FileSteps, BusyFacts
  <2>2. /\ file \in [Projects -> [Files -> Content]]
        /\ file' \in [Projects -> [Files -> Content]]
    BY <1>1 DEF Inv, TypeOK
  <2>3. \A p \in Projects : file'[p] = file[p]
    BY <2>1, <2>2
  <2>4. QED
    BY <2>2, <2>3
<1>2. Inv /\ Inv' /\ [Next]_vars => [(mode # "write" /\ edits' = edits) => file' = file]_vars
  BY <1>1
<1>3. QED
  BY Invariance, <1>2, PTL DEF Spec, ReadOnlyModes

\* The files of one project are left alone by a step that is no edit and at
\* which the updater has none of them in hand.
LEMMA FilesKept ==
  ASSUME Inv, Inv', [Next]_vars, NEW p \in Projects, ~Busy(p), edits' = edits
  PROVE  file'[p] = file[p]
<1>1. edits + 1 # edits
  BY UpdaterAssumption DEF Inv, TypeOK
<1>2. \A f \in Files : file'[p][f] = file[p][f]
  BY <1>1, FileSteps
<1>3. file[p] \in [Files -> Content] /\ file'[p] \in [Files -> Content]
  BY DEF Inv, TypeOK
<1>4. QED
  BY <1>2, <1>3

\* A text plan that has become stale in whichever of its files before its
\* application is refused as a whole: the comparison of applyTextUpdates comes
\* before all of its writes.
THEOREM UpdaterStaleRefused ==
  Spec => StaleRefused
<1>1. ASSUME Inv, Inv', [Next]_vars, NEW p \in Projects, Stale(p)
      PROVE  (edits' = edits => file'[p] = file[p]) /\ result'[p] # "updated"
  <2>1. edits' = edits => file'[p] = file[p]
    BY <1>1, FilesKept DEF Inv, Staleness, Busy
  <2>2. result'[p] # "updated"
    <3>1. result[p] # "updated"
      BY <1>1 DEF Inv, Staleness
    <3>2. ASSUME NEW q \in Projects, Apply(q) \/ \E g \in Files : Restore(q, g)
          PROVE  result'[p] # "updated"
      BY <1>1, <3>2, StaleKept
    <3>3. CASE \/ UNCHANGED result \/ Rerun
      BY <3>1, <3>3 DEF Rerun
    <3>4. QED
      BY <1>1, <3>2, <3>3
         DEF Next, Updater, Terminated, ScanFails, ExecutePlans, Exit, Scan, Kill, Edit, vars
  <2>3. QED
    BY <2>1, <2>2
<1>2. Inv /\ Inv' /\ [Next]_vars =>
        [\A p \in Projects :
           (Kind[p] = "text" /\ \E f \in Updates(p) : <<p, f>> \in early) =>
             /\ edits' = edits => file'[p] = file[p]
             /\ result'[p] # "updated"]_vars
  BY <1>1 DEF Stale
<1>3. QED
  BY Invariance, <1>2, PTL DEF Spec, StaleRefused

\* What executePlans has reported is final: but for the projects with a failed
\* restoration, no file of a project changes once its result is there.
THEOREM UpdaterSettledPlans ==
  Spec => SettledPlans
<1>1. ASSUME Inv, Inv', [Next]_vars, NEW p \in Projects \ damaged, result[p] # "none",
             edits' = edits
      PROVE  file'[p] = file[p]
  <2>1. cur # p
    BY <1>1, UpdaterAssumption DEF Inv, Stage, TypeOK, Projects
  <2>2. ~Busy(p)
    BY <1>1, <2>1, BusyFacts
  <2>3. QED
    BY <1>1, <2>2, FilesKept
<1>2. Inv /\ Inv' /\ [Next]_vars =>
        [\A p \in Projects \ damaged :
           (result[p] # "none" /\ edits' = edits) => file'[p] = file[p]]_vars
  BY <1>1
<1>3. QED
  BY Invariance, <1>2, PTL DEF Spec, SettledPlans

\* An applied plan whose result is reported has been applied to all the files
\* it names or to none, whatever fails and whoever else writes.
THEOREM UpdaterAllOrNothing ==
  Spec => []AllOrNothing
<1>1. Application => AllOrNothing
  BY DEF Application, AllOrNothing, Settled, Untouched, Updates, OldFiles
<1>2. QED
  BY Invariance, <1>1, PTL

-----------------------------------------------------------------------------
(* ExitTruthful.                                                           *)

\* The status of a plan is what the adapter makes of the contents it has read,
\* and the second file of a text project has no version that is refused.
Scanned ==
  \A p \in Projects :
    /\ plan[p].status \in {"unscanned", IF Kind[p] = "go" THEN GoStatus(plan[p].before)
                                                         ELSE TextStatus(plan[p].before)}
    /\ Kind[p] = "text" =>
         {file[p][2].ver, saved[p][2].ver, plan[p].before[2].ver} \cap {"v1", "bad"} = {}

\* A file that nobody else has edited is as scanned until the application of
\* its plan begins, and was so when it began.
Fresh ==
  \A p \in Projects, f \in Files :
    (<<p, f>> \notin early \cup late /\ plan[p].status # "unscanned") =>
      IF Applies(p) /\ Begun(p)
        THEN saved[p][f] = plan[p].before[f]
        ELSE file[p][f] = plan[p].before[f]

\* What is reported of a plan, and that a damaged project is an error.
Reports ==
  \A p \in Projects :
    /\ (cur > p /\ plan[p].status # "skipped") =>
         result[p] \in IF Applies(p) THEN {"updated", "error"} ELSE {plan[p].status}
    /\ (p \in damaged /\ phase # "killed") =>
         \/ result[p] = "error"
         \/ phase = "executing" /\ cur = p /\ step = "restore"

\* What an exit code says of the results.
ExitCode ==
  phase = "exited" =>
    /\ exitCode # 1 => cur > NumProjects /\ Reported("error") = {}
    /\ (exitCode = 0 /\ mode # "dry-run") => Reported("manual-migration-required") = {}
    /\ (exitCode = 0 /\ mode = "check") => Reported("would-update") = {}

Exiting == Scanned /\ Fresh /\ Reports /\ ExitCode

\* What a step leaves of the version of a file of a text project.
LEMMA VersionSteps ==
  ASSUME Inv, [Next]_vars, NEW p \in Projects, NEW f \in Files, Kind[p] = "text"
  PROVE  file'[p][f].ver \in {file[p][f].ver, saved[p][f].ver, "torn", "old", "new"}
<1> DEFINE Goal == file'[p][f].ver \in {file[p][f].ver, saved[p][f].ver, "torn", "old", "new"}
<1> SUFFICES Goal
  OBVIOUS
<1>a. file \in [Projects -> [Files -> Content]] /\ restoring \subseteq Projects \X Files
      /\ plan \in [Projects -> [status : PlanStatus, before : [Files -> Content]]]
  BY DEF Inv, TypeOK
<1>1. ASSUME NEW q \in Projects, NEW g \in Files, NEW c,
             file' \in {file, [file EXCEPT ![q][g] = c]},
             c.ver \in {"torn", "old", "new"} \/ c = saved[q][g]
      PROVE  Goal
  <2>1. CASE q = p /\ g = f
    BY <1>1, <1>a, <2>1
  <2>2. CASE ~(q = p /\ g = f)
    <3>1. file'[p][f] = file[p][f]
      BY <1>1, <1>a, <2>2
    <3>2. QED
      BY <3>1
  <2>3. QED
    BY <2>1, <2>2
<1>2. Torn.ver = "torn"
  BY DEF Torn
<1>3. ASSUME NEW q \in Projects, WriteFile(q) \/ WriteFails(q) PROVE Goal
  <2>1. ToWrite(q) \in Files
    BY <1>3, ToWriteRemains DEF WriteFile, WriteFails, At, Inv, Stage
  <2>2. After(q, ToWrite(q)).ver = "new"
    BY <1>a, <2>1 DEF After, Content
  <2>3. CASE WriteFile(q)
    BY <1>1, <2>1, <2>2, <2>3 DEF WriteFile
  <2>4. CASE WriteFails(q)
    BY <1>1, <1>2, <2>1, <2>4 DEF WriteFails
  <2>5. QED
    BY <1>3, <2>3, <2>4
<1>4. ASSUME NEW q \in Projects, GoCommand(q) \/ GoCommandFails(q) PROVE Goal
  <2>1. q # p
    BY <1>4 DEF GoCommand, GoCommandFails, At, Inv, Stage
  <2>2. QED
    BY <1>4, <1>a, <2>1 DEF GoCommand, GoCommandFails
<1>5. ASSUME NEW q \in Projects, NEW g \in Files, Restore(q, g) PROVE Goal
  BY <1>5, <1>1, <1>2 DEF Restore, Restored, RestoreFails
<1>6. CASE Kill
  <2>1. CASE file' = file
    BY <2>1
  <2>2. ASSUME NEW w \in Writing, file' = [file EXCEPT ![w[1]][w[2]] = Torn]
        PROVE  Goal
    <3>1. w[1] \in Projects /\ w[2] \in Files
      BY <1>a DEF Writing
    <3>2. QED
      BY <1>1, <1>2, <2>2, <3>1
  <2>3. QED
    BY <1>6, <2>1, <2>2 DEF Kill
<1>7. ASSUME NEW q \in Projects, NEW g \in Files, Edit(q, g) PROVE Goal
  <2>1. PICK v \in EditVersions :
          file' = [file EXCEPT ![q][g] = [text |-> edits + 1, ver |-> v]]
    BY <1>7 DEF Edit
  <2>2. QED
    BY <1>1, <2>1, UpdaterAssumption
<1>8. CASE file' = file
  BY <1>8
<1>9. QED
  BY <1>3, <1>4, <1>5, <1>6, <1>7, <1>8
     DEF Next, Updater, Apply, Terminated, ScanFails, ExecutePlans, Exit, Scan, PassOver,
         Preflight, ReadGoFiles, ReadFails, Rerun, vars

LEMMA PlanSteps ==
  ASSUME Inv, [Next]_vars, NEW p \in Projects
  PROVE  \/ plan'[p] = plan[p]
         \/ plan'[p] = [status |-> "unscanned", before |-> file[p]] /\ Rerun
         \/ /\ Scan(p) /\ UNCHANGED <<file, cur, step>>
            /\ plan'[p].before = file[p]
            /\ plan'[p].status = IF Kind[p] = "go" THEN GoStatus(file[p])
                                                   ELSE TextStatus(file[p])
<1>a. plan \in [Projects -> [status : PlanStatus, before : [Files -> Content]]]
  BY DEF Inv, TypeOK
<1>1. CASE plan' = plan
  BY <1>1
<1>2. CASE Rerun
  BY <1>2 DEF Rerun
<1>3. ASSUME NEW q \in Projects, Scan(q)
      PROVE  \/ plan'[p] = plan[p]
             \/ /\ Scan(p) /\ UNCHANGED <<file, cur, step>>
                /\ plan'[p].before = file[p]
                /\ plan'[p].status = IF Kind[p] = "go" THEN GoStatus(file[p])
                                                       ELSE TextStatus(file[p])
  <2>1. CASE q = p
    BY <1>3, <1>a, <2>1 DEF Scan
  <2>2. CASE q # p
    BY <1>3, <1>a, <2>2 DEF Scan
  <2>3. QED
    BY <2>1, <2>2
<1>4. QED
  BY <1>1, <1>2, <1>3
     DEF Next, Updater, Apply, Restore, Terminated, ScanFails, ExecutePlans, Exit,
         PassOver, Preflight, ReadGoFiles, ReadFails, WriteFile, WriteFails, GoCommand,
         GoCommandFails, Restored, RestoreFails, Kill, Edit, vars

LEMMA ScannedStep ==
  Inv /\ Scanned /\ [Next]_vars => Scanned'
<1> SUFFICES ASSUME Inv, Scanned, [Next]_vars, NEW p \in Projects
             PROVE  /\ (plan[p].status \in
                          {"unscanned", IF Kind[p] = "go" THEN GoStatus(plan[p].before)
                                                          ELSE TextStatus(plan[p].before)})'
                    /\ Kind[p] = "text" =>
                         ({file[p][2].ver, saved[p][2].ver, plan[p].before[2].ver}
                            \cap {"v1", "bad"} = {})'
  BY DEF Scanned
<1>1. (plan[p].status \in
         {"unscanned", IF Kind[p] = "go" THEN GoStatus(plan[p].before)
                                         ELSE TextStatus(plan[p].before)})'
  <2>1. CASE plan'[p] = plan[p]
    BY <2>1 DEF Scanned, GoStatus, TextStatus, OldFiles
  <2>2. CASE plan'[p] = [status |-> "unscanned", before |-> file[p]]
    BY <2>2
  <2>3. CASE /\ plan'[p].before = file[p]
             /\ plan'[p].status = IF Kind[p] = "go" THEN GoStatus(file[p])
                                                    ELSE TextStatus(file[p])
    BY <2>3 DEF GoStatus, TextStatus, OldFiles
  <2>4. QED
    BY <2>1, <2>2, <2>3, PlanSteps
<1>2. ASSUME Kind[p] = "text"
      PROVE  ({file[p][2].ver, saved[p][2].ver, plan[p].before[2].ver} \cap {"v1", "bad"} = {})'
  <2>1. /\ saved'[p] \in {saved[p], file[p]}
        /\ plan'[p].before \in {plan[p].before, file[p]}
    BY ReadSteps
  <2>2. file'[p][2].ver \in {file[p][2].ver, saved[p][2].ver, "torn", "old", "new"}
    BY <1>2, VersionSteps DEF Files
  <2>3. {file[p][2].ver, saved[p][2].ver, plan[p].before[2].ver} \cap {"v1", "bad"} = {}
    BY <1>2 DEF Scanned
  <2>4. QED
    BY <2>1, <2>2, <2>3
<1>3. QED
  BY <1>1, <1>2

\* A step that changes the contents read by a plan's application is the one
\* with which it begins, and a plan begins by no other.
LEMMA BeginSteps ==
  ASSUME Inv, [Next]_vars, ~Rerun, NEW p \in Projects, Applies(p)
  PROVE  \/ ~Begun(p) /\ saved'[p] = file[p] /\ Begun(p)'
         \/ saved'[p] = saved[p] /\ (Begun(p)' <=> Begun(p))
<1> DEFINE Goal == \/ ~Begun(p) /\ saved'[p] = file[p] /\ Begun(p)'
                   \/ saved'[p] = saved[p] /\ (Begun(p)' <=> Begun(p))
<1> SUFFICES Goal
  OBVIOUS
<1> USE DEF Inv
<1>a. /\ cur \in Nat /\ Projects \subseteq Nat
      /\ saved \in [Projects -> [Files -> Content]]
  BY UpdaterAssumption DEF TypeOK, Projects
<1>1. CASE UNCHANGED <<saved, cur, step>>
  BY <1>1 DEF Begun
<1>2. ASSUME NEW q \in Projects, saved'[p] = saved[p], cur = q, step # "next" \/ q # p,
             (\E s : Report(q, s)) \/ (\E s : s # "next" /\ Go(s))
      PROVE  Goal
  <2>1. CASE cur' = cur /\ step' # "next"
    BY <1>2, <1>a, <2>1 DEF Begun
  <2>2. CASE cur' = cur + 1 /\ step' = "next"
    BY <1>2, <1>a, <2>2 DEF Begun
  <2>3. QED
    BY <1>2, <2>1, <2>2 DEF Report, Go
<1>3. ASSUME NEW q \in Projects, PassOver(q) PROVE Goal
  BY <1>2, <1>3 DEF PassOver, At
<1>4. ASSUME NEW q \in Projects, Preflight(q) \/ ReadGoFiles(q) \/ ReadFails(q) PROVE Goal
  <2>1. /\ cur = q /\ step = "next" /\ saved' = [saved EXCEPT ![q] = file[q]]
        /\ Report(q, "error") \/ Go("write") \/ Go("get")
    BY <1>4 DEF Preflight, ReadGoFiles, ReadFails, At
  <2>2. CASE q = p
    BY <1>a, <2>1, <2>2 DEF Begun, Report, Go
  <2>3. CASE q # p
    BY <1>2, <1>a, <2>1, <2>3
  <2>4. QED
    BY <2>2, <2>3
<1>5. ASSUME NEW q \in Projects,
             WriteFile(q) \/ WriteFails(q) \/ GoCommand(q) \/ GoCommandFails(q)
      PROVE  Goal
  <2>1. cur = q /\ step # "next" /\ saved' = saved
    BY <1>5 DEF WriteFile, WriteFails, GoCommand, GoCommandFails, At
  <2>2. \/ Report(q, "error") \/ Report(q, "updated")
        \/ Go("write") \/ Go("tidy") \/ Go("restore")
    BY <1>5 DEF WriteFile, WriteFails, GoCommand, GoCommandFails, Recover
  <2>3. QED
    BY <1>2, <2>1, <2>2
<1>6. ASSUME NEW q \in Projects, NEW g \in Files, Restore(q, g) PROVE Goal
  <2>1. saved' = saved
    BY <1>6 DEF Restore, Restored, RestoreFails
  <2>2. \/ UNCHANGED <<cur, step>>
        \/ At(q, "restore") /\ Report(q, "error")
    BY <1>6 DEF Restore, Restored, RestoreFails, Settle
  <2>3. QED
    BY <1>1, <1>2, <2>1, <2>2 DEF At
<1>7. QED
  BY <1>1, <1>3, <1>4, <1>5, <1>6
     DEF Next, Updater, Apply, Terminated, ScanFails, ExecutePlans, Exit, Scan, Kill, Edit, vars

LEMMA FreshStep ==
  Inv /\ Fresh /\ [Next]_vars => Fresh'
<1> SUFFICES ASSUME Inv, Fresh, [Next]_vars, NEW p \in Projects, NEW f \in Files,
                    <<p, f>> \notin early' \cup late', plan'[p].status # "unscanned"
             PROVE  IF Applies(p)' /\ Begun(p)'
                      THEN saved'[p][f] = plan'[p].before[f]
                      ELSE file'[p][f] = plan'[p].before[f]
  BY DEF Fresh
<1>1. ~Rerun
  BY DEF Rerun
<1>2. /\ mode' = mode /\ early \subseteq early' /\ late \subseteq late'
      /\ edits' = edits \/ ~\E q \in Projects : Scan(q)
  BY <1>1
     DEF Next, Updater, Apply, Restore, Terminated, ScanFails, ExecutePlans, Exit, Scan,
         PassOver, Preflight, ReadGoFiles, ReadFails, WriteFile, WriteFails, GoCommand,
         GoCommandFails, Restored, RestoreFails, Kill, Edit, vars, options, history
<1>3. CASE Scan(p) /\ UNCHANGED <<file, cur, step>> /\ plan'[p].before = file[p]
  <2>1. ~Begun(p)'
    BY <1>3, UpdaterAssumption DEF Scan, Inv, Stage, Begun, Projects
  <2>2. QED
    BY <1>3, <2>1
<1>4. CASE plan'[p] = plan[p]
  <2>1. Applies(p)' <=> Applies(p)
    BY <1>2, <1>4 DEF Applies
  <2>2. IF Applies(p) /\ Begun(p) THEN saved[p][f] = plan[p].before[f]
                                  ELSE file[p][f] = plan[p].before[f]
    BY <1>2, <1>4 DEF Fresh
  <2>3. ~Busy(p) => file'[p][f] = file[p][f]
    BY <1>4, FileSteps
  <2>4. CASE Applies(p)
    BY <1>1, <1>4, <2>1, <2>2, <2>3, <2>4, BeginSteps, BusyFacts
  <2>5. CASE ~Applies(p)
    BY <1>4, <2>1, <2>2, <2>3, <2>5, BusyFacts
  <2>6. QED
    BY <2>4, <2>5
<1>5. \/ plan'[p] = plan[p]
      \/ Scan(p) /\ UNCHANGED <<file, cur, step>> /\ plan'[p].before = file[p]
  BY <1>1, PlanSteps
<1>6. QED
  BY <1>3, <1>4, <1>5

LEMMA ReportsStep ==
  Inv /\ Reports /\ [Next]_vars => Reports'
<1> SUFFICES ASSUME Inv, Reports, [Next]_vars, NEW p \in Projects
             PROVE  /\ ((cur > p /\ plan[p].status # "skipped") =>
                          result[p] \in IF Applies(p) THEN {"updated", "error"}
                                                      ELSE {plan[p].status})'
                    /\ ((p \in damaged /\ phase # "killed") =>
                          \/ result[p] = "error"
                          \/ phase = "executing" /\ cur = p /\ step = "restore")'
  BY DEF Reports
<1> DEFINE Goal ==
      /\ ((cur > p /\ plan[p].status # "skipped") =>
            result[p] \in IF Applies(p) THEN {"updated", "error"} ELSE {plan[p].status})'
      /\ ((p \in damaged /\ phase # "killed") =>
            \/ result[p] = "error"
            \/ phase = "executing" /\ cur = p /\ step = "restore")'
<1> USE DEF Inv
<1>a. /\ cur \in Nat /\ cur + 1 # cur
      /\ result \in [Projects -> {"none", "updated", "up-to-date", "would-update",
                                  "manual-migration-required", "error"}]
      /\ Projects \subseteq Nat \ {0}
  BY UpdaterAssumption DEF TypeOK, Projects
<1>1. ASSUME NEW q \in Projects, Scan(q) PROVE Goal
  BY <1>1, <1>a DEF Scan, Stage, Reports, history
<1>2. CASE ScanFails \/ ExecutePlans \/ Exit \/ Kill \/ UNCHANGED vars
  <2>1. UNCHANGED <<mode, plan, cur, step, result>> /\ (phase' # "killed" => damaged' = damaged)
    BY <1>2 DEF ScanFails, ExecutePlans, Exit, Kill, vars, options, history
  <2>2. phase' \in {"killed", phase} \/ step = "next"
    <3>1. CASE Exit
      BY <3>1, <1>a, UpdaterAssumption DEF Exit, Stage, TypeOK, Projects
    <3>2. CASE ScanFails \/ ExecutePlans \/ Kill \/ UNCHANGED vars
      BY <3>2 DEF ScanFails, ExecutePlans, Kill, vars, Stage
    <3>3. QED
      BY <1>2, <3>1, <3>2
  <2>3. phase = "killed" => phase' = "killed"
    BY <1>2 DEF ScanFails, ExecutePlans, Exit, Kill, vars
  <2>4. QED
    BY <2>1, <2>2, <2>3 DEF Reports, Applies
<1>3. CASE Rerun
  BY <1>3, <1>a DEF Rerun
<1>4. ASSUME NEW q \in Projects, NEW g \in Files, Edit(q, g) PROVE Goal
  BY <1>4 DEF Edit, options, Reports, Applies
<1>5. ASSUME NEW q \in Projects, Apply(q) PROVE Goal
  <2>1. CASE q # p
    <3>1. /\ UNCHANGED <<mode, plan>> /\ damaged' \subseteq damaged \cup {q}
          /\ cur = q /\ result'[p] = result[p]
      BY <1>5, <2>1, OtherPlans
    <3>2. cur' \in {cur, cur + 1} /\ phase = "executing"
      BY <1>5 DEF Apply, PassOver, Preflight, ReadGoFiles, ReadFails, WriteFile, WriteFails,
                  GoCommand, GoCommandFails, Recover, Report, Go, At
    <3>3. QED
      BY <1>a, <2>1, <3>1, <3>2 DEF Reports, Applies
  <2>2. CASE q = p
    <3>1. /\ UNCHANGED <<mode, plan, phase>> /\ cur = p /\ phase = "executing"
          /\ result[p] = "none"
      BY <1>5, <1>a, <2>2
         DEF Apply, PassOver, Preflight, ReadGoFiles, ReadFails, WriteFile, WriteFails,
             GoCommand, GoCommandFails, At, options, Stage
    <3>2. CASE PassOver(p)
      <4>1. p \notin damaged' /\ ~Applies(p)
        BY <3>1, <3>2 DEF PassOver, At, history, Reports
      <4>2. QED
        BY <1>a, <3>1, <3>2, <4>1 DEF PassOver, Report, Applies
    <3>3. CASE ~PassOver(p)
      <4>1. Applies(p)
        BY <1>5, <2>2, <3>3
           DEF Apply, Preflight, ReadGoFiles, ReadFails, WriteFile, WriteFails,
               GoCommand, GoCommandFails, At, Stage
      <4>2. Report(p, "error") \/ Report(p, "updated") \/ \E s : Go(s)
        BY <1>5, <2>2, <3>3
           DEF Apply, Preflight, ReadGoFiles, ReadFails, WriteFile, WriteFails,
               GoCommand, GoCommandFails, Recover
      <4>3. p \in damaged' => Report(p, "error") \/ Go("restore")
        <5>1. step # "restore"
          BY <1>5, <2>2
             DEF Apply, PassOver, Preflight, ReadGoFiles, ReadFails, WriteFile, WriteFails,
                 GoCommand, GoCommandFails, At
        <5>2. p \notin damaged
          BY <3>1, <5>1 DEF Reports
        <5>3. QED
          BY <1>5, <2>2, <5>2
             DEF Apply, PassOver, Preflight, ReadGoFiles, ReadFails, WriteFile, WriteFails,
                 GoCommand, GoCommandFails, Recover, history
      <4>4. QED
        BY <1>a, <3>1, <4>1, <4>2, <4>3 DEF Report, Go, Applies
    <3>4. QED
      BY <3>2, <3>3
  <2>3. QED
    BY <2>1, <2>2
<1>6. ASSUME NEW q \in Projects, NEW g \in Files, Restore(q, g) PROVE Goal
  <2>1. /\ UNCHANGED <<mode, plan, phase>> /\ damaged' \subseteq damaged \cup {q}
        /\ <<q, g>> \in restoring
    BY <1>6 DEF Restore, Restored, RestoreFails, options, history
  <2>2. Applies(q) /\ ((cur = q /\ step = "restore") \/ (cur > q /\ q \in damaged))
    BY <2>1 DEF Restoring
  <2>3. \/ UNCHANGED <<result, cur, step>>
        \/ At(q, "restore") /\ Report(q, "error")
    BY <1>6 DEF Restore, Restored, RestoreFails, Settle
  <2>4. CASE At(q, "restore") /\ Report(q, "error")
    BY <1>a, <2>1, <2>2, <2>4 DEF At, Report, Reports, Applies
  <2>5. CASE UNCHANGED <<result, cur, step>>
    <3>1. CASE damaged' = damaged
      BY <2>1, <2>5, <3>1 DEF Reports, Applies
    <3>2. CASE RestoreFails(q, g) /\ ~At(q, "restore")
      <4>1. CASE cur = q /\ step = "restore"
        <5>1. phase = "killed"
          BY <3>2, <4>1 DEF At, Stage, TypeOK, Ended
        <5>2. QED
          BY <2>1, <2>5, <5>1 DEF Reports, Applies
      <4>2. CASE cur > q /\ q \in damaged
        BY <2>1, <2>5, <4>2 DEF Reports, Applies
      <4>3. QED
        BY <2>2, <4>1, <4>2
    <3>3. CASE RestoreFails(q, g) /\ At(q, "restore")
      BY <1>a, <2>5, <3>3 DEF RestoreFails, Report
    <3>4. QED
      BY <1>6, <3>1, <3>2, <3>3 DEF Restore, Restored, history
  <2>6. QED
    BY <2>3, <2>4, <2>5
<1>7. QED
  BY <1>1, <1>2, <1>3, <1>4, <1>5, <1>6 DEF Next, Updater, Terminated

LEMMA ExitCodeStep ==
  Inv /\ ExitCode /\ [Next]_vars => ExitCode'
<1> SUFFICES ASSUME Inv, ExitCode, [Next]_vars PROVE ExitCode'
  OBVIOUS
<1>1. CASE Exit
  <2>1. mode \in {"dry-run", "check", "write"} /\ mode' = mode /\ cur' = cur
    BY <1>1, UpdaterAssumption DEF Exit, options, Inv, TypeOK
  <2>2. \A s : Reported(s)' = Reported(s)
    BY <1>1 DEF Exit, Reported
  <2>3. exitCode' # 1 => Reported("error") = {}
    BY <1>1 DEF Exit
  <2>4. exitCode' = 0 /\ mode # "dry-run" => Reported("manual-migration-required") = {}
    BY <1>1, <2>1 DEF Exit
  <2>5. exitCode' = 0 /\ mode = "check" => Reported("would-update") = {}
    BY <1>1, <2>1 DEF Exit
  <2>6. QED
    BY <1>1, <2>1, <2>2, <2>3, <2>4, <2>5 DEF Exit, ExitCode
<1>2. CASE ScanFails
  BY <1>2 DEF ScanFails, ExitCode
<1>3. CASE ~Exit /\ ~ScanFails
  <2>1. phase' = "exited" => phase = "exited" /\ UNCHANGED <<exitCode, mode, cur, result>>
    BY <1>3
       DEF Next, Updater, Apply, Restore, Terminated, ExecutePlans, Scan, PassOver, Preflight,
           ReadGoFiles, ReadFails, WriteFile, WriteFails, GoCommand, GoCommandFails, Restored,
           RestoreFails, Settle, At, Kill, Rerun, Edit, vars, options
  <2>2. QED
    BY <2>1 DEF ExitCode, Reported
<1>4. QED
  BY <1>1, <1>2, <1>3

LEMMA ExitInvariance ==
  Spec => []Exiting
<1>1. Init => Exiting
  <2>1. ASSUME Init PROVE Scanned
    BY <2>1 DEF Init, Scanned
  <2>2. ASSUME Init PROVE Fresh /\ Reports /\ ExitCode
    BY <2>2, UpdaterAssumption DEF Init, Fresh, Reports, ExitCode, Projects
  <2>3. QED
    BY <2>1, <2>2 DEF Exiting
<1>2. Inv /\ Exiting /\ [Next]_vars => Exiting'
  BY ScannedStep, FreshStep, ReportsStep, ExitCodeStep DEF Exiting
<1>3. QED
  BY <1>1, <1>2, Invariance, PTL DEF Spec

\* The exit code agrees with the tree: an exit code of 0 from a check or a
\* write means that every project which nobody else has touched is up to date,
\* and a damaged project makes it 1.
THEOREM UpdaterExitTruthful ==
  Spec => []ExitTruthful
<1>1. ASSUME Inv, Application, Exiting, phase = "exited"
      PROVE  /\ damaged # {} => exitCode = 1
             /\ (exitCode = 0 /\ mode # "dry-run") =>
                  \A p \in Projects :
                    (/\ plan[p].status # "skipped"
                     /\ \A f \in Files : <<p, f>> \notin early \cup late) =>
                      IF Kind[p] = "go"
                        THEN file[p][1].ver \in
                               {"new"} \cup (IF mode = "write" THEN GoResolves ELSE {})
                        ELSE \A f \in Files : file[p][f].ver \notin {"old", "v1", "bad"}
  <2>1. damaged # {} => exitCode = 1
    BY <1>1 DEF Exiting, Reports, ExitCode, Reported, Inv, TypeOK
  <2>2. ASSUME exitCode = 0, mode # "dry-run", NEW p \in Projects, plan[p].status # "skipped",
               \A f \in Files : <<p, f>> \notin early \cup late
        PROVE  IF Kind[p] = "go"
                 THEN file[p][1].ver \in
                        {"new"} \cup (IF mode = "write" THEN GoResolves ELSE {})
                 ELSE \A f \in Files : file[p][f].ver \notin {"old", "v1", "bad"}
    <3>a. mode \in {"check", "write"}
      BY <1>1, <2>2, UpdaterAssumption DEF Inv, TypeOK
    <3>1. /\ cur > p /\ p \notin damaged /\ Begun(p)
          /\ result[p] \notin {"error", "manual-migration-required"}
          /\ mode = "check" => result[p] # "would-update"
      <4>1. cur > NumProjects /\ exitCode # 1 /\ Reported("error") = {}
        BY <1>1, <2>2 DEF Exiting, ExitCode
      <4>2. cur > p
        BY <1>1, <4>1, UpdaterAssumption DEF Projects, Inv, TypeOK
      <4>3. /\ p \notin Reported("error") \cup Reported("manual-migration-required")
            /\ mode = "check" => p \notin Reported("would-update")
        BY <1>1, <2>2, <4>1 DEF Exiting, ExitCode
      <4>4. QED
        BY <2>1, <4>1, <4>2, <4>3 DEF Reported, Begun
    <3>2. result[p] \in IF Applies(p) THEN {"updated", "error"} ELSE {plan[p].status}
      BY <1>1, <2>2, <3>1 DEF Exiting, Reports
    <3>3. plan[p].status # "unscanned"
      BY <1>1, <2>2, <3>1, <3>2 DEF Inv, TypeOK, Applies
    <3>4. \A f \in Files :
            IF Applies(p) THEN saved[p][f] = plan[p].before[f]
                          ELSE file[p][f] = plan[p].before[f]
      BY <1>1, <2>2, <3>1, <3>3 DEF Exiting, Fresh
    <3>5. /\ plan[p].status = IF Kind[p] = "go" THEN GoStatus(plan[p].before)
                                                ELSE TextStatus(plan[p].before)
          /\ Kind[p] = "text" => plan[p].before[2].ver \notin {"v1", "bad"}
      BY <1>1, <3>3 DEF Exiting, Scanned
    <3>6. CASE ~Applies(p)
      <4>1. plan[p].status = "up-to-date"
        <5>1. result[p] = plan[p].status
          BY <3>2, <3>6
        <5>2. plan[p].status \in PlanStatus
          BY <1>1 DEF Inv, TypeOK
        <5>3. plan[p].status # "would-update"
          BY <3>a, <3>1, <3>6, <5>1 DEF Applies
        <5>4. QED
          BY <2>2, <3>1, <3>3, <5>1, <5>2, <5>3 DEF PlanStatus
      <4>2. CASE Kind[p] = "go"
        BY <3>4, <3>5, <3>6, <4>1, <4>2 DEF GoStatus, Files
      <4>3. CASE Kind[p] # "go"
        <5>1. /\ Kind[p] = "text" /\ OldFiles(plan[p].before) = {}
              /\ plan[p].before[1].ver \notin {"v1", "bad"}
          BY <3>5, <4>1, <4>3, UpdaterAssumption DEF TextStatus
        <5>2. QED
          BY <3>4, <3>5, <3>6, <4>3, <5>1 DEF OldFiles, Files
      <4>4. QED
        BY <4>2, <4>3
    <3>7. CASE Applies(p)
      <4>1. result[p] = "updated" /\ mode = "write" /\ plan[p].status = "would-update"
        BY <3>1, <3>2, <3>7 DEF Applies
      <4>2. Settled(p) /\ Untouched(p) = Files
        BY <1>1, <2>2, <3>1, <3>7 DEF Application, Untouched
      <4>3. CASE Kind[p] = "go"
        BY <4>1, <4>2, <4>3 DEF Settled, Files
      <4>4. CASE Kind[p] # "go"
        <5>1. Kind[p] = "text" /\ plan[p].before[1].ver \notin {"v1", "bad"}
          BY <3>5, <4>1, <4>4, UpdaterAssumption DEF TextStatus
        <5>2. ASSUME NEW f \in Files PROVE file[p][f].ver \notin {"old", "v1", "bad"}
          <6>1. CASE f \in Updates(p)
            <7>1. file[p][f] = After(p, f)
              BY <4>1, <4>2, <5>1, <6>1 DEF Settled
            <7>2. After(p, f).ver = "new"
              BY <1>1 DEF After, Inv, TypeOK, Content
            <7>3. QED
              BY <7>1, <7>2
          <6>2. CASE f \notin Updates(p)
            BY <3>4, <3>5, <3>7, <4>1, <4>2, <5>1, <6>2 DEF Settled, Updates, OldFiles, Files
          <6>3. QED
            BY <6>1, <6>2
        <5>3. QED
          BY <4>4, <5>2
      <4>5. QED
        BY <4>3, <4>4
    <3>8. QED
      BY <3>6, <3>7
  <2>3. QED
    BY <2>1, <2>2
<1>2. Inv /\ Application /\ Exiting => ExitTruthful
  BY <1>1 DEF ExitTruthful
<1>3. QED
  BY Invariance, ExitInvariance, <1>2, PTL

-----------------------------------------------------------------------------
(* The safety half of RunEnds: the updater always has a step to take until *)
(* it ends, and every step takes it, or the tree, further in an order in   *)
(* which it can go only so far.                                            *)

\* What executePlans waits for is there to come: a write has a file left, and
\* a restoration that Promise.all waits for is under way.
NeverStranded ==
  phase = "executing" =>
    \/ cur > NumProjects
    \/ /\ cur \in Projects
       /\ \/ step = "next"
          \/ step = "write" /\ ToWrite(cur) \in Updates(cur) \ written
          \/ step \in {"get", "tidy"} /\ Kind[cur] = "go"
          \/ step = "restore" /\ \E f \in Files : <<cur, f>> \in restoring

PhaseRank == [scanning |-> 0, executing |-> 1, exited |-> 2, killed |-> 3]
StepRank  == [next |-> 0, write |-> 1, get |-> 1, tidy |-> 2, restore |-> 3]
Unscanned == {p \in Projects : plan[p].status = "unscanned"}

\* Promise.all is not waiting when the last restoration has settled.
Awaited ==
  phase = "executing" /\ step = "restore" => \E f \in Files : <<cur, f>> \in restoring

\* A process that was killed restores nothing any more.
KilledIsQuiet == phase = "killed" => restoring = {}

\* Within one place of executePlans, files are written or restorations end, and
\* only an edit by somebody else leaves the updater where it is.
FilesAdvance ==
  \/ written \subseteq written' /\ written' # written
  \/ /\ written' = written
     /\ \/ restoring' \subseteq restoring /\ restoring' # restoring
        \/ restoring' = restoring /\ edits' = edits + 1

PlaceAdvances ==
  \/ cur' > cur
  \/ /\ cur' = cur
     /\ \/ StepRank[step'] > StepRank[step]
        \/ step' = step /\ FilesAdvance

\* Runs of the updater, phases of a run, plans scanned, plans executed, steps
\* of a plan, files: the later ones count while the earlier ones stand still.
Advances ==
  \/ runs' > runs
  \/ /\ runs' = runs
     /\ \/ PhaseRank[phase'] > PhaseRank[phase]
        \/ /\ phase' = phase
           /\ \/ Unscanned' \subseteq Unscanned /\ Unscanned' # Unscanned
              \/ Unscanned' = Unscanned /\ PlaceAdvances

LEMMA AwaitedStep ==
  Inv /\ Awaited /\ [Next]_vars => Awaited'
<1> SUFFICES ASSUME Inv, Awaited, [Next]_vars PROVE Awaited'
  OBVIOUS
<1> USE UpdaterAssumption DEF Inv
<1>1. CASE \/ ScanFails \/ Exit \/ Kill \/ Rerun \/ UNCHANGED vars
           \/ \E p \in Projects : Scan(p)
           \/ \E p \in Projects, f \in Files : Edit(p, f)
  BY <1>1 DEF ScanFails, Exit, Kill, Rerun, Scan, Edit, vars, Awaited
<1>2. CASE ExecutePlans
  BY <1>2 DEF ExecutePlans, Stage, Awaited
<1>3. ASSUME NEW p \in Projects,
             \/ PassOver(p) \/ Preflight(p) \/ ReadGoFiles(p) \/ ReadFails(p)
             \/ WriteFile(p) \/ GoCommand(p)
      PROVE  Awaited'
  BY <1>3 DEF PassOver, Preflight, ReadGoFiles, ReadFails, WriteFile, GoCommand, Report, Go,
              Awaited
<1>4. ASSUME NEW p \in Projects, WriteFails(p) \/ GoCommandFails(p)
      PROVE  Awaited'
  <2>1. cur = p
    BY <1>4 DEF WriteFails, GoCommandFails, At
  <2>2. PICK fs \in SUBSET Files : Recover(p, fs)
    BY <1>4 DEF WriteFails, GoCommandFails, TypeOK
  <2>3. CASE fs = {}
    BY <2>2, <2>3 DEF Recover, Report, Awaited
  <2>4. CASE fs # {}
    <3>1. PICK f \in fs : TRUE
      BY <2>4
    <3>2. <<p, f>> \in restoring' /\ cur' = cur /\ f \in Files
      BY <2>2, <2>4, <3>1 DEF Recover, Go
    <3>3. QED
      BY <2>1, <3>2 DEF Awaited
  <2>5. QED
    BY <2>3, <2>4
<1>5. ASSUME NEW p \in Projects, NEW f \in Files, Restored(p, f) PROVE Awaited'
  <2>1. restoring' = restoring \ {<<p, f>>} /\ phase' = phase
    BY <1>5 DEF Restored
  <2>2. CASE At(p, "restore") /\ {g \in Files : <<p, g>> \in restoring} = {f}
    BY <1>5, <2>2 DEF Restored, Settle, Report, Awaited
  <2>3. CASE At(p, "restore") /\ {g \in Files : <<p, g>> \in restoring} # {f}
    <3>1. PICK g \in Files : <<p, g>> \in restoring /\ g # f
      BY <1>5, <2>3 DEF Restored
    <3>2. QED
      BY <1>5, <2>1, <2>3, <3>1 DEF Restored, Settle, At, Awaited
  <2>4. CASE ~At(p, "restore")
    BY <1>5, <2>1, <2>4 DEF Restored, Settle, At, Awaited
  <2>5. QED
    BY <2>2, <2>3, <2>4
<1>6. ASSUME NEW p \in Projects, NEW f \in Files, RestoreFails(p, f) PROVE Awaited'
  <2>1. CASE At(p, "restore")
    BY <1>6, <2>1 DEF RestoreFails, Report, Awaited
  <2>2. CASE ~At(p, "restore")
    BY <1>6, <2>2 DEF RestoreFails, At, Awaited
  <2>3. QED
    BY <2>1, <2>2
<1>7. QED
  BY <1>1, <1>2, <1>3, <1>4, <1>5, <1>6 DEF Next, Updater, Apply, Restore, Terminated

\* The updater never waits for what nobody is doing: until all plans are
\* executed there is a plan to take up, a file left to write, a command of the
\* go plan to run, or a restoration under way.
THEOREM UpdaterNeverStranded ==
  Spec => []NeverStranded
<1>1. Init => Awaited
  BY DEF Init, Awaited
<1>2. ASSUME Inv, Awaited
      PROVE  NeverStranded
  <2>1. cur \in Projects \/ cur > NumProjects
    BY <1>2, UpdaterAssumption DEF Inv, TypeOK, Projects
  <2>2. step = "write" => ToWrite(cur) \in Updates(cur) \ written
    BY <1>2, ToWriteRemains DEF Inv, Stage
  <2>3. QED
    BY <1>2, <2>1, <2>2 DEF Inv, TypeOK, Stage, Awaited, NeverStranded
<1>3. QED
  BY <1>1, <1>2, AwaitedStep, Invariance, PTL DEF Spec

LEMMA KilledInvariance ==
  Spec => []KilledIsQuiet
<1>1. Init => KilledIsQuiet
  BY DEF Init, KilledIsQuiet
<1>2. ASSUME KilledIsQuiet, [Next]_vars
      PROVE  KilledIsQuiet'
  <2>1. CASE Kill
    BY <2>1 DEF Kill, KilledIsQuiet
  <2>2. ASSUME NEW p \in Projects, Apply(p) PROVE KilledIsQuiet'
    BY <2>2 DEF Apply, PassOver, Preflight, ReadGoFiles, ReadFails, WriteFile, WriteFails,
                GoCommand, GoCommandFails, At, KilledIsQuiet
  <2>3. ASSUME NEW p \in Projects, NEW f \in Files, Restore(p, f) PROVE KilledIsQuiet'
    BY <1>2, <2>3 DEF Restore, Restored, RestoreFails, KilledIsQuiet
  <2>4. CASE \/ ScanFails \/ ExecutePlans \/ Exit \/ Rerun \/ UNCHANGED vars
             \/ \E p \in Projects : Scan(p)
             \/ \E p \in Projects, f \in Files : Edit(p, f)
    BY <1>2, <2>4 DEF ScanFails, ExecutePlans, Exit, Rerun, Scan, Edit, vars, KilledIsQuiet
  <2>5. QED
    BY <1>2, <2>1, <2>2, <2>3, <2>4 DEF Next, Updater, Terminated
<1>3. QED
  BY <1>1, <1>2, PTL DEF Spec

LEMMA ApplyAdvances ==
  ASSUME Inv, NEW p \in Projects, Apply(p)
  PROVE  Advances
<1> USE UpdaterAssumption DEF Inv
<1>1. UNCHANGED <<runs, phase, plan>> /\ cur = p /\ cur \in Nat
  BY DEF Apply, PassOver, Preflight, ReadGoFiles, ReadFails, WriteFile, WriteFails, GoCommand,
         GoCommandFails, At, options, Projects
<1>2. SUFFICES PlaceAdvances
  BY <1>1 DEF Advances, Unscanned
<1>3. ASSUME NEW status, Report(p, status) PROVE PlaceAdvances
  BY <1>1, <1>3 DEF Report, PlaceAdvances
<1>4. CASE PassOver(p) \/ ReadFails(p)
  BY <1>3, <1>4 DEF PassOver, ReadFails
<1>5. CASE Preflight(p) \/ ReadGoFiles(p)
  BY <1>3, <1>5 DEF Preflight, ReadGoFiles, At, Go, StepRank, PlaceAdvances
<1>6. CASE WriteFile(p)
  <2>1. ToWrite(p) \notin written /\ step = "write"
    BY <1>6, ToWriteRemains DEF WriteFile, At, Stage
  <2>2. QED
    BY <1>3, <1>6, <2>1 DEF WriteFile, Go, FilesAdvance, PlaceAdvances
<1>7. CASE WriteFails(p) \/ GoCommandFails(p)
  <2>1. step \in {"write", "get", "tidy"}
    BY <1>7 DEF WriteFails, GoCommandFails, At
  <2>2. PICK fs \in SUBSET Files : Recover(p, fs)
    BY <1>7 DEF WriteFails, GoCommandFails, TypeOK
  <2>3. QED
    BY <1>3, <2>1, <2>2 DEF Recover, Go, StepRank, PlaceAdvances
<1>8. CASE GoCommand(p)
  BY <1>3, <1>8 DEF GoCommand, At, Go, StepRank, PlaceAdvances
<1>9. QED
  BY <1>4, <1>5, <1>6, <1>7, <1>8 DEF Apply

LEMMA RestoreAdvances ==
  ASSUME Inv, NEW p \in Projects, NEW f \in Files, Restore(p, f)
  PROVE  Advances
<1> USE UpdaterAssumption DEF Inv
<1>1. /\ UNCHANGED <<runs, phase, plan, written>>
      /\ restoring' \subseteq restoring /\ restoring' # restoring
      /\ cur \in Nat
  BY DEF Restore, Restored, RestoreFails, options, TypeOK
<1>2. SUFFICES PlaceAdvances
  BY <1>1 DEF Advances, Unscanned
<1>3. Report(p, "error") \/ UNCHANGED <<result, cur, step>>
  BY DEF Restore, Restored, RestoreFails, Settle
<1>4. QED
  BY <1>1, <1>3 DEF Report, FilesAdvance, PlaceAdvances

\* A process that has ended and whose restorations go on is killed once.
LEMMA KillAdvances ==
  ASSUME Inv, KilledIsQuiet, Kill
  PROVE  Advances
<1>1. phase \in {"scanning", "executing", "exited"} /\ phase' = "killed" /\ runs' = runs
  BY DEF Kill, KilledIsQuiet, Inv, TypeOK, Ended, options
<1>2. QED
  BY <1>1 DEF PhaseRank, Advances

\* The updater does not go round in circles: every step begins a further run,
\* or takes the run to a later phase, a further scan or plan, a later step of
\* the plan, a further file written or restored; it stays where it is only
\* while somebody else edits a file.  Each of these goes on only so far.
THEOREM UpdaterAdvances ==
  Spec => [][Advances]_vars
<1>1. ASSUME Inv, KilledIsQuiet, Next, ~UNCHANGED vars
      PROVE  Advances
  <2>1. ASSUME NEW p \in Projects, Scan(p) PROVE Advances
    <3>1. plan'[p].status # "unscanned" /\ \A q \in Projects \ {p} : plan'[q] = plan[q]
      <4>1. \A c : GoStatus(c) # "unscanned" /\ TextStatus(c) # "unscanned"
        BY DEF GoStatus, TextStatus
      <4>2. plan \in [Projects -> [status : PlanStatus, before : [Files -> Content]]]
        BY <1>1 DEF Inv, TypeOK
      <4>3. QED
        BY <2>1, <4>1, <4>2 DEF Scan
    <3>2. p \in Unscanned /\ p \notin Unscanned' /\ Unscanned' \subseteq Unscanned
      BY <2>1, <3>1 DEF Scan, Unscanned
    <3>3. QED
      BY <2>1, <3>2 DEF Scan, options, Advances
  <2>2. CASE ScanFails \/ ExecutePlans \/ Exit
    BY <2>2 DEF ScanFails, ExecutePlans, Exit, options, PhaseRank, Advances
  <2>3. CASE Kill
    BY <1>1, <2>3, KillAdvances
  <2>4. CASE Rerun
    BY <1>1, <2>4, UpdaterAssumption DEF Rerun, Inv, TypeOK, Advances
  <2>5. ASSUME NEW p \in Projects, Apply(p) PROVE Advances
    BY <1>1, <2>5, ApplyAdvances
  <2>6. ASSUME NEW p \in Projects, NEW f \in Files, Restore(p, f) PROVE Advances
    BY <1>1, <2>6, RestoreAdvances
  <2>7. ASSUME NEW p \in Projects, NEW f \in Files, Edit(p, f) PROVE Advances
    BY <2>7 DEF Edit, options, Advances, PlaceAdvances, FilesAdvance, Unscanned
  <2>8. QED
    BY <1>1, <2>1, <2>2, <2>3, <2>4, <2>5, <2>6, <2>7 DEF Next, Updater, Terminated
<1>2. Inv /\ KilledIsQuiet /\ [Next]_vars => [Advances]_vars
  BY <1>1
<1>3. QED
  BY <1>2, Invariance, KilledInvariance, PTL DEF Spec
=============================================================================
