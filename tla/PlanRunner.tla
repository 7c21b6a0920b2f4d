----------------------------- MODULE PlanRunner -----------------------------
(***************************************************************************)
(* The dependency updater: scripts/update-cdk-dependencies.                *)
(*                                                                         *)
(* The adapter of each language scans its projects and makes a plan for    *)
(* each of them; executePlans then takes the plans one by one and, in      *)
(* write mode, applies those that would update.  A text plan (python,      *)
(* java, C#) compares every file with what the scan read, writes them one  *)
(* after the other and puts back what it has written when a write fails.   *)
(* A Go plan runs `go get' and `go mod tidy' and restores go.mod and       *)
(* go.sum when one of them fails.                                          *)
(*                                                                         *)
(* All of this happens on a working tree that other programs edit too, and *)
(* the updater can be killed and run again on what it left.                *)
(***************************************************************************)
EXTENDS Integers, FiniteSets

CONSTANTS
  NumProjects,  \* projects, in the order of their manifest paths
  Kind,         \* "text" or "go", of each project
  Modes,        \* a subset of {"dry-run", "check", "write"}
  GoResolves,   \* what `go get' can leave in go.mod: "low", "new"
  EditVersions, \* versions that an edit by somebody else can leave
  MaxEdits,     \* bound on the number of such edits
  MaxRuns       \* bound on the number of times the updater is run

Projects == 1 .. NumProjects

\* 1: requirements.txt, pom.xml, the .csproj or go.mod; 2: the pyproject.toml
\* next to a requirements.txt, or go.sum.
Files == {1, 2}

\* What the scan can make of a file.  "old": a version other than the target;
\* "low": CDK at the target, constructs below its own (go.mod); "got": go.sum
\* after `go get' alone; "v1": C# packages of CDK v1; "bad": what an adapter
\* refuses; "torn": cut short by a write that failed.
Versions == {"old", "low", "got", "new", "v1", "bad", "torn", "absent"}

ASSUME UpdaterAssumption ==
  /\ NumProjects \in Nat
  /\ Kind \in [Projects -> {"text", "go"}]
  /\ Modes \subseteq {"dry-run", "check", "write"}
  /\ GoResolves \subseteq {"low", "new"}
  /\ EditVersions \subseteq {"old", "new"}
  /\ MaxEdits \in Nat
  /\ MaxRuns \in Nat \ {0}

\* A file is the version in it and whose text it is: 0 for the original text,
\* n for the text of the n-th edit.
Content == [text : 0 .. MaxEdits, ver : Versions]
Torn    == [text |-> 0, ver |-> "torn"]
Absent  == [text |-> 0, ver |-> "absent"]

VARIABLES
  \* the tree; it survives the process
  file,       \* the contents of its two files
  edits,      \* number of edits made so far
  \* the process
  mode, runs,
  phase, exitCode,
  plan,       \* status of each plan, and the contents its scan read
  result,     \* status reported for each plan
  cur,        \* the plan that executePlans has come to
  step,       \* where its application is
  saved,      \* currentContents, or [modBefore, sumBefore]
  written,    \* the array `written' of the current plan
  restoring,  \* files being restored
  \* history
  early,      \* files edited between the scan and the application of their plan
  late,       \* files edited after their plan's application had begun
  damaged     \* projects with a file torn, or a restoration that failed

options == <<mode, runs>>
history == <<early, late, damaged>>
vars    == <<edits, file, options, phase, exitCode, plan, result, cur, step, saved, written,
             restoring, history>>

Ended == {"exited", "killed"}

PlanStatus == {"unscanned", "skipped", "up-to-date", "would-update",
               "manual-migration-required", "error"}

TypeOK ==
  /\ file \in [Projects -> [Files -> Content]]
  /\ edits \in 0 .. MaxEdits
  /\ mode \in Modes
  /\ runs \in 1 .. MaxRuns
  /\ phase \in {"scanning", "executing"} \cup Ended
  /\ exitCode \in {0, 1, 2}
  /\ plan \in [Projects -> [status : PlanStatus, before : [Files -> Content]]]
  /\ result \in [Projects -> {"none", "updated", "up-to-date", "would-update",
                              "manual-migration-required", "error"}]
  /\ cur \in 1 .. NumProjects + 1
  /\ step \in {"next", "write", "get", "tidy", "restore"}
  /\ saved \in [Projects -> [Files -> Content]]
  /\ written \subseteq Files
  /\ restoring \subseteq Projects \X Files
  /\ early \subseteq Projects \X Files
  /\ late \subseteq Projects \X Files
  /\ damaged \subseteq Projects

TextManifests == {"old", "new", "v1", "bad"}
GoManifests   == {"old", "low", "new"}

Originals == [text : {0}, ver : Versions]

Init ==
  /\ file \in [Projects -> [Files -> Originals]]
  /\ \A p \in Projects :
       /\ file[p][1].ver \in IF Kind[p] = "go" THEN GoManifests ELSE TextManifests
       /\ file[p][2].ver \in IF Kind[p] = "go" THEN {"old", "absent"}
                                              ELSE {"old", "new", "absent"}
  /\ edits = 0
  /\ mode \in Modes
  /\ runs = 1
  /\ phase = "scanning"
  /\ exitCode = 0
  /\ plan = [p \in Projects |-> [status |-> "unscanned", before |-> file[p]]]
  /\ result = [p \in Projects |-> "none"]
  /\ cur = 1
  /\ step = "next"
  /\ saved = file
  /\ written = {}
  /\ restoring = {}
  /\ early = {}
  /\ late = {}
  /\ damaged = {}

-----------------------------------------------------------------------------
(* The scan.                                                               *)

OldFiles(content) == {f \in Files : content[f].ver = "old"}

TextStatus(content) ==
  CASE content[1].ver \in {"torn", "absent"} -> "skipped"
    [] content[1].ver = "v1"                 -> "manual-migration-required"
    [] content[1].ver = "bad"                -> "error"
    [] OTHER -> IF OldFiles(content) # {} THEN "would-update" ELSE "up-to-date"

\* cdkVersion differs from the target or constructsVersion is below its own.
GoStatus(content) ==
  CASE content[1].ver \in {"old", "low"} -> "would-update"
    [] content[1].ver = "new"            -> "up-to-date"
    [] OTHER                             -> "skipped"

\* The adapters scan their projects in no common order.
Scan(p) ==
  /\ phase = "scanning"
  /\ plan[p].status = "unscanned"
  /\ plan' = [plan EXCEPT ![p] =
                [status |-> IF Kind[p] = "go" THEN GoStatus(file[p]) ELSE TextStatus(file[p]),
                 before |-> file[p]]]
  /\ UNCHANGED <<edits, file, options, phase, exitCode, result, cur, step, saved, written,
                 restoring, history>>

\* loadTargetVersions, a readdir or a readFile throws: main returns 1.
ScanFails ==
  /\ phase = "scanning"
  /\ phase' = "exited"
  /\ exitCode' = 1
  /\ UNCHANGED <<edits, file, options, plan, result, cur, step, saved, written, restoring,
                 history>>

ExecutePlans ==
  /\ phase = "scanning"
  /\ \A p \in Projects : plan[p].status # "unscanned"
  /\ phase' = "executing"
  /\ UNCHANGED <<edits, file, options, exitCode, plan, result, cur, step, saved, written,
                 restoring, history>>

-----------------------------------------------------------------------------
(* executePlans.                                                           *)

Updates(p)   == OldFiles(plan[p].before)

\* Mutant: the mode is not looked at.
Applies_AnyMode(p) == plan[p].status = "would-update"

Applies(p)   == mode = "write" /\ plan[p].status = "would-update"
After(p, f)  == [plan[p].before[f] EXCEPT !.ver = "new"]
At(p, s)     == phase = "executing" /\ cur = p /\ step = s

\* results.push, and on to the next plan.
Report(p, status) ==
  /\ result' = [result EXCEPT ![p] = status]
  /\ cur' = cur + 1
  /\ step' = "next"

Go(s) == step' = s /\ UNCHANGED <<result, cur>>

\* Mutant: a project that is no CDK application is not left out.
PassOver_All(p) ==
  /\ At(p, "next")
  /\ ~Applies(p)
  /\ Report(p, plan[p].status)
  /\ UNCHANGED <<edits, file, options, phase, exitCode, plan, saved, written, restoring,
                 history>>

\* A plan that is not applied keeps its status; a project that is no CDK
\* application has no plan.
PassOver(p) ==
  /\ At(p, "next")
  /\ ~Applies(p)
  /\ Report(p, IF plan[p].status = "skipped" THEN "none" ELSE plan[p].status)
  /\ UNCHANGED <<edits, file, options, phase, exitCode, plan, saved, written, restoring,
                 history>>

\* Mutant: only the first of the files is compared.
Preflight_First(p) ==
  /\ At(p, "next") /\ Applies(p) /\ Kind[p] = "text"
  /\ saved' = [saved EXCEPT ![p] = file[p]]
  /\ written' = {}
  /\ LET first == CHOOSE f \in Updates(p) : \A g \in Updates(p) : f <= g IN
     IF file[p][first] = plan[p].before[first] THEN Go("write") ELSE Report(p, "error")
  /\ UNCHANGED <<edits, file, options, phase, exitCode, plan, restoring, history>>

\* applyTextUpdates: read all the files, compare all of them, then write.
Preflight(p) ==
  /\ At(p, "next") /\ Applies(p) /\ Kind[p] = "text"
  /\ saved' = [saved EXCEPT ![p] = file[p]]
  /\ written' = {}
  /\ IF \A f \in Updates(p) : file[p][f] = plan[p].before[f]
       THEN Go("write")
       ELSE Report(p, "error")
  /\ UNCHANGED <<edits, file, options, phase, exitCode, plan, restoring, history>>

\* updateGoModule reads both files as they are now.
ReadGoFiles(p) ==
  /\ At(p, "next") /\ Applies(p) /\ Kind[p] = "go"
  /\ saved' = [saved EXCEPT ![p] = file[p]]
  /\ Go("get")
  /\ UNCHANGED <<edits, file, options, phase, exitCode, plan, written, restoring, history>>

\* One of these reads fails.
ReadFails(p) ==
  /\ At(p, "next") /\ Applies(p)
  /\ saved' = [saved EXCEPT ![p] = file[p]]
  /\ Report(p, "error")
  /\ UNCHANGED <<edits, file, options, phase, exitCode, plan, written, restoring, history>>

\* Promise.all over the files to restore, then throw.
Recover(p, fs) ==
  /\ restoring' = restoring \cup ({p} \X fs)
  /\ IF fs = {} THEN Report(p, "error") ELSE Go("restore")

\* The writes are in the order of the updates.
ToWrite(p) ==
  CHOOSE f \in Updates(p) \ written : \A g \in Updates(p) \ written : f <= g

WriteFile(p) ==
  LET f == ToWrite(p) IN
  /\ At(p, "write")
  /\ file' = [file EXCEPT ![p][f] = After(p, f)]
  /\ written' = written \cup {f}
  /\ IF Updates(p) = written \cup {f} THEN Report(p, "updated") ELSE Go("write")
  /\ UNCHANGED <<edits, options, phase, exitCode, plan, saved, restoring, history>>

\* Mutant: what was written before the failure is not put back.
WriteFails_NoRollback(p) ==
  LET f == ToWrite(p) IN
  /\ At(p, "write")
  /\ \/ UNCHANGED <<file, damaged>>
     \/ file' = [file EXCEPT ![p][f] = Torn] /\ damaged' = damaged \cup {p}
  /\ Recover(p, {})
  /\ UNCHANGED <<edits, options, phase, exitCode, plan, saved, written, early, late>>

\* A write fails before it has touched the file, or when it has truncated it.
\* The file itself is not among `written'.
WriteFails(p) ==
  LET f == ToWrite(p) IN
  /\ At(p, "write")
  /\ \/ UNCHANGED <<file, damaged>>
     \/ file' = [file EXCEPT ![p][f] = Torn] /\ damaged' = damaged \cup {p}
  /\ Recover(p, written)
  /\ UNCHANGED <<edits, options, phase, exitCode, plan, saved, written, early, late>>

-----------------------------------------------------------------------------
(* updateGoModule.  The go command edits go.mod and go.sum in place.        *)

\* What a command leaves; r is what `go get' resolves constructs to.
Ran(s, content, r) ==
  IF s = "get"
    THEN [content EXCEPT ![1].ver = r, ![2].ver = "got"]
    ELSE [content EXCEPT ![2].ver = "new"]

GoCommand(p) ==
  \E s \in {"get", "tidy"}, r \in GoResolves :
    /\ At(p, s)
    /\ file' = [file EXCEPT ![p] = Ran(s, @, r)]
    /\ IF s = "get" THEN Go("tidy") ELSE Report(p, "updated")
    /\ UNCHANGED <<edits, options, phase, exitCode, plan, saved, written, restoring, history>>

\* Mutant: a failure of `go get' is thrown outside of the try.
GoCommandFails_NoRestore(p) ==
  \E s \in {"get", "tidy"}, r \in GoResolves, fs \in SUBSET Files :
    /\ At(p, s)
    /\ file' = [file EXCEPT ![p] =
                  [f \in Files |-> IF f \in fs THEN Ran(s, file[p], r)[f] ELSE file[p][f]]]
    /\ Recover(p, IF s = "get" THEN {} ELSE Files)
    /\ UNCHANGED <<edits, options, phase, exitCode, plan, saved, written, history>>

\* Whichever of the files the command had changed when it failed.
GoCommandFails(p) ==
  \E s \in {"get", "tidy"}, r \in GoResolves, fs \in SUBSET Files :
    /\ At(p, s)
    /\ file' = [file EXCEPT ![p] =
                  [f \in Files |-> IF f \in fs THEN Ran(s, file[p], r)[f] ELSE file[p][f]]]
    /\ Recover(p, Files)
    /\ UNCHANGED <<edits, options, phase, exitCode, plan, saved, written, history>>

-----------------------------------------------------------------------------
(* The restoration of one file, for either kind of plan.                   *)

\* Promise.all settles with the last restoration.
Settle(p, f) ==
  IF At(p, "restore") /\ {g \in Files : <<p, g>> \in restoring} = {f}
    THEN Report(p, "error")
    ELSE UNCHANGED <<result, cur, step>>

\* Mutant: the error is reported once one file is restored.
Restored_First(p, f) ==
  /\ <<p, f>> \in restoring
  /\ file' = [file EXCEPT ![p][f] = saved[p][f]]
  /\ restoring' = restoring \ {<<p, f>>}
  /\ IF At(p, "restore") THEN Report(p, "error") ELSE UNCHANGED <<result, cur, step>>
  /\ UNCHANGED <<edits, options, phase, exitCode, plan, saved, written, history>>

Restored(p, f) ==
  /\ <<p, f>> \in restoring
  /\ file' = [file EXCEPT ![p][f] = saved[p][f]]
  /\ restoring' = restoring \ {<<p, f>>}
  /\ Settle(p, f)
  /\ UNCHANGED <<edits, options, phase, exitCode, plan, saved, written, history>>

\* Mutant: a failed restoration is never answered.
RestoreFails_Silent(p, f) ==
  /\ <<p, f>> \in restoring
  /\ restoring' = restoring \ {<<p, f>>}
  /\ damaged' = damaged \cup {p}
  /\ UNCHANGED <<edits, file, options, phase, exitCode, plan, result, cur, step, saved,
                 written, early, late>>

\* The first restoration that fails rejects Promise.all; the other one goes on.
RestoreFails(p, f) ==
  /\ <<p, f>> \in restoring
  /\ restoring' = restoring \ {<<p, f>>}
  /\ \/ UNCHANGED file
     \/ file' = [file EXCEPT ![p][f] = Torn]
  /\ damaged' = damaged \cup {p}
  /\ IF At(p, "restore") THEN Report(p, "error") ELSE UNCHANGED <<result, cur, step>>
  /\ UNCHANGED <<edits, options, phase, exitCode, plan, saved, written, early, late>>

-----------------------------------------------------------------------------
(* main, and what happens around it.                                       *)

Reported(status) == {p \in Projects : result[p] = status}

\* Mutant: summary.errors is not looked at in write mode.
Exit_NoErrors ==
  /\ phase = "executing" /\ cur > NumProjects
  /\ phase' = "exited"
  /\ exitCode' = IF mode # "write" /\ Reported("error") # {} THEN 1
                 ELSE IF Reported("manual-migration-required") # {} THEN 2 ELSE 0
  /\ UNCHANGED <<edits, file, options, plan, result, cur, step, saved, written, restoring,
                 history>>

Exit ==
  /\ phase = "executing" /\ cur > NumProjects
  /\ phase' = "exited"
  /\ exitCode' =
       IF Reported("error") # {} THEN 1
       ELSE IF \/ /\ mode = "check"
                  /\ Reported("would-update") \cup Reported("manual-migration-required") # {}
               \/ mode = "write" /\ Reported("manual-migration-required") # {}
         THEN 2
         ELSE 0
  /\ UNCHANGED <<edits, file, options, plan, result, cur, step, saved, written, restoring,
                 history>>

\* The files on which a writeFile of the updater is under way.
Writing == restoring \cup {w \in Projects \X Files : At(w[1], "write") /\ w[2] = ToWrite(w[1])}

\* The process is killed, possibly in the middle of a write.
Kill ==
  /\ phase \notin Ended \/ restoring # {}
  /\ phase' = "killed"
  /\ exitCode' = 1
  /\ restoring' = {}
  /\ \/ UNCHANGED <<file, damaged>>
     \/ \E w \in Writing :
          /\ file' = [file EXCEPT ![w[1]][w[2]] = Torn]
          /\ damaged' = damaged \cup {w[1]}
  /\ UNCHANGED <<edits, options, plan, result, cur, step, saved, written, early, late>>

\* The updater is run again, in any mode, on the tree as it is.
Rerun ==
  /\ phase \in Ended /\ restoring = {}
  /\ runs < MaxRuns
  /\ runs' = runs + 1
  /\ mode' \in Modes
  /\ phase' = "scanning"
  /\ exitCode' = 0
  /\ plan' = [p \in Projects |-> [status |-> "unscanned", before |-> file[p]]]
  /\ result' = [p \in Projects |-> "none"]
  /\ cur' = 1
  /\ step' = "next"
  /\ saved' = file
  /\ written' = {}
  /\ early' = {} /\ late' = {} /\ damaged' = {}
  /\ UNCHANGED <<edits, file, restoring>>

Begun(p) == cur > p \/ (cur = p /\ step # "next")

\* Somebody else writes a file, a new pyproject.toml or go.sum included.
Edit(p, f) ==
  /\ edits < MaxEdits
  /\ edits' = edits + 1
  /\ \E v \in EditVersions :
       file' = [file EXCEPT ![p][f] = [text |-> edits + 1, ver |-> v]]
  /\ early' = IF plan[p].status # "unscanned" /\ ~Begun(p) THEN early \cup {<<p, f>>} ELSE early
  /\ late'  = IF Begun(p) THEN late \cup {<<p, f>>} ELSE late
  /\ UNCHANGED <<options, phase, exitCode, plan, result, cur, step, saved, written,
                 restoring, damaged>>

Terminated == phase \in Ended /\ restoring = {} /\ runs = MaxRuns /\ UNCHANGED vars

Apply(p) ==
  \/ PassOver(p) \/ Preflight(p) \/ ReadGoFiles(p) \/ ReadFails(p)
  \/ WriteFile(p) \/ WriteFails(p) \/ GoCommand(p) \/ GoCommandFails(p)

Restore(p, f) == Restored(p, f) \/ RestoreFails(p, f)

\* What the updater itself does.
Updater ==
  \/ ScanFails \/ ExecutePlans \/ Exit
  \/ \E p \in Projects : Scan(p) \/ Apply(p)
  \/ \E p \in Projects, f \in Files : Restore(p, f)

Next ==
  \/ Updater \/ Kill \/ Rerun
  \/ \E p \in Projects, f \in Files : Edit(p, f)
  \/ Terminated

Spec == Init /\ [][Next]_vars

\* The event loop goes on, every read and write is answered, and the go
\* commands, which run without a time limit, are assumed to end.
FairSpec == Spec /\ WF_vars(Updater)

-----------------------------------------------------------------------------
(* Properties.                                                             *)

\* Only write mode changes files: a dry run and a check leave every change of
\* the tree to others.
ReadOnlyModes == [][(mode # "write" /\ edits' = edits) => file' = file]_vars

\* A text plan that has become stale between the scan and its application, in
\* whichever of its files, changes none of them, not even for a while, and is
\* reported as an error.
StaleRefused ==
  [][\A p \in Projects :
       (Kind[p] = "text" /\ \E f \in Updates(p) : <<p, f>> \in early) =>
         /\ edits' = edits => file'[p] = file[p]
         /\ result'[p] # "updated"]_vars

\* Once a plan that was applied has its result and no restoration is left, it
\* has been applied to all its files or to none: every file holds what the
\* plan promises after "updated", and what was there when the application
\* began after "error", but for edits made since.  The exceptions are projects
\* with a write cut short or a restoration that failed.
AllOrNothing ==
  \A p \in Projects \ damaged :
    LET untouched == {f \in Files : <<p, f>> \notin late} IN
    (Applies(p) /\ \A f \in Files : <<p, f>> \notin restoring) =>
      /\ result[p] = "error" => \A f \in untouched : file[p][f] = saved[p][f]
      /\ (result[p] = "updated" /\ Kind[p] = "text") =>
           /\ \A f \in untouched \cap Updates(p) : file[p][f] = After(p, f)
           /\ \A f \in untouched \ Updates(p) : file[p][f] = saved[p][f]
      /\ (result[p] = "updated" /\ Kind[p] = "go") =>
           /\ \A f \in untouched : file[p][f].text = saved[p][f].text
           /\ 1 \in untouched => file[p][1].ver \in GoResolves
           /\ 2 \in untouched => file[p][2].ver = "new"

\* A restoration outlives its plan's result only when the other one of the
\* plan has failed; no other plan's file changes once its result is reported.
SettledPlans ==
  [][\A p \in Projects \ damaged :
       (result[p] # "none" /\ edits' = edits) => file'[p] = file[p]]_vars

\* The exit code and the tree.  Code 0 of a check or a write means that no
\* project whose files were left alone since the scan needs an update, unless
\* the update of a go module leaves constructs below the target; a damaged
\* project always makes it 1, and no code hides one that could not be handled.
ExitTruthful ==
  phase = "exited" =>
    /\ damaged # {} => exitCode = 1
    /\ (exitCode = 0 /\ mode # "dry-run") =>
         \A p \in Projects :
           (plan[p].status # "skipped" /\ \A f \in Files : <<p, f>> \notin early \cup late) =>
             IF Kind[p] = "go"
               THEN file[p][1].ver \in {"new"} \cup (IF mode = "write" THEN GoResolves ELSE {})
               ELSE \A f \in Files : file[p][f].ver \notin {"old", "v1", "bad"}

\* Every run comes to its end, unless it is killed, and leaves no restoration
\* under way.
RunEnds == (phase = "scanning") ~> (phase \in Ended /\ restoring = {})
=============================================================================
