---------------------------- MODULE LegacyUpdater ----------------------------
(***************************************************************************)
(* The package updater of the TypeScript examples, in its two forms:       *)
(* "migrate", scripts/update-cdk-dependencies/src/typescript/              *)
(* update-cdk-packages.ts started by legacy-index.ts, which also takes     *)
(* projects from ts-jest and ts-node to swc and tsx, and "bump", the older *)
(* scripts/update-cdk-packages.ts, which only changes versions.            *)
(*                                                                         *)
(* It fetches the latest versions, finds the package.json files and goes   *)
(* through them in batches of concurrent tasks.  The first task to fail    *)
(* makes it exit, whatever the others of its batch have in hand.           *)
(***************************************************************************)
EXTENDS Integers, Sequences, FiniteSets

CONSTANTS
  Kind,      \* of each project: what its package.json depends on
  Trees,     \* what the projects' files can be like at first
  Urls,      \* what is fetched
  Retries,   \* attempts at each of them
  BatchSize, \* concurrencyLimit
  MaxRuns    \* bound on the number of runs

Projects == DOMAIN Kind

\* The files that are migrated after package.json, in this order.  A project's
\* sources are one file, which is in the old format while any of them is.
Companions == {"jest.config.js", "tsconfig.json", "cdk.json", "sources"}

\* A file is in the old format, in the new one, "torn" (cut short), or something
\* "else" that the updater leaves alone, such as absent or not recognised.  A
\* cdk.json whose command names ts-node in an "odd" way is written as it is.
Formats  == {"old", "new", "torn", "else", "odd"}

\* Of the packages that are where updateVersions looks for them: aws-cdk-lib and
\* constructs among the dependencies, the others among the devDependencies.  A
\* package in the other list is never changed.
Versions == {"stale", "latest", "blank"}

\* A package.json is in the old or the new format; no project is half migrated.
IsTree(t) ==
  /\ t \in [Projects -> [format : {"old", "new"}, version : {"stale", "latest"},
                         file : [Companions -> {"old", "new", "else", "odd"}]]]
  /\ \A p \in Projects, c \in Companions : t[p].file[c] = "odd" => c = "cdk.json"
  /\ \A p \in Projects : t[p].format = "new" =>
       \A c \in Companions \ {"cdk.json"} : t[p].file[c] # "old"

ASSUME LegacyAssumption ==
  /\ Kind \in Seq({"cdk", "cli", "other"})
  /\ \A t \in Trees : IsTree(t)
  /\ IsFiniteSet(Urls)
  /\ {Retries, BatchSize, MaxRuns} \subseteq Nat \ {0}

VARIABLES
  script,   \* "migrate" or "bump"
  phase,    \* where the run is
  runs,     \* number of runs so far
  exitCode, \* of the run
  tries,    \* failed attempts at each URL
  got,      \* the URLs that have answered
  upstream, \* which versions the answers hold
  from,     \* i, the first project of the batch
  at,       \* where the task of each project is
  todo,     \* the companion files it has not come to yet
  format,   \* of package.json
  version,  \* the versions in package.json
  file,     \* the companion files
  cut,      \* projects that a run was at work on when it ended too soon
  hidden,   \* companion files that the last look for them did not reach
  before    \* what the last run but this one was, and how it ended

run     == <<script, runs, before>>
fetched == <<tries, got, upstream>>
tree    == <<format, version, file>>
marks   == <<cut, hidden>>
vars    == <<run, phase, exitCode, fetched, from, at, todo, tree, marks>>

TypeOK ==
  /\ script \in {"migrate", "bump"}
  /\ phase \in {"fetching", "finding", "updating", "exited"}
  /\ runs \in 1 .. MaxRuns
  /\ exitCode \in {"none", "0", "1", "killed"}
  /\ tries \in [Urls -> 0 .. Retries]
  /\ got \subseteq Urls
  /\ upstream \in {"unknown", "full", "partial"}
  /\ from \in 1 .. Len(Kind) + BatchSize
  /\ at \in [Projects -> {"queued", "package", "working", "writing", "done"}]
  /\ todo \in [Projects -> Seq(Companions)]
  /\ format \in [Projects -> {"old", "new", "torn"}]
  /\ version \in [Projects -> Versions]
  /\ file \in [Projects -> [Companions -> Formats]]
  /\ cut \subseteq Projects
  /\ hidden \in [Projects -> SUBSET Companions]

Init ==
  /\ script \in {"migrate", "bump"}
  /\ phase = "fetching"
  /\ runs = 1
  /\ exitCode = "none"
  /\ tries = [u \in Urls |-> 0]
  /\ got = {}
  /\ upstream = "unknown"
  /\ from = 1
  /\ at = [p \in Projects |-> "queued"]
  /\ todo = [p \in Projects |-> <<>>]
  /\ \E t \in Trees :
       /\ format = [p \in Projects |-> t[p].format]
       /\ version = [p \in Projects |-> t[p].version]
       /\ file = [p \in Projects |-> t[p].file]
  /\ cut = {}
  /\ hidden = [p \in Projects |-> {}]
  /\ before = <<"none", "none", "none">>

\* The projects the loop has come to, and those with a task at work.
Batch == from .. from + BatchSize - 1
Busy  == {p \in Projects : at[p] \in {"package", "working", "writing"}}

Exit(code) == phase' = "exited" /\ exitCode' = code

\* process.exit(1), or a signal.  A write that is under way has not begun, or
\* has emptied the file.
EndsEarly(code) ==
  /\ Exit(code)
  /\ \E torn \in SUBSET Busy :
       /\ format' = [p \in Projects |->
            IF p \in torn /\ at[p] = "package" THEN "torn" ELSE format[p]]
       /\ file' = [p \in Projects |->
            IF p \in torn /\ at[p] = "writing"
            THEN [file[p] EXCEPT ![Head(todo[p])] = "torn"] ELSE file[p]]
  /\ cut' = cut \cup Busy
  /\ UNCHANGED <<run, fetched, from, at, todo, version, hidden>>

-----------------------------------------------------------------------------
(* The latest versions.                                                    *)

FetchJson(u) ==
  /\ phase = "fetching"
  /\ u \notin got
  /\ got' = got \cup {u}
  /\ UNCHANGED <<run, phase, exitCode, tries, upstream, from, at, todo, tree, marks>>

\* No answer in five seconds, an error, a body that is no JSON.
FetchJsonFails(u) ==
  /\ phase = "fetching"
  /\ u \notin got
  /\ tries' = [tries EXCEPT ![u] = @ + 1]
  /\ IF tries'[u] = Retries THEN Exit("1") ELSE UNCHANGED <<phase, exitCode>>
  /\ UNCHANGED <<run, got, upstream, from, at, todo, tree, marks>>

\* The bump insists on every version, the migration on the critical ones: it
\* takes an empty string for another that is missing.
Sufficient(versions) ==
  versions = "full" \/ (versions = "partial" /\ script = "migrate")

FetchLatestVersions ==
  /\ phase = "fetching"
  /\ got = Urls
  /\ \E versions \in {"full", "partial"} :
       /\ Sufficient(versions)
       /\ upstream' = versions
  /\ phase' = "finding"
  /\ UNCHANGED <<run, exitCode, tries, got, from, at, todo, tree, marks>>

\* `cdk --version' fails, or a version is missing.
VersionsMissing ==
  /\ phase = "fetching"
  /\ got = Urls
  /\ EndsEarly("1")

FindPackageJsonFiles ==
  /\ phase = "finding"
  /\ \/ phase' = "updating" /\ UNCHANGED exitCode
     \/ Exit("1")
  /\ UNCHANGED <<run, fetched, from, at, todo, tree, marks>>

-----------------------------------------------------------------------------
(* The task of a project.                                                  *)

\* What becomes of the versions.  An empty one passes for no dependency at all,
\* and is never changed again; the CDK CLI's is critical.
Latest(p) ==
  IF version[p] = "blank" \/ (upstream = "partial" /\ Kind[p] # "cli")
  THEN "blank" ELSE "latest"

\* The migration skips other projects than CDK's, and JSON that is invalid.
PassesOver(p) == script = "migrate" /\ (Kind[p] = "other" \/ format[p] = "torn")

Migrates(p) == script = "migrate" /\ Kind[p] = "cdk" /\ format[p] = "old"

\* Mutant: cdk.json is left to the next run.
Rest_CdkJsonLater(p) ==
  IF Migrates(p) THEN <<"jest.config.js", "tsconfig.json", "sources">>
  ELSE IF script = "migrate" /\ Kind[p] = "cdk" THEN <<"cdk.json">> ELSE <<>>

\* What is left to look at after package.json.
Rest(p) ==
  IF Migrates(p) THEN <<"jest.config.js", "tsconfig.json", "cdk.json", "sources">>
  ELSE IF script = "migrate" /\ Kind[p] = "cdk" THEN <<"cdk.json">> ELSE <<>>

\* A version has to change, for which the bump does not ask what the project is.
Bumps(p) == Latest(p) # version[p]

Goes(p, step) == at' = [at EXCEPT ![p] = step]

\* The task goes on to the files in rest.
Continues(p, rest) ==
  /\ todo' = [todo EXCEPT ![p] = rest]
  /\ Goes(p, IF rest = <<>> THEN "done" ELSE "working")

ReadPackage(p) ==
  /\ phase = "updating"
  /\ p \in Batch
  /\ at[p] = "queued"
  /\ \/ PassesOver(p) /\ Continues(p, <<>>)
     \/ /\ ~PassesOver(p)
        /\ format[p] # "torn"
        /\ IF Migrates(p) \/ Bumps(p)
           THEN Goes(p, "package") /\ UNCHANGED todo
           ELSE Continues(p, Rest(p))
  /\ UNCHANGED <<run, phase, exitCode, fetched, from, tree, marks>>

WritePackage(p) ==
  /\ phase = "updating"
  /\ at[p] = "package"
  /\ format' = [format EXCEPT ![p] = IF Migrates(p) THEN "new" ELSE @]
  /\ version' = [version EXCEPT ![p] = Latest(p)]
  /\ Continues(p, Rest(p))
  /\ UNCHANGED <<run, phase, exitCode, fetched, from, file, marks>>

\* The task is done with the file that it has come to.
Seen(p) == hidden' = [hidden EXCEPT ![p] = @ \ {Head(todo[p])}]

ReadCompanion(p) ==
  /\ phase = "updating"
  /\ at[p] = "working"
  /\ IF file[p][Head(todo[p])] \in {"old", "odd"}
     THEN Goes(p, "writing") /\ UNCHANGED <<todo, hidden>>
     ELSE Continues(p, Tail(todo[p])) /\ Seen(p)
  /\ UNCHANGED <<run, phase, exitCode, fetched, from, tree, cut>>

\* Mutant: the task is done with the project.
CompanionHidden_SkipsRest(p) ==
  /\ phase = "updating"
  /\ \/ at[p] = "working"
     \/ at[p] = "writing" /\ Head(todo[p]) = "sources"
  /\ hidden' = [hidden EXCEPT ![p] = @ \cup {Head(todo[p])}]
  /\ Continues(p, <<>>)
  /\ UNCHANGED <<run, phase, exitCode, fetched, from, tree, cut>>

\* access is refused, or opendir in a directory of the sources, where others may
\* have been written: whatever the error, it is taken to say that there is
\* nothing to migrate.
CompanionHidden(p) ==
  /\ phase = "updating"
  /\ \/ at[p] = "working"
     \/ at[p] = "writing" /\ Head(todo[p]) = "sources"
  /\ hidden' = [hidden EXCEPT ![p] = @ \cup {Head(todo[p])}]
  /\ Continues(p, Tail(todo[p]))
  /\ UNCHANGED <<run, phase, exitCode, fetched, from, tree, cut>>

\* Mutant: the file is looked at again once it is written.
WriteCompanion_Again(p) ==
  /\ phase = "updating"
  /\ at[p] = "writing"
  /\ file' = [file EXCEPT ![p][Head(todo[p])] = IF @ = "odd" THEN @ ELSE "new"]
  /\ Continues(p, todo[p])
  /\ Seen(p)
  /\ UNCHANGED <<run, phase, exitCode, fetched, from, format, version, cut>>

WriteCompanion(p) ==
  /\ phase = "updating"
  /\ at[p] = "writing"
  /\ file' = [file EXCEPT ![p][Head(todo[p])] = IF @ = "odd" THEN @ ELSE "new"]
  /\ Continues(p, Tail(todo[p]))
  /\ Seen(p)
  /\ UNCHANGED <<run, phase, exitCode, fetched, from, format, version, cut>>

\* Mutant: the error of a task is caught, and the next batch goes on.
TaskFails_Caught(p) ==
  /\ phase = "updating"
  /\ p \in Batch
  /\ at[p] # "done"
  /\ Goes(p, "done")
  /\ UNCHANGED <<run, phase, exitCode, fetched, from, todo, tree, marks>>

\* A read or a write of a file is refused, or JSON is invalid: Promise.all
\* rejects.
TaskFails(p) ==
  /\ phase = "updating"
  /\ p \in Batch
  /\ at[p] # "done"
  /\ EndsEarly("1")

-----------------------------------------------------------------------------
(* The runs.                                                               *)

\* Mutants: the batches are not awaited; the loop goes on after the last project.
NextBatch_NotAwaited ==
  /\ phase = "updating"
  /\ \A p \in Projects : at[p] = "done" \/ from \in Projects
  /\ IF from \in Projects
     THEN from' = from + BatchSize /\ UNCHANGED <<phase, exitCode>>
     ELSE Exit("0") /\ UNCHANGED from
  /\ UNCHANGED <<run, fetched, at, todo, tree, marks>>

NextBatch_NoEnd ==
  /\ phase = "updating"
  /\ \A p \in Projects \cap Batch : at[p] = "done"
  /\ from' = from + BatchSize
  /\ UNCHANGED <<run, phase, exitCode, fetched, at, todo, tree, marks>>

NextBatch ==
  /\ phase = "updating"
  /\ \A p \in Projects \cap Batch : at[p] = "done"
  /\ IF from \in Projects
     THEN from' = from + BatchSize /\ UNCHANGED <<phase, exitCode>>
     ELSE Exit("0") /\ UNCHANGED from
  /\ UNCHANGED <<run, fetched, at, todo, tree, marks>>

Kill ==
  /\ phase # "exited"
  /\ EndsEarly("killed")

Rerun ==
  /\ phase = "exited"
  /\ runs < MaxRuns
  /\ runs' = runs + 1
  /\ before' = <<script, upstream, exitCode>>
  /\ script' \in {"migrate", "bump"}
  /\ phase' = "fetching"
  /\ exitCode' = "none"
  /\ tries' = [u \in Urls |-> 0]
  /\ got' = {}
  /\ upstream' = "unknown"
  /\ from' = 1
  /\ at' = [p \in Projects |-> "queued"]
  /\ todo' = [p \in Projects |-> <<>>]
  /\ UNCHANGED <<tree, marks>>

Terminated == phase = "exited" /\ runs = MaxRuns /\ UNCHANGED vars

Fetching == \/ \E u \in Urls : FetchJson(u) \/ FetchJsonFails(u)
            \/ FetchLatestVersions \/ VersionsMissing \/ FindPackageJsonFiles

Task(p) == \/ ReadPackage(p) \/ WritePackage(p)
           \/ ReadCompanion(p) \/ CompanionHidden(p) \/ WriteCompanion(p)

Next ==
  \/ Fetching
  \/ \E p \in Projects : Task(p) \/ TaskFails(p)
  \/ NextBatch
  \/ Kill
  \/ Rerun
  \/ Terminated

Spec == Init /\ [][Next]_vars

\* What is fetched is answered or aborted, and the file system answers.
FairSpec ==
  /\ Spec
  /\ WF_vars(Fetching)
  /\ \A p \in Projects : WF_vars(Task(p) \/ TaskFails(p))
  /\ WF_vars(NextBatch)

-----------------------------------------------------------------------------
(* Properties.                                                             *)

InHand(p) == phase = "updating" /\ p \in Busy

\* package.json alone says whether a project is migrated, and it is written
\* first.  Still a project is migrated as a whole, but for the very files that
\* could not be reached, and none of its files is cut short, unless a run ended
\* too soon with the project in hand.
MigratedAsAWhole ==
  \A p \in Projects \ cut :
    ~InHand(p) =>
      /\ format[p] # "torn"
      /\ \A c \in Companions : file[p][c] # "torn"
      /\ format[p] = "new" =>
           \A c \in Companions \ ({"cdk.json"} \cup hidden[p]) : file[p][c] # "old"

\* A run that ends too soon spoils a batch at most.
DamageBound == Cardinality(cut) <= BatchSize * runs

\* An exit code of 0 says that no project was missed: each is at upstream's
\* versions where updateVersions looks for them, with none lost, unless upstream
\* or an earlier run left one out, and after a migration it is in the new format,
\* cdk.json included.  It says nothing of the files that could not be reached.
ExitTruthful ==
  (phase = "exited" /\ exitCode = "0") =>
    \A p \in Projects \ cut :
      /\ Kind[p] # "other" => version[p] = Latest(p)
      /\ (script = "migrate" /\ Kind[p] = "cdk") =>
           /\ format[p] = "new"
           /\ \A c \in Companions \ hidden[p] : file[p][c] # "old"

\* A run changes nothing after one that has ended well, if upstream's versions
\* are the same, except in files that the other could not reach.
Idempotent ==
  [][(phase = "updating" /\ before = <<script, upstream, "0">>) =>
       \A p \in Projects \ cut' :
         /\ <<format[p], version[p]>>' = <<format[p], version[p]>>
         /\ \A c \in Companions \ hidden[p] : file'[p][c] = file[p][c]]_vars

\* Whatever is refused, aborted or missing, a run ends.
RunEnds == phase # "exited" ~> phase = "exited"
=============================================================================
