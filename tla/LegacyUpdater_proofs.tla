------------------------ MODULE LegacyUpdater_proofs ------------------------
(***************************************************************************)
(* Proofs about the package updater, for any projects, size of a batch and *)
(* number of runs, wherever these are ended.                               *)
(***************************************************************************)
EXTENDS LegacyUpdater, FiniteSetTheorems, TLAPS

\* The task of p still has c before it.
Pending(p, c) ==
  /\ phase = "updating"
  /\ at[p] \in {"working", "writing"}
  /\ \E i \in DOMAIN todo[p] : todo[p][i] = c

\* c is still to come, or could not be reached.
Excused(p, c) == c \in hidden[p] \/ Pending(p, c)

\* The files of a project that no run was ended with in hand.
Whole(p) ==
  /\ format[p] # "torn"
  /\ \A c \in Companions : file[p][c] # "torn"
  /\ format[p] = "new" =>
       \A c \in Companions \ {"cdk.json"} : file[p][c] = "old" => Excused(p, c)

\* What is true of it once its package.json is dealt with.
Past(p) ==
  at[p] \in {"working", "writing", "done"} =>
    /\ script = "bump" \/ Kind[p] # "other" => version[p] = Latest(p)
    /\ (script = "migrate" /\ Kind[p] = "cdk") =>
         format[p] = "new" /\ (file[p]["cdk.json"] = "old" => Excused(p, "cdk.json"))

\* Where its task is.
Place(p) ==
  /\ phase \in {"fetching", "finding"} => at[p] = "queued"
  /\ phase = "updating" => (p < from => at[p] = "done")
  /\ phase = "updating" => (at[p] # "queued" => p < from + BatchSize)
  /\ at[p] \in {"working", "writing"} => todo[p] # <<>>

ProjectInv(p) == Place(p) /\ (p \notin cut => Whole(p) /\ Past(p))

Fetches ==
  /\ phase = "fetching" => \A u \in Urls : tries[u] < Retries
  /\ phase \in {"fetching", "finding"} => from = 1

EndedWell == exitCode = "0" => phase = "exited" /\ \A p \in Projects : at[p] = "done"

\* A run has its batch to spoil until it ends.
Bound == Cardinality(cut) <= BatchSize * (IF phase = "exited" THEN runs ELSE runs - 1)

Inv ==
  /\ TypeOK
  /\ Fetches
  /\ \A p \in Projects : ProjectInv(p)
  /\ EndedWell
  /\ Bound

\* The run is the last one over again, as far as it has come, and that ended well.
Repeats ==
  /\ before[1] = script /\ before[3] = "0"
  /\ upstream = "unknown" \/ upstream = before[2]

\* Its versions are those of the last run, and it is migrated.  What its task
\* still writes is a command it does not recognise, which stays as it is, unless
\* the last run could not reach the file.
Rested(p) ==
  /\ script = "bump" \/ Kind[p] # "other" =>
       version[p] = IF version[p] = "blank" \/ (before[2] = "partial" /\ Kind[p] # "cli")
                    THEN "blank" ELSE "latest"
  /\ (script = "migrate" /\ Kind[p] = "cdk") =>
       format[p] = "new" /\ ("cdk.json" \in hidden[p] \/ file[p]["cdk.json"] # "old")
  /\ at[p] # "package"
  /\ at[p] \in {"working", "writing"} =>
       script = "migrate" /\ Kind[p] = "cdk" /\ todo[p] = <<"cdk.json">>
  /\ at[p] = "writing" => "cdk.json" \in hidden[p] \/ file[p]["cdk.json"] = "odd"

\* The step leaves its files alone, but for those that were not reached.
Kept(p) ==
  /\ format'[p] = format[p] /\ version'[p] = version[p]
  /\ \A c \in Companions \ hidden[p] : file'[p][c] = file[p][c]

Fetched ==
  /\ phase = "fetching" => upstream = "unknown"
  /\ phase \in {"finding", "updating"} => upstream # "unknown"

RepeatInv ==
  /\ Inv
  /\ Fetched
  /\ \A p \in Projects \ cut : Repeats => Rested(p)

-----------------------------------------------------------------------------
(* Sequences, sets and numbers.                                            *)

\* The files after the first are those of the tail.
LEMMA HeadTail ==
  ASSUME NEW S, NEW s \in Seq(S), s # <<>>
  PROVE  /\ Head(s) \in S /\ Tail(s) \in Seq(S)
         /\ \A i \in DOMAIN s : s[i] = Head(s) \/ \E j \in DOMAIN Tail(s) : Tail(s)[j] = s[i]
<1>1. Len(s) \in Nat /\ Len(s) > 0 /\ DOMAIN s = 1 .. Len(s) /\ Head(s) = s[1]
  OBVIOUS
<1>2. Tail(s) \in Seq(S) /\ Len(Tail(s)) = Len(s) - 1
  OBVIOUS
<1>3. \A j \in 1 .. Len(s) - 1 : Tail(s)[j] = s[j + 1]
  OBVIOUS
<1>4. DOMAIN Tail(s) = 1 .. Len(s) - 1
  BY <1>2
<1>5. ASSUME NEW i \in 1 .. Len(s), i # 1 PROVE \E j \in DOMAIN Tail(s) : Tail(s)[j] = s[i]
  <2>1. i - 1 \in 1 .. Len(s) - 1 /\ (i - 1) + 1 = i
    BY <1>1, <1>5
  <2>2. Tail(s)[i - 1] = s[i]
    BY <1>3, <2>1
  <2>3. QED
    BY <1>4, <2>1, <2>2
<1>6. Head(s) \in S
  BY <1>1
<1>7. QED
  BY <1>1, <1>2, <1>5, <1>6

LEMMA Constants ==
  /\ Projects = 1 .. Len(Kind) /\ Len(Kind) \in Nat /\ IsFiniteSet(Projects)
  /\ \A p \in Projects : Kind[p] \in {"cdk", "cli", "other"}
  /\ Retries \in Nat \ {0} /\ BatchSize \in Nat \ {0} /\ MaxRuns \in Nat \ {0}
<1>1. Kind \in Seq({"cdk", "cli", "other"})
  BY LegacyAssumption
<1>2. Projects = 1 .. Len(Kind) /\ Len(Kind) \in Nat
  BY <1>1 DEF Projects
<1>3. \A p \in Projects : Kind[p] \in {"cdk", "cli", "other"}
  BY <1>1, <1>2
<1>4. IsFiniteSet(Projects)
  BY <1>2, FS_Interval
<1>5. QED
  BY <1>2, <1>3, <1>4, LegacyAssumption

\* What is left to look at, and that it is all there is where it matters.
LEMMA RestFacts ==
  ASSUME NEW p
  PROVE  /\ Rest(p) \in Seq(Companions)
         /\ Migrates(p) => \A c \in Companions : \E i \in DOMAIN Rest(p) : Rest(p)[i] = c
         /\ (script = "migrate" /\ Kind[p] = "cdk") =>
              \E i \in DOMAIN Rest(p) : Rest(p)[i] = "cdk.json"
<1> DEFINE all == <<"jest.config.js", "tsconfig.json", "cdk.json", "sources">>
           one == <<"cdk.json">>
<1>1. /\ all \in Seq(Companions) /\ one \in Seq(Companions) /\ <<>> \in Seq(Companions)
      /\ DOMAIN all = 1 .. 4 /\ DOMAIN one = 1 .. 1
      /\ all[1] = "jest.config.js" /\ all[2] = "tsconfig.json" /\ all[3] = "cdk.json"
      /\ all[4] = "sources" /\ one[1] = "cdk.json"
  BY DEF Companions
<1>2. /\ Rest(p) \in {all, one, <<>>}
      /\ Migrates(p) => Rest(p) = all
      /\ (script = "migrate" /\ Kind[p] = "cdk") => Rest(p) \in {all, one}
  BY DEF Rest
<1> HIDE DEF all, one
<1>3. \A c \in Companions : \E i \in DOMAIN all : all[i] = c
  <2>1. 1 \in DOMAIN all /\ 2 \in DOMAIN all /\ 3 \in DOMAIN all /\ 4 \in DOMAIN all
    BY <1>1
  <2>2. QED
    BY <1>1, <2>1 DEF Companions
<1>4. \E i \in DOMAIN one : one[i] = "cdk.json"
  <2>1. 1 \in DOMAIN one
    BY <1>1
  <2>2. QED
    BY <1>1, <2>1
<1>5. "cdk.json" \in Companions
  BY DEF Companions
<1>6. QED
  BY <1>1, <1>2, <1>3, <1>4, <1>5

\* A batch is no larger than its size, and only its projects are in hand.
LEMMA BatchBound ==
  ASSUME Inv, phase # "exited"
  PROVE  IsFiniteSet(Busy) /\ Cardinality(Busy) <= BatchSize
<1> USE DEF Inv
<1>1. from \in Nat /\ BatchSize \in Nat \ {0} /\ Projects \subseteq Nat
  BY Constants DEF TypeOK
<1>2. Busy \subseteq from .. from + BatchSize - 1
  <2> SUFFICES ASSUME NEW p \in Busy PROVE p \in from .. from + BatchSize - 1
    OBVIOUS
  <2>1. p \in Projects /\ at[p] \in {"package", "working", "writing"} /\ Place(p)
    BY DEF Busy, ProjectInv
  <2>2. phase = "updating"
    BY <2>1 DEF Place, TypeOK
  <2>3. p \in Nat /\ ~(p < from) /\ p < from + BatchSize
    BY <1>1, <2>1, <2>2 DEF Place
  <2>4. QED
    BY <1>1, <2>3
<1>3. from + BatchSize - 1 \in Nat /\ from + BatchSize - 1 >= from
  BY <1>1
<1>4. /\ IsFiniteSet(from .. from + BatchSize - 1)
      /\ Cardinality(from .. from + BatchSize - 1) = BatchSize
  <2>1. /\ IsFiniteSet(from .. from + BatchSize - 1)
        /\ Cardinality(from .. from + BatchSize - 1) =
             IF from > from + BatchSize - 1 THEN 0 ELSE (from + BatchSize - 1) - from + 1
    BY <1>1, <1>3, FS_Interval
  <2>2. QED
    BY <1>1, <1>3, <2>1
<1>5. QED
  BY <1>2, <1>4, FS_Subset

\* An ending adds a batch at most.
LEMMA BoundAtEnd ==
  ASSUME Inv, phase # "exited", phase' = "exited", UNCHANGED runs, cut' = cut \/ cut' = cut \cup Busy
  PROVE  Bound'
<1> USE DEF Inv
<1>1. IsFiniteSet(cut)
  BY Constants, FS_Subset DEF TypeOK
<1>2. IsFiniteSet(Busy) /\ Cardinality(Busy) <= BatchSize
  BY BatchBound
<1>3. Cardinality(cut) \in Nat /\ Cardinality(Busy) \in Nat /\ Cardinality(cut \cap Busy) \in Nat
  BY <1>1, <1>2, FS_CardinalityType, FS_Subset
<1>4. Cardinality(cut \cup Busy) = Cardinality(cut) + Cardinality(Busy) - Cardinality(cut \cap Busy)
  BY <1>1, <1>2, FS_Union
<1>5. Cardinality(cut') <= Cardinality(cut) + BatchSize
  <2>1. BatchSize \in Nat
    BY Constants
  <2>2. Cardinality(cut \cup Busy) <= Cardinality(cut) + BatchSize
    BY <1>2, <1>3, <1>4, <2>1
  <2>3. QED
    BY <1>3, <2>1, <2>2
<1>6. Cardinality(cut') \in Nat
  BY <1>3, <1>4, <1>1, <1>2, FS_Union, FS_CardinalityType
<1>7. Cardinality(cut) <= BatchSize * (runs - 1)
  BY DEF Bound
<1>8. runs \in Nat /\ BatchSize \in Nat
  BY Constants DEF TypeOK
<1>9. BatchSize * (runs - 1) + BatchSize = BatchSize * runs /\ BatchSize * (runs - 1) \in Int
  BY <1>8
<1>10. Cardinality(cut') <= BatchSize * runs
  BY <1>3, <1>5, <1>6, <1>7, <1>8, <1>9
<1>11. QED
  BY <1>10 DEF Bound

-----------------------------------------------------------------------------
(* The steps.                                                              *)

LEMMA InitInv == ASSUME Init PROVE Inv
<1> USE DEF Init
<1>1. PICK t \in Trees : /\ format = [p \in Projects |-> t[p].format]
                        /\ version = [p \in Projects |-> t[p].version]
                        /\ file = [p \in Projects |-> t[p].file]
  BY DEF Init
<1>2. /\ t \in [Projects -> [format : {"old", "new"}, version : {"stale", "latest"},
                             file : [Companions -> {"old", "new", "else", "odd"}]]]
      /\ \A p \in Projects : t[p].format = "new" =>
           \A c \in Companions \ {"cdk.json"} : t[p].file[c] # "old"
  BY LegacyAssumption DEF IsTree
<1>3. ASSUME NEW p \in Projects
      PROVE  /\ t[p].format \in {"old", "new"} /\ t[p].version \in {"stale", "latest"}
             /\ t[p].file \in [Companions -> {"old", "new", "else", "odd"}]
  BY <1>2
<1>4. TypeOK
  <2>1. format \in [Projects -> {"old", "new", "torn"}] /\ version \in [Projects -> Versions]
    BY <1>1, <1>3 DEF Versions
  <2>2. file \in [Projects -> [Companions -> Formats]]
    <3>1. {"old", "new", "else", "odd"} \subseteq Formats
      BY DEF Formats
    <3>2. \A p \in Projects : t[p].file \in [Companions -> Formats]
      BY <1>3, <3>1
    <3>3. QED
      BY <1>1, <3>2
  <2>3. runs \in 1 .. MaxRuns /\ from \in 1 .. Len(Kind) + BatchSize
    BY Constants
  <2>4. tries \in [Urls -> 0 .. Retries]
    BY Constants
  <2>5. todo \in [Projects -> Seq(Companions)]
    OBVIOUS
  <2>6. QED
    BY <2>1, <2>2, <2>3, <2>4, <2>5 DEF TypeOK
<1>5. Fetches /\ EndedWell
  BY Constants DEF Fetches, EndedWell
<1>6. ASSUME NEW p \in Projects PROVE ProjectInv(p)
  <2>1. Place(p) /\ Past(p)
    BY DEF Place, Past
  <2>2. Whole(p)
    BY <1>1, <1>2, <1>3 DEF Whole
  <2>3. QED
    BY <2>1, <2>2 DEF ProjectInv
<1>7. Bound
  BY FS_EmptySet, Constants DEF Bound
<1>8. QED
  BY <1>4, <1>5, <1>6, <1>7 DEF Inv

\* process.exit(1) and kills: what is torn belongs to the projects in hand.
LEMMA EndsEarlyInv ==
  ASSUME Inv, phase # "exited", NEW code \in {"1", "killed"}, EndsEarly(code)
  PROVE  Inv'
<1> USE DEF Inv
<1>1. /\ phase' = "exited" /\ exitCode' = code /\ cut' = cut \cup Busy
      /\ UNCHANGED <<script, runs, before, tries, got, upstream, from, at, todo, version, hidden>>
  BY DEF EndsEarly, Exit, run, fetched
<1>2. PICK torn \in SUBSET Busy :
        /\ format' = [p \in Projects |->
             IF p \in torn /\ at[p] = "package" THEN "torn" ELSE format[p]]
        /\ file' = [p \in Projects |->
             IF p \in torn /\ at[p] = "writing"
             THEN [file[p] EXCEPT ![Head(todo[p])] = "torn"] ELSE file[p]]
  BY DEF EndsEarly
<1>3. TypeOK'
  <2>1. format' \in [Projects -> {"old", "new", "torn"}]
    BY <1>2 DEF TypeOK
  <2>2. ASSUME NEW p \in Projects PROVE [file[p] EXCEPT ![Head(todo[p])] = "torn"] \in [Companions -> Formats]
    <3>1. file[p] \in [Companions -> Formats] /\ "torn" \in Formats
      BY DEF TypeOK, Formats
    <3>2. QED
      BY <3>1
  <2>3. file' \in [Projects -> [Companions -> Formats]]
    BY <1>2, <2>2 DEF TypeOK
  <2>4. cut' \subseteq Projects
    BY <1>1 DEF TypeOK, Busy
  <2>5. QED
    BY <1>1, <2>1, <2>3, <2>4 DEF TypeOK
<1>4. ASSUME NEW p \in Projects PROVE ProjectInv(p)'
  <2>1. Place(p)'
    BY <1>1 DEF ProjectInv, Place
  <2>2. ASSUME p \notin cut' PROVE Whole(p)' /\ Past(p)'
    <3>1. p \notin cut /\ p \notin Busy /\ p \notin torn
      BY <1>1, <2>2
    <3>2. format'[p] = format[p] /\ file'[p] = file[p]
      BY <1>2, <3>1
    <3>3. at[p] \notin {"working", "writing"}
      BY <3>1 DEF Busy
    <3>4. Whole(p) /\ Past(p) /\ \A c : ~Pending(p, c)
      BY <3>1, <3>3 DEF ProjectInv, Pending
    <3>5. Latest(p)' = Latest(p)
      BY <1>1 DEF Latest
    <3>6. QED
      BY <1>1, <3>2, <3>4, <3>5 DEF Whole, Past, Excused
  <2>3. QED
    BY <2>1, <2>2 DEF ProjectInv
<1>5. Bound'
  BY <1>1, BoundAtEnd
<1>6. QED
  BY <1>1, <1>3, <1>4, <1>5 DEF Fetches, EndedWell

\* The run goes on, or ends with no project in hand.
LEMMA RunFrame ==
  ASSUME Inv, UNCHANGED <<script, runs, at, todo, format, version, file, cut, hidden>>,
         \/ phase \in {"fetching", "finding"} /\ from' = from
         \/ phase = "updating" /\ phase' = "updating" /\ upstream' = upstream
              /\ \A p \in Projects : /\ p < from' => at[p] = "done"
                                     /\ at[p] # "queued" => p < from' + BatchSize
         \/ phase = "updating" /\ phase' = "exited" /\ upstream' = upstream
              /\ \A p \in Projects : at[p] = "done",
         TypeOK', Fetches', EndedWell'
  PROVE  Inv'
<1> USE DEF Inv
<1>1. CASE phase \in {"fetching", "finding"} /\ from' = from
  <2>1. ASSUME NEW p \in Projects PROVE ProjectInv(p)'
    <3>1. at[p] = "queued" /\ ~(p < from) /\ ~Pending(p, "cdk.json") /\ \A c : ~Pending(p, c)
      <4>1. at[p] = "queued"
        BY <1>1 DEF ProjectInv, Place
      <4>2. from = 1 /\ p \in 1 .. Len(Kind) /\ Len(Kind) \in Nat
        BY <1>1, Constants DEF Fetches
      <4>3. QED
        BY <4>1, <4>2 DEF Pending
    <3>2. Place(p)'
      BY <1>1, <3>1 DEF Place
    <3>3. p \notin cut => (Whole(p) /\ Past(p))'
      BY <3>1 DEF ProjectInv, Whole, Past, Excused
    <3>4. QED
      BY <3>2, <3>3 DEF ProjectInv
  <2>2. Bound'
    <3>1. CASE phase' = "exited"
      BY <1>1, <3>1, BoundAtEnd
    <3>2. CASE phase' # "exited"
      BY <1>1, <3>2 DEF Bound
    <3>3. QED
      BY <3>1, <3>2
  <2>3. QED
    BY <2>1, <2>2
<1>2. CASE /\ phase = "updating" /\ phase' = "updating" /\ upstream' = upstream
           /\ \A p \in Projects : /\ p < from' => at[p] = "done"
                                  /\ at[p] # "queued" => p < from' + BatchSize
  <2>1. ASSUME NEW p \in Projects PROVE ProjectInv(p)'
    <3>1. Place(p)'
      <4>1. at[p] \in {"working", "writing"} => todo[p] # <<>>
        BY DEF ProjectInv, Place
      <4>2. (p < from' => at[p] = "done") /\ (at[p] # "queued" => p < from' + BatchSize)
        BY <1>2
      <4>3. QED
        BY <1>2, <4>1, <4>2, Zenon DEF Place
    <3>2. Latest(p)' = Latest(p)
      BY <1>2 DEF Latest
    <3>3. \A c : Excused(p, c)' = Excused(p, c)
      BY <1>2 DEF Pending, Excused
    <3>4. p \notin cut => (Whole(p) /\ Past(p))'
      BY <1>2, <3>2, <3>3 DEF ProjectInv, Whole, Past, Excused
    <3>5. QED
      BY <3>1, <3>4 DEF ProjectInv
  <2>2. Bound'
    BY <1>2 DEF Bound
  <2>3. QED
    BY <2>1, <2>2
<1>3. CASE /\ phase = "updating" /\ phase' = "exited" /\ upstream' = upstream
           /\ \A p \in Projects : at[p] = "done"
  <2>1. ASSUME NEW p \in Projects PROVE ProjectInv(p)'
    <3>1. Place(p)'
      BY <1>3 DEF Place
    <3>2. Latest(p)' = Latest(p) /\ \A c : ~Pending(p, c)
      BY <1>3 DEF Latest, Pending, Excused
    <3>3. p \notin cut => (Whole(p) /\ Past(p))'
      BY <1>3, <3>2 DEF ProjectInv, Whole, Past, Excused
    <3>4. QED
      BY <3>1, <3>3 DEF ProjectInv
  <2>2. Bound'
    BY <1>3, BoundAtEnd
  <2>3. QED
    BY <2>1, <2>2
<1>4. QED
  BY <1>1, <1>2, <1>3

LEMMA FetchingInv ==
  ASSUME Inv, Fetching
  PROVE  Inv'
<1> USE DEF Inv
<1>1. ASSUME NEW u \in Urls, FetchJson(u) PROVE Inv'
  <2>1. TypeOK' /\ Fetches' /\ EndedWell'
    BY <1>1 DEF FetchJson, TypeOK, Fetches, EndedWell, run, tree, marks
  <2>2. QED
    BY <1>1, <2>1, RunFrame DEF FetchJson, run, tree, marks
<1>2. ASSUME NEW u \in Urls, FetchJsonFails(u) PROVE Inv'
  <2>1. /\ phase = "fetching" /\ tries' = [tries EXCEPT ![u] = tries[u] + 1]
        /\ IF tries'[u] = Retries THEN phase' = "exited" /\ exitCode' = "1"
           ELSE phase' = phase /\ exitCode' = exitCode
        /\ UNCHANGED <<script, runs, before, got, upstream, from, at, todo, format, version, file, cut, hidden>>
    BY <1>2 DEF FetchJsonFails, Exit, run, tree, marks
  <2>2. tries[u] \in 0 .. Retries /\ Retries \in Nat /\ tries[u] < Retries
    BY <2>1, Constants DEF TypeOK, Fetches
  <2>3. tries[u] + 1 \in 0 .. Retries /\ (tries[u] + 1 # Retries => tries[u] + 1 < Retries)
    BY <2>2
  <2>4. tries' \in [Urls -> 0 .. Retries] /\ tries'[u] = tries[u] + 1
    BY <2>1, <2>3 DEF TypeOK
  <2>5. TypeOK'
    BY <2>1, <2>4 DEF TypeOK
  <2>6. Fetches'
    <3> SUFFICES ASSUME phase' = "fetching", NEW v \in Urls PROVE tries'[v] < Retries
      BY <2>1 DEF Fetches
    <3>1. tries'[u] # Retries
      BY <2>1
    <3>2. tries[v] < Retries
      BY <2>1 DEF Fetches
    <3>3. CASE v = u
      BY <2>3, <2>4, <3>1, <3>3
    <3>4. CASE v # u
      BY <2>1, <3>2, <3>4 DEF TypeOK
    <3>5. QED
      BY <3>3, <3>4
  <2>7. EndedWell'
    BY <2>1 DEF EndedWell
  <2>8. QED
    BY <2>1, <2>5, <2>6, <2>7, RunFrame
<1>3. CASE FetchLatestVersions
  <2>1. TypeOK' /\ Fetches' /\ EndedWell'
    BY <1>3 DEF FetchLatestVersions, Sufficient, TypeOK, Fetches, EndedWell, run, tree, marks
  <2>2. QED
    BY <1>3, <2>1, RunFrame DEF FetchLatestVersions, run, tree, marks
<1>4. CASE VersionsMissing
  BY <1>4, EndsEarlyInv DEF VersionsMissing
<1>5. CASE FindPackageJsonFiles
  <2>1. /\ phase = "finding"
        /\ \/ phase' = "updating" /\ exitCode' = exitCode
           \/ phase' = "exited" /\ exitCode' = "1"
        /\ UNCHANGED <<script, runs, before, tries, got, upstream, from, at, todo, format, version, file, cut, hidden>>
    BY <1>5 DEF FindPackageJsonFiles, Exit, run, fetched, tree, marks
  <2>2. TypeOK' /\ Fetches' /\ EndedWell'
    BY <2>1 DEF TypeOK, Fetches, EndedWell
  <2>3. QED
    BY <2>1, <2>2, RunFrame
<1>6. QED
  BY <1>1, <1>2, <1>3, <1>4, <1>5 DEF Fetching

LEMMA NextBatchInv ==
  ASSUME Inv, NextBatch
  PROVE  Inv'
<1> USE DEF Inv
<1>1. /\ phase = "updating" /\ \A p \in Projects \cap Batch : at[p] = "done"
      /\ IF from \in Projects
         THEN from' = from + BatchSize /\ phase' = phase /\ exitCode' = exitCode
         ELSE phase' = "exited" /\ exitCode' = "0" /\ from' = from
      /\ UNCHANGED <<script, runs, before, tries, got, upstream, at, todo, format, version, file, cut, hidden>>
  BY DEF NextBatch, Exit, run, fetched, tree, marks
<1>2. /\ Projects = 1 .. Len(Kind) /\ Len(Kind) \in Nat /\ BatchSize \in Nat \ {0}
      /\ from \in 1 .. Len(Kind) + BatchSize
  BY Constants DEF TypeOK
<1>3. ASSUME NEW p \in Projects, p < from + BatchSize PROVE at[p] = "done"
  <2>1. CASE p < from
    BY <1>1, <2>1 DEF ProjectInv, Place
  <2>2. CASE ~(p < from)
    <3>1. p \in Batch
      BY <1>2, <1>3, <2>2 DEF Batch
    <3>2. QED
      BY <1>1, <3>1
  <2>3. QED
    BY <2>1, <2>2
<1>4. CASE from \in Projects
  <2>1. from' \in 1 .. Len(Kind) + BatchSize
    BY <1>1, <1>2, <1>4
  <2>2. TypeOK'
    BY <1>1, <1>4, <2>1 DEF TypeOK
  <2>3. Fetches' /\ EndedWell'
    BY <1>1, <1>4 DEF Fetches, EndedWell
  <2>4. \A p \in Projects : /\ p < from' => at[p] = "done"
                            /\ at[p] # "queued" => p < from' + BatchSize
    <3> SUFFICES ASSUME NEW p \in Projects
                 PROVE  /\ p < from' => at[p] = "done"
                        /\ at[p] # "queued" => p < from' + BatchSize
      OBVIOUS
    <3>1. from' = from + BatchSize
      BY <1>1, <1>4
    <3>2. at[p] # "queued" => p < from + BatchSize
      BY <1>1 DEF ProjectInv, Place
    <3>3. QED
      BY <1>2, <1>3, <3>1, <3>2
  <2>5. QED
    BY <1>1, <1>4, <2>2, <2>3, <2>4, RunFrame
<1>5. CASE from \notin Projects
  <2>1. \A p \in Projects : at[p] = "done"
    <3> SUFFICES ASSUME NEW p \in Projects PROVE at[p] = "done"
      OBVIOUS
    <3>1. p < from + BatchSize
      BY <1>2, <1>5
    <3>2. QED
      BY <1>3, <3>1
  <2>2. TypeOK'
    BY <1>1, <1>5 DEF TypeOK
  <2>3. Fetches' /\ EndedWell'
    BY <1>1, <1>5, <2>1 DEF Fetches, EndedWell
  <2>4. QED
    BY <1>1, <1>5, <2>1, <2>2, <2>3, RunFrame
<1>6. QED
  BY <1>4, <1>5

LEMMA RerunInv ==
  ASSUME Inv, Rerun
  PROVE  Inv'
<1> USE DEF Inv
<1>1. /\ phase = "exited" /\ runs < MaxRuns /\ runs' = runs + 1 /\ script' \in {"migrate", "bump"}
      /\ phase' = "fetching" /\ exitCode' = "none" /\ tries' = [u \in Urls |-> 0]
      /\ got' = {} /\ upstream' = "unknown" /\ from' = 1
      /\ at' = [p \in Projects |-> "queued"] /\ todo' = [p \in Projects |-> <<>>]
      /\ UNCHANGED <<format, version, file, cut, hidden>>
  BY DEF Rerun, tree, marks
<1>2. runs \in Nat /\ BatchSize \in Nat /\ Retries \in Nat \ {0} /\ MaxRuns \in Nat /\ Len(Kind) \in Nat
      /\ BatchSize > 0
  BY Constants DEF TypeOK
<1>3. TypeOK'
  <2>1. runs' \in 1 .. MaxRuns /\ from' \in 1 .. Len(Kind) + BatchSize
    BY <1>1, <1>2
  <2>2. tries' \in [Urls -> 0 .. Retries]
    BY <1>1, <1>2
  <2>3. todo' \in [Projects -> Seq(Companions)]
    BY <1>1
  <2>4. QED
    BY <1>1, <2>1, <2>2, <2>3 DEF TypeOK
<1>4. Fetches' /\ EndedWell'
  BY <1>1, <1>2 DEF Fetches, EndedWell
<1>5. ASSUME NEW p \in Projects PROVE ProjectInv(p)'
  <2>1. Place(p)' /\ Past(p)'
    BY <1>1 DEF Place, Past
  <2>2. \A c : ~Pending(p, c)
    BY <1>1 DEF Pending
  <2>3. p \notin cut => Whole(p)'
    BY <1>1, <2>2 DEF ProjectInv, Whole, Excused
  <2>4. QED
    BY <1>1, <2>1, <2>3 DEF ProjectInv
<1>6. Bound'
  <2>1. runs' - 1 = runs
    BY <1>1, <1>2
  <2>2. QED
    BY <1>1, <2>1 DEF Bound
<1>7. QED
  BY <1>3, <1>4, <1>5, <1>6

-----------------------------------------------------------------------------
(* The steps of a task.                                                    *)

\* What there is to show of a step of p.
LEMMA TaskFrame ==
  ASSUME Inv, NEW p \in Projects, phase = "updating", at[p] # "done", p < from + BatchSize,
         at' = [at EXCEPT ![p] = at'[p]], at'[p] # "queued",
         UNCHANGED <<script, runs, phase, exitCode, tries, upstream, from, cut>>,
         \A q \in Projects \ {p} :
           /\ todo'[q] = todo[q] /\ format'[q] = format[q]
           /\ version'[q] = version[q] /\ file'[q] = file[q] /\ hidden'[q] = hidden[q],
         at'[p] \in {"working", "writing"} => todo'[p] # <<>>,
         p \notin cut => (Whole(p) /\ Past(p))',
         TypeOK'
  PROVE  Inv'
<1> USE DEF Inv
<1>1. \A q \in Projects \ {p} : at'[q] = at[q]
  BY DEF TypeOK
<1>2. Fetches' /\ EndedWell' /\ Bound'
  BY DEF Fetches, EndedWell, Bound
<1>3. ProjectInv(p)'
  <2>1. ~(p < from)
    BY DEF ProjectInv, Place
  <2>2. Place(p)'
    BY <2>1 DEF Place
  <2>3. QED
    BY <2>2 DEF ProjectInv
<1>4. ASSUME NEW q \in Projects \ {p} PROVE ProjectInv(q)'
  <2>1. /\ at'[q] = at[q] /\ todo'[q] = todo[q] /\ format'[q] = format[q]
        /\ version'[q] = version[q] /\ file'[q] = file[q] /\ hidden'[q] = hidden[q]
        /\ ProjectInv(q)
    BY <1>1
  <2>2. Place(q)'
    BY <2>1 DEF ProjectInv, Place
  <2>3. Latest(q)' = Latest(q)
    BY <2>1 DEF Latest
  <2>4. \A c : Excused(q, c)' = Excused(q, c)
    BY <2>1 DEF Pending, Excused
  <2>5. q \notin cut => Whole(q)'
    BY <2>1, <2>4 DEF ProjectInv, Whole
  <2>6. q \notin cut => Past(q)'
    BY <2>1, <2>3, <2>4 DEF ProjectInv, Past
  <2>7. QED
    BY <2>2, <2>5, <2>6 DEF ProjectInv
<1>5. QED
  BY <1>2, <1>3, <1>4

\* A task that goes on to the files in rest.
LEMMA ContinuesFacts ==
  ASSUME Inv, NEW p \in Projects, NEW rest \in Seq(Companions), Continues(p, rest)
  PROVE  /\ todo' \in [Projects -> Seq(Companions)] /\ todo'[p] = rest
         /\ \A q \in Projects \ {p} : todo'[q] = todo[q]
         /\ at' = [at EXCEPT ![p] = at'[p]] /\ at'[p] \in {"working", "done"}
         /\ at' \in [Projects -> {"queued", "package", "working", "writing", "done"}]
         /\ at'[p] = "working" <=> rest # <<>>
<1>1. /\ todo' = [todo EXCEPT ![p] = rest]
      /\ at' = [at EXCEPT ![p] = IF rest = <<>> THEN "done" ELSE "working"]
  BY DEF Continues, Goes
<1>2. /\ todo \in [Projects -> Seq(Companions)]
      /\ at \in [Projects -> {"queued", "package", "working", "writing", "done"}]
  BY DEF Inv, TypeOK
<1>3. QED
  BY <1>1, <1>2

\* What is left to look at is still before it.
LEMMA Remaining ==
  ASSUME NEW p, NEW rest, todo'[p] = rest, phase' = "updating",
         at'[p] = "working" <=> rest # <<>>, NEW c, \E i \in DOMAIN rest : rest[i] = c
  PROVE  Pending(p, c)'
<1>1. rest # <<>>
  OBVIOUS
<1>2. QED
  BY <1>1 DEF Pending

LEMMA ReadPackageInv ==
  ASSUME Inv, NEW p \in Projects, ReadPackage(p)
  PROVE  Inv'
<1> USE DEF Inv
<1>1. /\ phase = "updating" /\ p \in Batch /\ at[p] = "queued"
      /\ UNCHANGED <<script, runs, before, phase, exitCode, tries, got, upstream, from, format,
                     version, file, cut, hidden>>
  BY DEF ReadPackage, run, fetched, tree, marks
<1>2. /\ <<>> \in Seq(Companions) /\ Rest(p) \in Seq(Companions)
      /\ ~Migrates(p) /\ script = "migrate" /\ Kind[p] = "cdk" =>
           \E i \in DOMAIN Rest(p) : Rest(p)[i] = "cdk.json"
  BY RestFacts
<1>3. p < from + BatchSize
  BY <1>1, Constants DEF Batch, TypeOK
<1>4. CASE PassesOver(p) /\ Continues(p, <<>>)
  <2>1. /\ todo' \in [Projects -> Seq(Companions)]
        /\ \A q \in Projects \ {p} : todo'[q] = todo[q]
        /\ at' = [at EXCEPT ![p] = at'[p]] /\ at'[p] = "done"
        /\ at' \in [Projects -> {"queued", "package", "working", "writing", "done"}]
    BY <1>2, <1>4, ContinuesFacts
  <2>2. TypeOK'
    BY <1>1, <2>1 DEF TypeOK
  <2>3. ASSUME p \notin cut PROVE (Whole(p) /\ Past(p))'
    <3>1. Whole(p) /\ \A c : ~Pending(p, c)
      BY <1>1, <2>3 DEF ProjectInv, Pending
    <3>2. Whole(p)'
      BY <1>1, <3>1 DEF Whole, Excused
    <3>3. Kind[p] = "other" /\ script = "migrate"
      BY <1>4, <3>1 DEF PassesOver, Whole
    <3>4. Past(p)'
      BY <1>1, <3>3 DEF Past
    <3>5. QED
      BY <3>2, <3>4
  <2>4. QED
    BY <1>1, <1>3, <2>1, <2>2, <2>3, TaskFrame
<1>5. CASE Goes(p, "package") /\ UNCHANGED todo
  <2>1. at' = [at EXCEPT ![p] = at'[p]] /\ at'[p] = "package"
    BY <1>5 DEF Goes, TypeOK
  <2>2. TypeOK'
    BY <1>1, <1>5 DEF Goes, TypeOK
  <2>3. ASSUME p \notin cut PROVE (Whole(p) /\ Past(p))'
    <3>1. Whole(p) /\ \A c : ~Pending(p, c)
      BY <1>1, <2>3 DEF ProjectInv, Pending
    <3>2. QED
      BY <1>1, <2>1, <3>1 DEF Whole, Past, Excused
  <2>4. QED
    BY <1>1, <1>3, <1>5, <2>1, <2>2, <2>3, TaskFrame
<1>6. CASE ~Migrates(p) /\ ~Bumps(p) /\ Continues(p, Rest(p))
  <2>1. /\ todo' \in [Projects -> Seq(Companions)] /\ todo'[p] = Rest(p)
        /\ \A q \in Projects \ {p} : todo'[q] = todo[q]
        /\ at' = [at EXCEPT ![p] = at'[p]] /\ at'[p] \in {"working", "done"}
        /\ at' \in [Projects -> {"queued", "package", "working", "writing", "done"}]
        /\ at'[p] = "working" <=> Rest(p) # <<>>
    BY <1>2, <1>6, ContinuesFacts
  <2>2. TypeOK'
    BY <1>1, <2>1 DEF TypeOK
  <2>3. ASSUME p \notin cut PROVE (Whole(p) /\ Past(p))'
    <3>1. Whole(p) /\ \A c : ~Pending(p, c)
      BY <1>1, <2>3 DEF ProjectInv, Pending
    <3>2. Whole(p)'
      BY <1>1, <3>1 DEF Whole, Excused
    <3>3. version[p] = Latest(p) /\ Latest(p)' = Latest(p)
      BY <1>1, <1>6 DEF Bumps, Latest
    <3>4. ASSUME script = "migrate", Kind[p] = "cdk"
          PROVE  format'[p] = "new" /\ Pending(p, "cdk.json")'
      <4>1. format[p] = "new"
        BY <1>6, <3>1, <3>4 DEF Migrates, Whole, TypeOK
      <4>2. Pending(p, "cdk.json")'
        BY <1>1, <1>2, <1>6, <2>1, <3>4, Remaining
      <4>3. QED
        BY <1>1, <4>1, <4>2
    <3>5. Past(p)'
      BY <1>1, <3>3, <3>4 DEF Past, Excused
    <3>6. QED
      BY <3>2, <3>5
  <2>4. QED
    BY <1>1, <1>3, <2>1, <2>2, <2>3, TaskFrame
<1>7. QED
  BY <1>4, <1>5, <1>6 DEF ReadPackage

LEMMA WritePackageInv ==
  ASSUME Inv, NEW p \in Projects, WritePackage(p)
  PROVE  Inv'
<1> USE DEF Inv
<1>1. /\ phase = "updating" /\ at[p] = "package"
      /\ format' = [format EXCEPT ![p] = IF Migrates(p) THEN "new" ELSE format[p]]
      /\ version' = [version EXCEPT ![p] = Latest(p)]
      /\ Continues(p, Rest(p))
      /\ UNCHANGED <<script, runs, before, phase, exitCode, tries, got, upstream, from, file, cut,
                     hidden>>
  BY DEF WritePackage, run, fetched, marks
<1>2. /\ Rest(p) \in Seq(Companions)
      /\ Migrates(p) => \A c \in Companions : \E i \in DOMAIN Rest(p) : Rest(p)[i] = c
      /\ (script = "migrate" /\ Kind[p] = "cdk") =>
           \E i \in DOMAIN Rest(p) : Rest(p)[i] = "cdk.json"
  BY RestFacts
<1>3. p < from + BatchSize
  BY <1>1 DEF ProjectInv, Place
<1>4. /\ todo' \in [Projects -> Seq(Companions)] /\ todo'[p] = Rest(p)
      /\ \A q \in Projects \ {p} : todo'[q] = todo[q]
      /\ at' = [at EXCEPT ![p] = at'[p]] /\ at'[p] \in {"working", "done"}
      /\ at' \in [Projects -> {"queued", "package", "working", "writing", "done"}]
      /\ at'[p] = "working" <=> Rest(p) # <<>>
  BY <1>1, <1>2, ContinuesFacts
<1>5. Latest(p) \in {"blank", "latest"}
  BY DEF Latest
<1>6. /\ format' \in [Projects -> {"old", "new", "torn"}] /\ version' \in [Projects -> Versions]
      /\ format'[p] = (IF Migrates(p) THEN "new" ELSE format[p]) /\ version'[p] = Latest(p)
      /\ \A q \in Projects \ {p} : format'[q] = format[q] /\ version'[q] = version[q]
  BY <1>1, <1>5 DEF TypeOK, Versions
<1>7. TypeOK'
  BY <1>1, <1>4, <1>6 DEF TypeOK
<1>8. ASSUME NEW c, \E i \in DOMAIN Rest(p) : Rest(p)[i] = c PROVE Pending(p, c)'
  <2>1. phase' = "updating"
    BY <1>1
  <2>2. QED
    BY <1>4, <1>8, <2>1, Remaining
<1>9. ASSUME p \notin cut PROVE (Whole(p) /\ Past(p))'
  <2>1. Whole(p) /\ \A c : ~Pending(p, c)
    BY <1>1, <1>9 DEF ProjectInv, Pending
  <2>2. Whole(p)'
    <3>1. CASE Migrates(p)
      <4>1. ASSUME NEW c \in Companions PROVE Pending(p, c)'
        <5>1. \E i \in DOMAIN Rest(p) : Rest(p)[i] = c
          BY <1>2, <3>1
        <5>2. QED
          BY <1>8, <5>1
      <4>2. QED
        BY <1>1, <1>6, <2>1, <3>1, <4>1 DEF Whole, Excused
    <3>2. CASE ~Migrates(p)
      BY <1>1, <1>6, <2>1, <3>2 DEF Whole, Excused
    <3>3. QED
      BY <3>1, <3>2
  <2>3. version'[p] = Latest(p)'
    <3>1. CASE Latest(p) = "blank"
      BY <1>1, <1>6, <3>1 DEF Latest
    <3>2. CASE Latest(p) = "latest"
      <4>1. ~(upstream = "partial" /\ Kind[p] # "cli")
        BY <3>2 DEF Latest
      <4>2. QED
        BY <1>1, <1>6, <3>2, <4>1 DEF Latest
    <3>3. QED
      BY <1>5, <3>1, <3>2
  <2>4. ASSUME script = "migrate", Kind[p] = "cdk"
        PROVE  format'[p] = "new" /\ Pending(p, "cdk.json")'
    <3>1. format[p] \in {"old", "new"}
      BY <2>1 DEF Whole, TypeOK
    <3>2. format'[p] = "new"
      BY <1>6, <2>4, <3>1 DEF Migrates
    <3>3. \E i \in DOMAIN Rest(p) : Rest(p)[i] = "cdk.json"
      BY <1>2, <2>4
    <3>4. QED
      BY <1>8, <3>2, <3>3
  <2>5. Past(p)'
    BY <1>1, <2>3, <2>4 DEF Past, Excused
  <2>6. QED
    BY <2>2, <2>5
<1>10. QED
  BY <1>1, <1>3, <1>4, <1>6, <1>7, <1>9, TaskFrame

\* The task is done with a companion file, or could not reach it: the others are
\* still before it.
LEMMA CompanionDone ==
  ASSUME Inv, NEW p \in Projects, phase = "updating", at[p] \in {"working", "writing"},
         NEW rest \in Seq(Companions), rest = Tail(todo[p]), Continues(p, rest),
         UNCHANGED <<script, runs, before, phase, exitCode, tries, got, upstream, from, format,
                     version, cut>>,
         file' \in [Projects -> [Companions -> Formats]],
         hidden' \in [Projects -> SUBSET Companions],
         \A q \in Projects \ {p} : file'[q] = file[q] /\ hidden'[q] = hidden[q],
         \/ file'[p][Head(todo[p])] \notin {"old", "torn"}
         \/ Head(todo[p]) \in hidden'[p] /\ file'[p][Head(todo[p])] # "torn"
         \/ p \in cut,
         \A c \in Companions \ {Head(todo[p])} :
           file'[p][c] = file[p][c] /\ (c \in hidden[p] => c \in hidden'[p])
  PROVE  Inv'
<1> USE DEF Inv
<1>1. todo[p] # <<>> /\ p < from + BatchSize /\ todo[p] \in Seq(Companions)
  BY DEF ProjectInv, Place, TypeOK
<1>2. /\ Head(todo[p]) \in Companions
      /\ \A i \in DOMAIN todo[p] :
           todo[p][i] = Head(todo[p]) \/ \E j \in DOMAIN rest : rest[j] = todo[p][i]
  BY <1>1, HeadTail
<1>3. /\ todo' \in [Projects -> Seq(Companions)] /\ todo'[p] = rest
      /\ \A q \in Projects \ {p} : todo'[q] = todo[q]
      /\ at' = [at EXCEPT ![p] = at'[p]] /\ at'[p] \in {"working", "done"}
      /\ at' \in [Projects -> {"queued", "package", "working", "writing", "done"}]
      /\ at'[p] = "working" <=> rest # <<>>
  BY ContinuesFacts
<1>4. TypeOK'
  BY <1>3 DEF TypeOK
<1>5. ASSUME p \notin cut PROVE (Whole(p) /\ Past(p))'
  <2>1. Whole(p) /\ Past(p)
    BY <1>5 DEF ProjectInv
  <2>2. ASSUME NEW c \in Companions, c # Head(todo[p]), Excused(p, c) PROVE Excused(p, c)'
    <3>1. CASE c \in hidden[p]
      BY <2>2, <3>1 DEF Excused
    <3>2. CASE Pending(p, c)
      <4>1. \E j \in DOMAIN rest : rest[j] = c
        BY <1>2, <2>2, <3>2 DEF Pending
      <4>2. Pending(p, c)'
        BY ZenonT(40), <1>3, <4>1, Remaining
      <4>3. QED
        BY <4>2 DEF Excused
    <3>3. QED
      BY <2>2, <3>1, <3>2 DEF Excused
  <2>3. ASSUME NEW c \in Companions, file'[p][c] = "old", file[p][c] = "old" => Excused(p, c)
        PROVE  Excused(p, c)'
    <3>1. CASE c = Head(todo[p])
      BY <1>5, <2>3, <3>1 DEF Excused
    <3>2. CASE c # Head(todo[p])
      BY <2>2, <2>3, <3>2
    <3>3. QED
      BY <3>1, <3>2
  <2>4. Whole(p)'
    <3>1. \A c \in Companions : file'[p][c] # "torn"
      BY <1>5, <2>1 DEF Whole
    <3>2. ASSUME format[p] = "new", NEW c \in Companions \ {"cdk.json"}, file'[p][c] = "old"
          PROVE  Excused(p, c)'
      BY <2>1, <2>3, <3>2 DEF Whole
    <3>3. QED
      BY <2>1, <3>1, <3>2 DEF Whole
  <2>5. Past(p)'
    <3>1. Latest(p)' = Latest(p)
      BY DEF Latest
    <3>2. ASSUME file'[p]["cdk.json"] = "old", script = "migrate", Kind[p] = "cdk"
          PROVE  Excused(p, "cdk.json")'
      <4>1. "cdk.json" \in Companions
        BY DEF Companions
      <4>2. QED
        BY <2>1, <2>3, <3>2, <4>1 DEF Past
    <3>3. QED
      BY <2>1, <3>1, <3>2 DEF Past
  <2>6. QED
    BY <2>4, <2>5
<1>6. at'[p] # "queued" /\ (at'[p] \in {"working", "writing"} => todo'[p] # <<>>)
  BY <1>3
<1>7. QED
  BY <1>1, <1>3, <1>4, <1>5, <1>6, TaskFrame

\* What the task has seen, or not, of a file.
LEMMA HiddenFacts ==
  ASSUME Inv, NEW p \in Projects, at[p] \in {"working", "writing"},
         \/ Seen(p)
         \/ hidden' = [hidden EXCEPT ![p] = @ \cup {Head(todo[p])}]
  PROVE  /\ hidden' \in [Projects -> SUBSET Companions]
         /\ \A q \in Projects \ {p} : hidden'[q] = hidden[q]
         /\ \A c : c # Head(todo[p]) => (c \in hidden'[p] <=> c \in hidden[p])
         /\ Seen(p) \/ Head(todo[p]) \in hidden'[p]
         /\ Head(todo[p]) \in Companions /\ Tail(todo[p]) \in Seq(Companions)
<1>1. todo[p] # <<>> /\ todo[p] \in Seq(Companions) /\ hidden \in [Projects -> SUBSET Companions]
  BY DEF Inv, ProjectInv, Place, TypeOK
<1>2. Head(todo[p]) \in Companions /\ Tail(todo[p]) \in Seq(Companions)
  BY <1>1, HeadTail
<1>3. CASE hidden' = [hidden EXCEPT ![p] = hidden[p] \ {Head(todo[p])}]
  BY <1>1, <1>2, <1>3 DEF Seen
<1>4. CASE hidden' = [hidden EXCEPT ![p] = hidden[p] \cup {Head(todo[p])}]
  BY <1>1, <1>2, <1>4
<1>5. QED
  BY <1>3, <1>4 DEF Seen

LEMMA ReadCompanionInv ==
  ASSUME Inv, NEW p \in Projects, ReadCompanion(p)
  PROVE  Inv'
<1> USE DEF Inv
<1>1. /\ phase = "updating" /\ at[p] = "working"
      /\ UNCHANGED <<script, runs, before, phase, exitCode, tries, got, upstream, from, format,
                     version, file, cut>>
  BY DEF ReadCompanion, run, fetched, tree
<1>2. CASE Goes(p, "writing") /\ UNCHANGED <<todo, hidden>>
  <2>1. at' = [at EXCEPT ![p] = at'[p]] /\ at'[p] = "writing"
    BY <1>2 DEF Goes, TypeOK
  <2>2. TypeOK'
    BY <1>1, <1>2 DEF Goes, TypeOK
  <2>3. ASSUME p \notin cut PROVE (Whole(p) /\ Past(p))'
    <3>1. Whole(p) /\ Past(p)
      BY <2>3 DEF ProjectInv
    <3>2. \A c : Excused(p, c)' = Excused(p, c)
      BY <1>1, <1>2, <2>1 DEF Pending, Excused
    <3>3. Latest(p)' = Latest(p)
      BY <1>1 DEF Latest
    <3>4. QED
      BY <1>1, <2>1, <3>1, <3>2, <3>3 DEF Whole, Past
  <2>4. p < from + BatchSize /\ todo[p] # <<>>
    BY <1>1 DEF ProjectInv, Place
  <2>5. QED
    BY <1>1, <1>2, <2>1, <2>2, <2>3, <2>4, TaskFrame
<1>3. CASE /\ file[p][Head(todo[p])] \notin {"old", "odd"}
           /\ Continues(p, Tail(todo[p])) /\ Seen(p)
  <2>1. /\ hidden' \in [Projects -> SUBSET Companions]
        /\ \A q \in Projects \ {p} : hidden'[q] = hidden[q]
        /\ \A c : c # Head(todo[p]) => (c \in hidden'[p] <=> c \in hidden[p])
        /\ Head(todo[p]) \in Companions /\ Tail(todo[p]) \in Seq(Companions)
    BY <1>1, <1>3, HiddenFacts
  <2>2. file'[p][Head(todo[p])] \notin {"old", "torn"} \/ p \in cut
    BY <1>1, <1>3, <2>1 DEF ProjectInv, Whole
  <2>3. QED
    BY <1>1, <1>3, <2>1, <2>2, CompanionDone DEF TypeOK
<1>4. QED
  BY <1>2, <1>3 DEF ReadCompanion

LEMMA CompanionHiddenInv ==
  ASSUME Inv, NEW p \in Projects, CompanionHidden(p)
  PROVE  Inv'
<1> USE DEF Inv
<1>1. /\ phase = "updating" /\ at[p] \in {"working", "writing"}
      /\ hidden' = [hidden EXCEPT ![p] = @ \cup {Head(todo[p])}]
      /\ Continues(p, Tail(todo[p]))
      /\ UNCHANGED <<script, runs, before, phase, exitCode, tries, got, upstream, from, format,
                     version, file, cut>>
  BY DEF CompanionHidden, run, fetched, tree
<1>2. /\ hidden' \in [Projects -> SUBSET Companions]
      /\ \A q \in Projects \ {p} : hidden'[q] = hidden[q]
      /\ \A c : c # Head(todo[p]) => (c \in hidden'[p] <=> c \in hidden[p])
      /\ Head(todo[p]) \in Companions /\ Tail(todo[p]) \in Seq(Companions)
  BY <1>1, HiddenFacts
<1>3. Head(todo[p]) \in hidden'[p]
  BY <1>1 DEF TypeOK
<1>4. file'[p][Head(todo[p])] # "torn" \/ p \in cut
  BY <1>1, <1>2 DEF ProjectInv, Whole
<1>5. QED
  BY <1>1, <1>2, <1>3, <1>4, CompanionDone DEF TypeOK

LEMMA WriteCompanionInv ==
  ASSUME Inv, NEW p \in Projects, WriteCompanion(p)
  PROVE  Inv'
<1> USE DEF Inv
<1> DEFINE h == Head(todo[p])
           v == IF file[p][h] = "odd" THEN "odd" ELSE "new"
<1>1. /\ phase = "updating" /\ at[p] = "writing" /\ Continues(p, Tail(todo[p])) /\ Seen(p)
      /\ file' = [file EXCEPT ![p] = [file[p] EXCEPT ![h] = v]]
      /\ UNCHANGED <<script, runs, before, phase, exitCode, tries, got, upstream, from, format,
                     version, cut>>
  BY DEF WriteCompanion, run, fetched
<1>2. /\ hidden' \in [Projects -> SUBSET Companions]
      /\ \A q \in Projects \ {p} : hidden'[q] = hidden[q]
      /\ \A c : c # h => (c \in hidden'[p] <=> c \in hidden[p])
      /\ h \in Companions /\ Tail(todo[p]) \in Seq(Companions)
  BY <1>1, HiddenFacts
<1>3. v \in Formats /\ v \notin {"old", "torn"}
  BY DEF Formats
<1> HIDE DEF h, v
<1>4. file \in [Projects -> [Companions -> Formats]] /\ file[p] \in [Companions -> Formats]
  BY DEF TypeOK
<1>5. file'[p] = [file[p] EXCEPT ![h] = v] /\ \A q \in Projects \ {p} : file'[q] = file[q]
  BY <1>1, <1>4
<1>6. [file[p] EXCEPT ![h] = v] \in [Companions -> Formats]
  BY <1>3, <1>4
<1>7. file' \in [Projects -> [Companions -> Formats]]
  BY <1>1, <1>4, <1>6
<1>8. file'[p][h] = v /\ \A c \in Companions \ {h} : file'[p][c] = file[p][c]
  BY <1>2, <1>4, <1>5
<1>9. QED
  BY <1>1, <1>2, <1>3, <1>5, <1>7, <1>8, CompanionDone DEF h

LEMMA NextInv == ASSUME Inv, [Next]_vars PROVE Inv'
<1>1. CASE Fetching
  BY <1>1, FetchingInv
<1>2. ASSUME NEW p \in Projects, Task(p) PROVE Inv'
  BY <1>2, ReadPackageInv, WritePackageInv, ReadCompanionInv, CompanionHiddenInv,
              WriteCompanionInv DEF Task
<1>3. ASSUME NEW p \in Projects, TaskFails(p) PROVE Inv'
  BY <1>3, EndsEarlyInv DEF TaskFails
<1>4. CASE NextBatch
  BY <1>4, NextBatchInv
<1>5. CASE Kill
  BY <1>5, EndsEarlyInv DEF Kill
<1>6. CASE Rerun
  BY <1>6, RerunInv
<1>7. CASE UNCHANGED vars
  <2> USE <1>7 DEF vars, run, fetched, tree, marks
  <2>1. TypeOK' /\ Fetches' /\ EndedWell' /\ Bound'
    BY DEF Inv, TypeOK, Fetches, EndedWell, Bound
  <2>2. ASSUME NEW p \in Projects PROVE ProjectInv(p)'
    <3>1. Latest(p)' = Latest(p) /\ \A c : Excused(p, c)' = Excused(p, c)
      BY DEF Latest, Pending, Excused
    <3>2. Whole(p)' = Whole(p) /\ Past(p)' = Past(p) /\ Place(p)' = Place(p)
      BY <3>1 DEF Whole, Past, Place
    <3>3. QED
      BY <3>2 DEF Inv, ProjectInv
  <2>3. QED
    BY <2>1, <2>2 DEF Inv
<1>8. QED
  BY <1>1, <1>2, <1>3, <1>4, <1>5, <1>6, <1>7 DEF Next, Terminated

LEMMA Invariance == Spec => []Inv
<1>1. Init => Inv
  BY InitInv
<1>2. Inv /\ [Next]_vars => Inv'
  BY NextInv
<1>3. QED
  BY <1>1, <1>2, PTL DEF Spec

-----------------------------------------------------------------------------
(* A run over again.                                                       *)

\* With the versions at rest there is nothing to do but read.
LEMMA NothingToDo ==
  ASSUME Inv, Fetched, phase = "updating", Repeats, NEW p \in Projects \ cut, Rested(p),
         ~PassesOver(p)
  PROVE  /\ ~Migrates(p) /\ ~Bumps(p)
         /\ Rest(p) = IF script = "migrate" /\ Kind[p] = "cdk" THEN <<"cdk.json">> ELSE <<>>
<1>1. ~Migrates(p)
  BY DEF Migrates, Rested
<1>2. Rest(p) = IF script = "migrate" /\ Kind[p] = "cdk" THEN <<"cdk.json">> ELSE <<>>
  BY <1>1 DEF Rest
<1>3. upstream = before[2]
  BY DEF Fetched, Repeats
<1>4. script = "bump" \/ Kind[p] # "other"
  BY DEF PassesOver, Inv, TypeOK
<1>5. version[p] = Latest(p)
  BY <1>3, <1>4 DEF Rested, Latest
<1>6. QED
  BY <1>1, <1>2, <1>5 DEF Bumps

\* A task that is at rest changes nothing and stays so.
LEMMA TaskRests ==
  ASSUME Inv, Fetched, Repeats, NEW p \in Projects, Task(p), p \notin cut, Rested(p)
  PROVE  Rested(p)' /\ Kept(p)
<1> DEFINE Same == format' = format /\ version' = version /\ file' = file /\ before' = before
                   /\ script' = script
<1>1. CASE ReadPackage(p)
  <2>1. phase = "updating" /\ Same /\ hidden' = hidden
    BY <1>1 DEF ReadPackage, run, tree, marks
  <2>2. CASE Continues(p, <<>>)
    <3>1. <<>> \in Seq(Companions)
      OBVIOUS
    <3>2. at'[p] = "done"
      BY <2>2, <3>1, ContinuesFacts
    <3>3. QED
      BY <2>1, <3>2 DEF Rested, Kept
  <2>3. CASE ~PassesOver(p) /\ Continues(p, Rest(p))
    <3>1. Rest(p) = IF script = "migrate" /\ Kind[p] = "cdk" THEN <<"cdk.json">> ELSE <<>>
      BY <2>1, <2>3, NothingToDo
    <3>2. Rest(p) \in Seq(Companions)
      BY RestFacts
    <3>3. todo'[p] = Rest(p) /\ at'[p] \in {"working", "done"} /\ (at'[p] = "working" <=> Rest(p) # <<>>)
      BY <2>3, <3>2, ContinuesFacts
    <3>4. QED
      BY <2>1, <3>1, <3>3 DEF Rested, Kept
  <2>4. CASE ~PassesOver(p) /\ (Migrates(p) \/ Bumps(p))
    BY <2>1, <2>4, NothingToDo
  <2>5. QED
    BY <1>1, <2>2, <2>3, <2>4 DEF ReadPackage
<1>2. CASE WritePackage(p)
  BY <1>2 DEF WritePackage, Rested
<1>3. ASSUME at[p] \in {"working", "writing"}
      PROVE  /\ script = "migrate" /\ Kind[p] = "cdk" /\ todo[p] = <<"cdk.json">>
             /\ Head(todo[p]) = "cdk.json" /\ Tail(todo[p]) = <<>> /\ <<>> \in Seq(Companions)
  <2>1. script = "migrate" /\ Kind[p] = "cdk" /\ todo[p] = <<"cdk.json">>
    BY <1>3 DEF Rested
  <2>2. QED
    BY <2>1
<1>4. CASE ReadCompanion(p)
  <2>1. Same /\ at[p] = "working"
    BY <1>4 DEF ReadCompanion, run, tree
  <2>2. CASE file[p]["cdk.json"] \notin {"old", "odd"} /\ Continues(p, <<>>)
    <3>1. at'[p] = "done"
      BY <1>3, <2>1, <2>2, ContinuesFacts
    <3>2. QED
      BY <2>1, <2>2, <3>1 DEF Rested, Kept
  <2>3. CASE /\ file[p]["cdk.json"] \in {"old", "odd"}
             /\ Goes(p, "writing") /\ UNCHANGED <<todo, hidden>>
    <3>1. at'[p] = "writing" /\ todo'[p] = <<"cdk.json">>
      BY <1>3, <2>1, <2>3 DEF Goes, Inv, TypeOK
    <3>2. "cdk.json" \in hidden[p] \/ file[p]["cdk.json"] = "odd"
      BY <1>3, <2>1, <2>3 DEF Rested
    <3>3. QED
      BY <1>3, <2>1, <2>3, <3>1, <3>2 DEF Rested, Kept
  <2>4. QED
    BY <1>3, <1>4, <2>1, <2>2, <2>3 DEF ReadCompanion
<1>5. CASE CompanionHidden(p)
  <2>1. Same /\ at[p] \in {"working", "writing"} /\ Continues(p, Tail(todo[p]))
        /\ hidden' = [hidden EXCEPT ![p] = @ \cup {Head(todo[p])}]
    BY <1>5 DEF CompanionHidden, run, tree
  <2>2. at'[p] = "done"
    BY <1>3, <2>1, ContinuesFacts
  <2>3. "cdk.json" \in hidden'[p]
    BY <1>3, <2>1 DEF Inv, TypeOK
  <2>4. QED
    BY <2>1, <2>2, <2>3 DEF Rested, Kept
<1>6. CASE WriteCompanion(p)
  <2>1. /\ format' = format /\ version' = version /\ before' = before /\ script' = script
        /\ at[p] = "writing" /\ Continues(p, Tail(todo[p]))
        /\ "cdk.json" \in hidden[p] \/ file[p]["cdk.json"] = "odd"
    BY <1>6 DEF WriteCompanion, run, Rested
  <2> DEFINE v == IF file[p]["cdk.json"] = "odd" THEN "odd" ELSE "new"
  <2>2. file' = [file EXCEPT ![p] = [file[p] EXCEPT !["cdk.json"] = v]]
    BY <1>3, <1>6, <2>1 DEF WriteCompanion
  <2>3. file \in [Projects -> [Companions -> Formats]] /\ "cdk.json" \in Companions
    BY DEF Inv, TypeOK, Companions
  <2>4. v # "old" /\ (file[p]["cdk.json"] = "odd" => v = file[p]["cdk.json"])
    OBVIOUS
  <2> HIDE DEF v
  <2>5. /\ file'[p]["cdk.json"] = v
        /\ \A c \in Companions \ {"cdk.json"} : file'[p][c] = file[p][c]
    BY <2>2, <2>3
  <2>6. at'[p] = "done"
    BY <1>3, <2>1, ContinuesFacts
  <2>7. Kept(p)
    BY <2>1, <2>4, <2>5 DEF Kept
  <2>8. Rested(p)'
    BY <2>1, <2>4, <2>5, <2>6 DEF Rested
  <2>9. QED
    BY <2>7, <2>8
<1>7. QED
  BY <1>1, <1>2, <1>4, <1>5, <1>6 DEF Task

\* A run that ends too soon spoils only what it has in hand.
LEMMA EndingRests ==
  ASSUME Inv, NEW code, EndsEarly(code), NEW p \in Projects \ cut', Rested(p)
  PROVE  Rested(p)' /\ Kept(p)
<1>1. p \notin Busy
  BY DEF EndsEarly
<1>2. format'[p] = format[p] /\ file'[p] = file[p]
  BY <1>1 DEF EndsEarly
<1>3. UNCHANGED <<at, todo, version, script, before, hidden>>
  BY DEF EndsEarly, run
<1>4. QED
  BY <1>2, <1>3 DEF Rested, Kept

\* What a step does to a project at rest, if it does not start a run.
LEMMA StepRests ==
  ASSUME Inv, Fetched, [Next]_vars, ~Rerun, Repeats, NEW p \in Projects \ cut', p \notin cut,
         Rested(p)
  PROVE  Rested(p)' /\ Kept(p)
<1>1. CASE UNCHANGED <<script, before, at, todo, format, version, file, hidden>>
  BY <1>1 DEF Rested, Kept
<1>2. CASE Fetching
  <2>1. CASE VersionsMissing
    BY <2>1, EndingRests DEF VersionsMissing
  <2>2. CASE ~VersionsMissing
    BY <1>1, <1>2, <2>2 DEF Fetching, FetchJson, FetchJsonFails, FetchLatestVersions,
                            FindPackageJsonFiles, run, tree, marks
  <2>3. QED
    BY <2>1, <2>2
<1>3. ASSUME NEW q \in Projects, Task(q)
      PROVE  Rested(p)' /\ Kept(p)
  <2>1. CASE q = p
    BY <1>3, <2>1, TaskRests
  <2>2. CASE q # p
    <3>1. /\ UNCHANGED <<script, before>>
          /\ at'[p] = at[p] /\ todo'[p] = todo[p] /\ format'[p] = format[p]
          /\ version'[p] = version[p] /\ file'[p] = file[p] /\ hidden'[p] = hidden[p]
      BY <1>3, <2>2 DEF Task, ReadPackage, WritePackage, ReadCompanion, CompanionHidden,
                        WriteCompanion, Seen, Continues, Goes, run, tree, marks, Inv, TypeOK
    <3>2. QED
      BY <3>1 DEF Rested, Kept
  <2>3. QED
    BY <2>1, <2>2
<1>4. ASSUME NEW q \in Projects, TaskFails(q)
      PROVE  Rested(p)' /\ Kept(p)
  BY <1>4, EndingRests DEF TaskFails
<1>5. CASE NextBatch
  BY <1>1, <1>5 DEF NextBatch, run, tree, marks
<1>6. CASE Kill
  BY <1>6, EndingRests DEF Kill
<1>7. CASE UNCHANGED vars
  BY <1>1, <1>7 DEF vars, run, tree, marks
<1>8. QED
  BY <1>2, <1>3, <1>4, <1>5, <1>6, <1>7 DEF Next, Terminated

\* A run that does the last one over again finds every project at rest.
LEMMA RerunRests ==
  ASSUME Inv, Rerun, Repeats', NEW p \in Projects \ cut
  PROVE  Rested(p)'
<1>1. /\ script' = script /\ before' = <<script, upstream, exitCode>> /\ exitCode = "0"
      /\ at' = [q \in Projects |-> "queued"] /\ UNCHANGED <<format, version, file, hidden>>
  BY DEF Rerun, Repeats, tree, marks
<1>2. phase = "exited" /\ at[p] = "done" /\ Past(p)
  BY <1>1 DEF Inv, EndedWell, ProjectInv, Rerun
<1>3. before'[2] = upstream
  BY <1>1
<1>4. QED
  BY <1>1, <1>2, <1>3 DEF Rested, Past, Pending, Excused, Latest

LEMMA RepeatInvariance == Spec => []RepeatInv
<1>1. Init => RepeatInv
  <2> SUFFICES ASSUME Init PROVE RepeatInv
    OBVIOUS
  <2>1. Fetched /\ ~Repeats
    BY DEF Init, Fetched, Repeats
  <2>2. QED
    BY <2>1, InitInv DEF RepeatInv
<1>2. RepeatInv /\ [Next]_vars => RepeatInv'
  <2> SUFFICES ASSUME RepeatInv, [Next]_vars PROVE RepeatInv'
    OBVIOUS
  <2> USE DEF RepeatInv
  <2>1. Inv'
    BY NextInv
  <2>2. Fetched'
    <3>1. CASE UNCHANGED <<phase, upstream>> \/ UNCHANGED vars
      BY <3>1 DEF Fetched, vars, fetched
    <3>2. CASE phase' = "exited"
      BY <3>2 DEF Fetched
    <3>3. CASE Fetching
      BY <3>1, <3>2, <3>3 DEF Fetching, FetchJson, FetchJsonFails, FetchLatestVersions,
           VersionsMissing, FindPackageJsonFiles, EndsEarly, Exit, Fetched, fetched
    <3>4. ASSUME NEW p \in Projects, Task(p) \/ TaskFails(p) PROVE Fetched'
      BY <3>1, <3>2, <3>4 DEF Task, ReadPackage, WritePackage, ReadCompanion, CompanionHidden, WriteCompanion,
           TaskFails, EndsEarly, Exit, fetched
    <3>5. CASE NextBatch \/ Kill
      BY <3>1, <3>2, <3>5 DEF NextBatch, Kill, EndsEarly, Exit, fetched
    <3>6. CASE Rerun
      BY <3>6 DEF Rerun, Fetched
    <3>7. QED
      BY <3>1, <3>3, <3>4, <3>5, <3>6 DEF Next, Terminated
  <2>3. cut \subseteq cut'
    BY DEF Next, Fetching, FetchJson, FetchJsonFails, FetchLatestVersions, VersionsMissing,
           FindPackageJsonFiles, Task, ReadPackage, WritePackage, ReadCompanion, CompanionHidden, WriteCompanion,
           TaskFails, NextBatch, Kill, EndsEarly, Rerun, Terminated, vars, marks
  <2>4. ASSUME NEW p \in Projects \ cut', Repeats' PROVE Rested(p)'
    <3>1. CASE Rerun
      BY <2>3, <2>4, <3>1, RerunRests
    <3>2. CASE ~Rerun
      <4>1. UNCHANGED <<script, before>> /\ (upstream' = upstream \/ upstream = "unknown")
        BY <3>2 DEF Next, Fetching, FetchJson, FetchJsonFails, FetchLatestVersions,
             VersionsMissing, FindPackageJsonFiles, Task, ReadPackage, WritePackage,
             ReadCompanion, CompanionHidden, WriteCompanion, TaskFails, NextBatch, Kill, EndsEarly, Terminated,
             vars, run, fetched, Fetched
      <4>2. Repeats
        BY <2>4, <4>1 DEF Repeats
      <4>3. QED
        BY <2>3, <3>2, <4>2, StepRests
    <3>3. QED
      BY <3>1, <3>2
  <2>5. QED
    BY <2>1, <2>2, <2>4
<1>3. QED
  BY <1>1, <1>2, PTL DEF Spec

-----------------------------------------------------------------------------
(* The theorems.                                                           *)

\* The updater's variables keep their types: attempts and batches stay within
\* their limits.
THEOREM LegacyTypeOK == Spec => []TypeOK
<1>1. Inv => TypeOK
  BY DEF Inv
<1>2. QED
  BY <1>1, Invariance, PTL

\* However many projects are at work when a run ends too soon, those it did
\* not have in hand are migrated as a whole or not at all, but for the files that
\* the updater could not reach: whichever these are, the others are migrated.
THEOREM LegacyMigratedAsAWhole == Spec => []MigratedAsAWhole
<1>1. Inv => MigratedAsAWhole
  <2> SUFFICES ASSUME Inv, NEW p \in Projects \ cut, ~InHand(p)
               PROVE  /\ format[p] # "torn"
                      /\ \A c \in Companions : file[p][c] # "torn"
                      /\ format[p] = "new" =>
                           \A c \in Companions \ ({"cdk.json"} \cup hidden[p]) : file[p][c] # "old"
    BY DEF MigratedAsAWhole
  <2>1. \A c : ~Pending(p, c)
    BY DEF InHand, Busy, Pending
  <2>2. QED
    BY <2>1 DEF Inv, ProjectInv, Whole, Excused
<1>2. QED
  BY <1>1, Invariance, PTL

\* The projects that the runs spoiled are a batch for each run at most.
THEOREM LegacyDamageBound == Spec => []DamageBound
<1>1. Inv => DamageBound
  <2> SUFFICES ASSUME Inv PROVE DamageBound
    OBVIOUS
  <2>1. IsFiniteSet(cut)
    BY Constants, FS_Subset DEF Inv, TypeOK
  <2>2. Cardinality(cut) \in Nat /\ runs \in Nat /\ BatchSize \in Nat
    BY <2>1, FS_CardinalityType, Constants DEF Inv, TypeOK
  <2>3. BatchSize * (runs - 1) + BatchSize = BatchSize * runs /\ BatchSize * (runs - 1) \in Int
    BY <2>2
  <2>4. QED
    BY <2>2, <2>3 DEF Inv, Bound, DamageBound
<1>2. QED
  BY <1>1, Invariance, PTL

\* An exit code of 0 tells the truth of every project that no earlier run
\* spoiled: its versions, its format, and all its files.  Of the files that
\* the updater could not reach it says nothing.
THEOREM LegacyExitTruthful == Spec => []ExitTruthful
<1>1. Inv => ExitTruthful
  <2> SUFFICES ASSUME Inv, exitCode = "0", NEW p \in Projects \ cut
               PROVE  /\ Kind[p] # "other" => version[p] = Latest(p)
                      /\ (script = "migrate" /\ Kind[p] = "cdk") =>
                           /\ format[p] = "new"
                           /\ \A c \in Companions \ hidden[p] : file[p][c] # "old"
    BY DEF ExitTruthful
  <2>1. phase = "exited" /\ at[p] = "done"
    BY DEF Inv, EndedWell
  <2>2. \A c : ~Pending(p, c)
    BY <2>1 DEF Pending
  <2>3. Whole(p) /\ Past(p)
    BY DEF Inv, ProjectInv
  <2>4. QED
    BY <2>1, <2>2, <2>3 DEF Whole, Past, Excused
<1>2. QED
  BY <1>1, Invariance, PTL

\* A run after one that ended well rewrites nothing if the latest versions are
\* still the same, wherever it is ended, but for what is cut short and for the
\* files that the other could not reach.
THEOREM LegacyIdempotent == Spec => Idempotent
<1> DEFINE Same == \A p \in Projects \ cut' :
             /\ <<format[p], version[p]>>' = <<format[p], version[p]>>
             /\ \A c \in Companions \ hidden[p] : file'[p][c] = file[p][c]
<1>1. RepeatInv /\ [Next]_vars =>
        ((phase = "updating" /\ before = <<script, upstream, "0">>) => Same)
  <2> SUFFICES ASSUME RepeatInv, [Next]_vars, phase = "updating",
                      before = <<script, upstream, "0">>, NEW p \in Projects \ cut'
               PROVE  Kept(p)
    BY DEF Kept
  <2>1. ~Rerun /\ Repeats
    BY DEF Rerun, Repeats
  <2>2. cut \subseteq cut'
    BY <2>1 DEF Next, Fetching, FetchJson, FetchJsonFails, FetchLatestVersions,
           VersionsMissing, FindPackageJsonFiles, Task, ReadPackage, WritePackage,
           ReadCompanion, CompanionHidden, WriteCompanion, TaskFails, NextBatch, Kill, EndsEarly, Terminated, vars, marks
  <2>3. QED
    BY <2>1, <2>2, StepRests DEF RepeatInv
<1>2. QED
  BY <1>1, RepeatInvariance, PTL DEF Spec, Idempotent
=============================================================================
