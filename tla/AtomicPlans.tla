----------------------------- MODULE AtomicPlans -----------------------------
(***************************************************************************)
(* What the dependency updater promises: a plan is applied in one step, to *)
(* the files as they were planned, or not at all, whatever happens to the  *)
(* other plans.  Nothing more is promised of a plan with a write cut short *)
(* or a roll-back that failed, of one whose files somebody else has edited *)
(* since its application began, and of one that was being applied when the *)
(* process was killed: it is spoiled until the updater is run again.       *)
(***************************************************************************)
EXTENDS Integers

CONSTANTS
  Projects,
  Kind,       \* "text" or "go", of each project
  Modes,      \* a subset of {"dry-run", "check", "write"}
  GoResolves  \* what `go get' can make of go.mod

Files == {1, 2}

VARIABLES
  mode,
  tree,       \* the text and the version of each file of each project
  edits,      \* number of edits made by others
  due,        \* the files that the plan of a project is to change
  before,     \* the files as the plan has read them
  result,     \* what is reported of the project
  spoiled     \* the projects whose plans are spoiled

vars == <<mode, tree, edits, due, before, result, spoiled>>

Init ==
  /\ mode \in Modes
  /\ edits = 0
  /\ due = [p \in Projects |-> {}]
  /\ before = tree
  /\ result = [p \in Projects |-> "none"]
  /\ spoiled = {}

\* The plans that are to be applied.
Applied == {p \in Projects : mode = "write" /\ due[p] # {}}

Spoils(S) == spoiled' = spoiled \cup S /\ S \subseteq Applied

\* The tree of p becomes c, and no other changes.
Leaves(p, c) == \A q \in Projects \ spoiled' : tree'[q] = IF q = p THEN c ELSE tree[q]

OutOfDate(p) ==
  IF Kind[p] = "go" THEN Files ELSE {f \in Files : tree[p][f].ver = "old"}

\* A plan is made of the files as they are, or there is nothing to be done.
Plan(p) ==
  /\ due[p] = {}
  /\ due' \in {[due EXCEPT ![p] = D] : D \in {{}, OutOfDate(p)}}
  /\ before' = [before EXCEPT ![p] = tree[p]]
  /\ UNCHANGED <<mode, tree, edits, result, spoiled>>

\* What an update makes of the files.
Updated(p) ==
  IF Kind[p] = "go"
    THEN {[tree[p] EXCEPT ![1].ver = r, ![2].ver = "new"] : r \in GoResolves}
    ELSE {[f \in Files |-> IF f \in due[p] THEN [tree[p][f] EXCEPT !.ver = "new"]
                                     ELSE tree[p][f]]}

\* A text plan is applied to what it has read.
Update(p) ==
  /\ p \in Applied
  /\ result[p] = "none"
  /\ Kind[p] = "text" => \A f \in due[p] : tree[p][f] = before[p][f]
  /\ result' = [result EXCEPT ![p] = "updated"]
  /\ \E c \in Updated(p) : Leaves(p, c)
  /\ UNCHANGED <<mode, edits, due, before, spoiled>>

\* Whatever else is reported, the files are as they were.
Answer(p, status) ==
  /\ result[p] = "none"
  /\ status \notin {"none", "updated"}
  /\ mode = "write" => status # "would-update"
  /\ result' = [result EXCEPT ![p] = status]
  /\ \E S \in SUBSET {p} : Spoils(S)
  /\ Leaves(p, tree[p])
  /\ UNCHANGED <<mode, edits, due, before>>

Spoil ==
  /\ \E S \in SUBSET Projects : Spoils(S)
  /\ \A q \in Projects \ spoiled' : tree'[q] = tree[q]
  /\ UNCHANGED <<mode, edits, due, before, result>>

\* Somebody else changes the files of p.
Edit(p) ==
  /\ edits' = edits + 1
  /\ \E S \in SUBSET {p} : Spoils(S)
  /\ \A q \in Projects \ (spoiled' \cup {p}) : tree'[q] = tree[q]
  /\ UNCHANGED <<mode, due, before, result>>

Restart ==
  /\ mode' \in Modes
  /\ due' = [p \in Projects |-> {}]
  /\ before' = tree
  /\ result' = [p \in Projects |-> "none"]
  /\ spoiled' = {}
  /\ UNCHANGED <<tree, edits>>

Statuses == {"error", "up-to-date", "would-update", "manual-migration-required"}

Next ==
  \/ \E p \in Projects : Plan(p) \/ Update(p) \/ Edit(p)
  \/ \E p \in Projects, status \in Statuses : Answer(p, status)
  \/ Spoil
  \/ Restart

Spec == Init /\ [][Next]_vars
=============================================================================
