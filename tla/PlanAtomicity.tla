---------------------------- MODULE PlanAtomicity ----------------------------
(***************************************************************************)
(* The updater keeps the promise of AtomicPlans: seen from outside, the    *)
(* files of the plan that is being applied are as they were when its       *)
(* application began, until its result is reported.                        *)
(***************************************************************************)
EXTENDS PlanRunner

\* The plan that is being applied, or whose application was cut off.
InHand(p) == cur = p /\ step # "next"

treeSeen ==
  [p \in Projects |-> IF phase = "executing" /\ InHand(p) THEN saved[p] ELSE file[p]]

dueSeen ==
  [p \in Projects |-> IF plan[p].status # "would-update" THEN {}
                      ELSE IF Kind[p] = "go" THEN Files ELSE Updates(p)]

beforeSeen == [p \in Projects |-> plan[p].before]

spoiledSeen ==
  {p \in Projects :
     \/ p \in damaged
     \/ Applies(p) /\ \E f \in Files : <<p, f>> \in late
     \/ phase = "killed" /\ InHand(p)}

Plans == INSTANCE AtomicPlans
  WITH tree <- treeSeen, due <- dueSeen, before <- beforeSeen, spoiled <- spoiledSeen

\* A plan is applied as a whole or not at all, to what the scan has read,
\* and never after its result: applyTextUpdates and updateGoModule implement
\* a change made in one step, through every failure, roll-back, kill, edit by
\* somebody else and later run.
Atomic == Plans!Spec
=============================================================================
