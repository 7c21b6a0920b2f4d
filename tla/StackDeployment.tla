--------------------------- MODULE StackDeployment ---------------------------
(***************************************************************************)
(* What becomes of a CDK stack of the examples when it is deployed,        *)
(* deployed again and destroyed.                                           *)
(*                                                                         *)
(* A stack is code that declares resources, references between them,       *)
(* removal policies and physical names; the modules Stacks* translate it.  *)
(* CloudFormation, which is not part of the repository, does the rest: it  *)
(* creates a resource, in any order, once what it refers to exists, rolls  *)
(* back when a creation fails, deletes in the opposite order, and stops    *)
(* where a deletion fails.  What the code left undeclared decides whether  *)
(* every one of these orders works.                                        *)
(***************************************************************************)
EXTENDS StackGraphs, Integers

CONSTANTS
  Stacks,     \* the stacks, see IsStack
  Disordered, \* those known to leave an order open that matters
  Unclean,    \* those known to stay where their docs say that they go
  MaxDeploys  \* bound on the number of times one is deployed

ASSUME StacksAssumption ==
  /\ \A s \in Stacks : IsStack(s)
  /\ Disordered \cup Unclean \subseteq Stacks
  /\ MaxDeploys \in Nat

VARIABLES
  stack,    \* the stack this is about
  phase,    \* of the stack
  deploys,  \* number of deployments so far
  live,     \* the resources the stack has
  left,     \* resources that outlived it
  full,     \* the resources with content in them
  guarded,  \* the resources that refuse to be deleted
  blocked,  \* those whose deletion has failed
  missed,   \* what a resource looked for too early
  why       \* what ended the last deployment

vars == <<stack, phase, deploys, live, left, full, guarded, blocked, missed, why>>

Busy    == {"creating", "rollback", "deleting"}
Settled == {"none", "live", "stuck"}

TypeOK ==
  /\ stack \in Stacks
  /\ phase \in Busy \cup Settled
  /\ deploys \in 0 .. MaxDeploys
  /\ live \subseteq Resources(stack)
  /\ left \subseteq stack.kept
  /\ full \subseteq live
  /\ guarded \subseteq stack.protected
  /\ blocked \subseteq live
  /\ missed \subseteq Resources(stack)
  /\ why \in {"", "fault", "need", "taken"}

Init ==
  /\ stack \in Stacks
  /\ phase = "none"
  /\ deploys = 0
  /\ live = {}
  /\ left = {}
  /\ full = {}
  /\ guarded = stack.protected
  /\ blocked = {}
  /\ missed = {}
  /\ why = ""

-----------------------------------------------------------------------------
(* Deploying.                                                              *)

Deploy ==
  /\ phase = "none"
  /\ deploys < MaxDeploys
  /\ deploys' = deploys + 1
  /\ phase' = "creating"
  /\ guarded' = stack.protected
  /\ missed' = {}
  /\ why' = ""
  /\ UNCHANGED <<stack, live, left, full, blocked>>

Ready(r) == r \notin live /\ stack.deps[r] \subseteq live

Unmet(r) == {p \in stack.needs : p[1] = r /\ p[2] \notin live}

\* Its creation cannot work, for want of another or because its name is
\* taken by what an earlier deployment left.
Barred(r) == Unmet(r) # {} \/ r \in stack.fixed \cap left

Create(r) ==
  /\ phase = "creating"
  /\ Ready(r)
  /\ ~Barred(r)
  /\ live' = live \cup {r}
  /\ full' = full \cup {b \in live' : <<r, b>> \in stack.seeds}
  /\ missed' = missed \cup {b \in Resources(stack) \ live : <<r, b>> \in stack.reads}
  /\ UNCHANGED <<stack, phase, deploys, left, guarded, blocked, why>>

\* It fails for these reasons or for one of its own: a quota, a permission.
CreateFails(r) ==
  /\ phase = "creating"
  /\ Ready(r)
  /\ why' = IF Unmet(r) # {} THEN "need"
            ELSE IF Barred(r) THEN "taken" ELSE "fault"
  /\ phase' = "rollback"
  /\ UNCHANGED <<stack, deploys, live, left, full, guarded, blocked, missed>>

Complete ==
  /\ phase = "creating"
  /\ live = Resources(stack)
  /\ phase' = "live"
  /\ UNCHANGED <<stack, deploys, live, left, full, guarded, blocked, missed, why>>

-----------------------------------------------------------------------------
(* In use.                                                                 *)

\* What empties a bucket makes it refuse what is still written, so that what
\* the resources write after the deletion has begun is of no consequence.
Writes(w) ==
  \/ w \in live /\ phase \in {"creating", "live"}
  \/ w = User /\ phase = "live"

Fill(w, b) ==
  /\ <<w, b>> \in stack.fills
  /\ Writes(w)
  /\ b \in live \ full
  /\ full' = full \cup {b}
  /\ UNCHANGED <<stack, phase, deploys, live, left, guarded, blocked, missed, why>>

-----------------------------------------------------------------------------
(* Destroying, and rolling back.                                           *)

Destroy ==
  /\ phase = "live"
  /\ phase' = "deleting"
  /\ UNCHANGED <<stack, deploys, live, left, full, guarded, blocked, missed, why>>

Deletable(r) ==
  /\ phase \in {"rollback", "deleting"}
  /\ r \in live \ blocked
  /\ \A x \in live : r \notin stack.deps[x]

Refuses(r) == r \in full \cup guarded \/ \E a \in left : <<a, r>> \in stack.holds

Cleared(r) == {b \in live : <<r, b>> \in stack.cleared}

\* Mutant: every resource outlives the stack, whatever its removal policy.
Delete_AllLeft(r) ==
  /\ Deletable(r)
  /\ r \in stack.kept \/ ~Refuses(r)
  /\ live' = live \ {r}
  /\ left' = left \cup {r}
  /\ full' = full \ ({r} \cup Cleared(r))
  /\ UNCHANGED <<stack, phase, deploys, guarded, blocked, missed, why>>

\* The stack lets go of a kept resource.
Delete(r) ==
  /\ Deletable(r)
  /\ r \in stack.kept \/ ~Refuses(r)
  /\ live' = live \ {r}
  /\ left' = left \cup ({r} \cap stack.kept)
  /\ full' = full \ ({r} \cup Cleared(r))
  /\ UNCHANGED <<stack, phase, deploys, guarded, blocked, missed, why>>

DeleteFails(r) ==
  /\ Deletable(r)
  /\ r \notin stack.kept
  /\ Refuses(r)
  /\ blocked' = blocked \cup {r}
  /\ UNCHANGED <<stack, phase, deploys, live, left, full, guarded, missed, why>>

DeleteEnds ==
  /\ phase \in {"rollback", "deleting"}
  /\ \A r \in live : ~Deletable(r)
  /\ phase' = IF live = {} THEN "none" ELSE "stuck"
  /\ UNCHANGED <<stack, deploys, live, left, full, guarded, blocked, missed, why>>

\* Somebody empties and unprotects what is in the way and deletes again.
Retry ==
  /\ phase = "stuck"
  /\ phase' = "deleting"
  /\ full' = {}
  /\ guarded' = {}
  /\ blocked' = {}
  /\ UNCHANGED <<stack, deploys, live, left, missed, why>>

CloudFormation ==
  \/ \E r \in Resources(stack) : Create(r) \/ Delete(r) \/ DeleteFails(r)
  \/ Complete
  \/ DeleteEnds

Next ==
  \/ CloudFormation
  \/ \E r \in Resources(stack) : CreateFails(r)
  \/ \E w \in Resources(stack) \cup {User}, b \in Resources(stack) : Fill(w, b)
  \/ Deploy
  \/ Destroy
  \/ Retry

Spec == Init /\ [][Next]_vars

\* CloudFormation goes on by itself; nobody has to deploy, destroy or retry.
FairSpec ==
  /\ Spec
  /\ WF_vars(CloudFormation)
  /\ WF_vars(\E r \in Resources(stack) : Barred(r) /\ CreateFails(r))

-----------------------------------------------------------------------------
(* Properties.                                                             *)

\* Whatever order CloudFormation takes, no resource is created before the
\* others that its creation needs without referring to them: the references
\* and the dependencies that the code adds order them.
NeverRefused == why = "need" => stack \in Disordered

\* No resource comes up before what it reads once, as it comes up.
NothingMissed == missed # {} => stack \in Disordered

\* Where the docs say that a stack is destroyed with `cdk destroy', nothing
\* refuses to go, whatever the stack was used for, and nothing that stays is
\* in the way of the next deployment; where they say that nothing stays,
\* nothing does.  Of a deployment that is rolled back they say nothing.
CleanDestroy ==
  (stack.destroys # "unsaid" /\ stack \notin Unclean) =>
    /\ ~(phase = "stuck" /\ why = "")
    /\ why # "taken"
    /\ stack.destroys = "all" => left = {}

\* What outlives the stack to keep its data can still be read: the key that
\* encrypts it outlives the stack too, also when a deployment is rolled back.
KeptReadable ==
  \A p \in stack.sealed : p[1] \in left => p[2] \in live \cup left

\* A deployment, a rollback and a deletion come to an end: no resources wait
\* for each other.
Settles == phase \in Busy ~> phase \in Settled

-----------------------------------------------------------------------------
(* What the references of a stack say of these orders.                     *)

Referred(s, A) == A \cup UNION {s.deps[a] : a \in A}

\* What is sure to exist while r is created: the resources that references
\* lead to from r, which are followed four deep here.
Before(s, r) == Referred(s, Referred(s, Referred(s, s.deps[r])))

\* Nothing is needed or read that the references do not put first.
Ordered(s) == \A p \in s.needs \cup s.reads : p[2] \in Before(s, p[1])

\* The key comes first and is kept wherever what it encrypts is.
KeyKept(s) == \A p \in s.sealed : p[1] \in s.kept => p[2] \in Before(s, p[1]) \cap s.kept

\* What empties b is deleted before b is.
Emptied(s, b) == \E c \in Resources(s) : <<c, b>> \in s.cleared /\ b \in s.deps[c]

\* A stack whose destruction the docs speak of deletes nothing that is protected,
\* held by what is kept, or written to and not emptied, and keeps nothing under a
\* name that the next deployment takes.
Clean(s) ==
  s.destroys # "unsaid" =>
    /\ s.protected \subseteq s.kept
    /\ \A p \in s.holds : p[1] \in s.kept => p[2] \in s.kept
    /\ \A p \in s.seeds \cup s.fills : p[2] \in s.kept \/ Emptied(s, p[2])
    /\ s.fixed \cap s.kept = {}
    /\ s.destroys = "all" => s.kept = {}
=============================================================================
