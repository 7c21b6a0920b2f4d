----------------------------- MODULE StackGraphs -----------------------------
(***************************************************************************)
(* How the modules Stacks* write down what a CDK stack declares.           *)
(*                                                                         *)
(* A resource is a CloudFormation resource, or a few that the code creates *)
(* together and nothing else comes between (a function and its log group,  *)
(* the parts of a VPC).  Roles and policies that a construct creates on    *)
(* the side stand for themselves only where something waits for them.      *)
(***************************************************************************)
EXTENDS FiniteSets

\* The functions that module TLC has too, in a form one can reason about.
d :> e == [x \in {d} |-> e]

f @@ g == [x \in DOMAIN f \cup DOMAIN g |-> IF x \in DOMAIN f THEN f[x] ELSE g[x]]

\* Whoever uses what the stack has deployed.
User == "anyone"

Resources(s) == DOMAIN s.deps

Pairs(A, B) == SUBSET (A \X B)

\* The relations are sets of pairs <<a, b>>.
IsStack(s) ==
  LET R == Resources(s) IN
  /\ s.deps \in [R -> SUBSET R]             \* what a resource refers to
  /\ User \notin R
  /\ s.needs     \in Pairs(R, STRING)       \* a fails if b is not there
  /\ s.reads     \in Pairs(R, R)            \* a goes on without b, silently
  /\ s.kept      \subseteq R                \* stays when the stack lets go of it
  /\ s.fixed     \subseteq R                \* has a name that is in the code
  /\ s.protected \subseteq R                \* refuses to be deleted
  /\ s.holds     \in Pairs(R, R)            \* b cannot go while a is left
  /\ s.sealed    \in Pairs(R, R)            \* a cannot be read without b
  /\ s.seeds     \in Pairs(R, R)            \* creating a writes into b, and
  /\ s.fills     \in Pairs(R \cup {User}, R) \* a in use does; b must be empty
  /\ s.cleared   \in Pairs(R, R)            \* to be deleted; deleting a empties b
  /\ s.destroys  \in {"unsaid", "stack", "all"}  \* what the docs say of `cdk destroy'

\* A stack that declares the references deps and nothing else.
Stack(deps) ==
  [deps |-> deps, needs |-> {}, reads |-> {}, kept |-> {}, fixed |-> {},
   protected |-> {}, holds |-> {}, sealed |-> {}, seeds |-> {}, fills |-> {},
   cleared |-> {}, destroys |-> "unsaid"]

\* A stack that declares more.
With(more, stack) == more @@ stack

\* Resources with the same references.
Each(resources, refs) == [r \in resources |-> refs]

\* A NESTED stack that depends on another: all its resources do.
After(deps, first) == [r \in DOMAIN deps |-> deps[r] \cup DOMAIN first] @@ first

\* Mutant: removalPolicy DESTROY without autoDeleteObjects.
AutoDelete_None(cleaner, b) == [cleared |-> {}, fills |-> {<<User, b>>}]

\* The custom resource of autoDeleteObjects that goes with b.
AutoDelete(cleaner, b) == [cleared |-> {<<cleaner, b>>}, fills |-> {<<User, b>>}]
=============================================================================
