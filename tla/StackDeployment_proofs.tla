----------------------- MODULE StackDeployment_proofs -----------------------
(***************************************************************************)
(* Proofs about the deployment of any stacks, of any size, any number of   *)
(* times, under three conditions on the code of a stack, Ordered, KeyKept  *)
(* and Clean; and that the stacks of the examples meet them.               *)
(***************************************************************************)
EXTENDS MCStackDeployment, TLAPS

\* Nothing exists without what it refers to.
Closed == \A r \in live : stack.deps[r] \subseteq live

Inv ==
  /\ TypeOK
  /\ Closed
  /\ Ordered(stack) => why # "need" /\ missed = {}
  /\ KeyKept(stack) => KeptReadable

\* What exists was created one after the other, so that something always comes
\* last: what there is never waits for itself.
Founded ==
  \A A \in SUBSET live : A # {} => \E r \in A : \A x \in A : r \notin stack.deps[x]

\* What the phase says of the resources.
Phased ==
  /\ phase = "none" => live = {}
  /\ phase = "live" => live = Resources(stack)
  /\ phase \in {"creating", "live"} => why = ""
  /\ phase = "rollback" => why # ""
  /\ phase \notin {"rollback", "deleting", "stuck"} => blocked = {}
  /\ phase = "stuck" => blocked # {}

\* There is content that the code knows of only, and none in what something that
\* is gone has emptied.
Contents ==
  /\ \A b \in full : \E p \in stack.seeds \cup stack.fills : p[2] = b
  /\ phase = "deleting" => \A p \in stack.cleared : p[1] \notin live => p[2] \notin full

\* Nothing has been in the way of a clean stack.
Unhindered ==
  stack.destroys # "unsaid" => (why = "" => blocked = {}) /\ why # "taken"

DestroyInv ==
  /\ Inv
  /\ Founded
  /\ Phased
  /\ Contents
  /\ Clean(stack) => Unhindered

-----------------------------------------------------------------------------

\* What a resource refers to exists, and so does what that refers to.
LEMMA ReferredLive ==
  ASSUME Closed, NEW A \in SUBSET live
  PROVE  Referred(stack, A) \in SUBSET live
BY DEF Closed, Referred

LEMMA BeforeLive ==
  ASSUME Closed, NEW r, stack.deps[r] \subseteq live
  PROVE  Before(stack, r) \subseteq live
<1>1. stack.deps[r] \in SUBSET live
  OBVIOUS
<1>2. Referred(stack, stack.deps[r]) \in SUBSET live
  BY <1>1, ReferredLive
<1>3. Referred(stack, Referred(stack, stack.deps[r])) \in SUBSET live
  BY <1>2, ReferredLive
<1>4. Referred(stack, Referred(stack, Referred(stack, stack.deps[r]))) \in SUBSET live
  BY <1>3, ReferredLive
<1>5. QED
  BY <1>4 DEF Before

LEMMA InitInv == ASSUME Init PROVE Inv
<1>1. MaxDeploys \in Nat
  BY StacksAssumption
<1>2. 0 \in 0 .. MaxDeploys
  BY <1>1
<1>3. TypeOK
  BY <1>2 DEF Init, TypeOK, Settled
<1>4. QED
  BY <1>3 DEF Init, Inv, Closed, KeptReadable

\* A step in which the stack neither gains nor loses a resource.
LEMMA SameResources ==
  ASSUME Inv, UNCHANGED <<stack, live, left>>, missed' \in {missed, {}},
         why' \in {why, "", "fault", "taken"}, TypeOK'
  PROVE  Inv'
<1>1. Closed'
  BY DEF Inv, Closed
<1>2. Ordered(stack)' => (why # "need" /\ missed = {})'
  BY DEF Inv, Ordered
<1>3. KeyKept(stack)' => KeptReadable'
  BY DEF Inv, KeyKept, KeptReadable
<1>4. QED
  BY <1>1, <1>2, <1>3 DEF Inv

LEMMA CreateInv ==
  ASSUME Inv, NEW r \in Resources(stack), Create(r)
  PROVE  Inv'
<1> USE DEF Inv
<1>1. /\ stack.deps[r] \subseteq live /\ live' = live \cup {r}
      /\ full' = full \cup {b \in live' : <<r, b>> \in stack.seeds}
      /\ missed' = missed \cup {b \in Resources(stack) \ live : <<r, b>> \in stack.reads}
      /\ UNCHANGED <<stack, phase, deploys, left, guarded, blocked, why>>
  BY DEF Create, Ready
<1>2. TypeOK'
  BY <1>1 DEF TypeOK
<1>3. Closed'
  BY <1>1 DEF Closed
<1>4. ASSUME Ordered(stack) PROVE missed' = {}
  <2>1. Before(stack, r) \subseteq live
    BY <1>1, BeforeLive
  <2>2. \A b : <<r, b>> \in stack.reads => b \in live
    <3> SUFFICES ASSUME NEW b, <<r, b>> \in stack.reads PROVE b \in live
      OBVIOUS
    <3>1. <<r, b>>[2] \in Before(stack, <<r, b>>[1])
      BY <1>4 DEF Ordered
    <3>2. QED
      BY <2>1, <3>1
  <2>3. missed = {}
    BY <1>4
  <2>4. QED
    BY <1>1, <2>2, <2>3
<1>5. Ordered(stack)' => (why # "need" /\ missed = {})'
  BY <1>1, <1>4 DEF Ordered
<1>6. KeyKept(stack)' => KeptReadable'
  BY <1>1 DEF KeyKept, KeptReadable
<1>7. QED
  BY <1>2, <1>3, <1>5, <1>6

LEMMA CreateFailsInv ==
  ASSUME Inv, NEW r \in Resources(stack), CreateFails(r)
  PROVE  Inv'
<1> USE DEF Inv
<1>1. /\ stack.deps[r] \subseteq live
      /\ why' \in {"need", "taken", "fault"} /\ (why' = "need" => Unmet(r) # {})
      /\ phase' = "rollback"
      /\ UNCHANGED <<stack, deploys, live, left, full, guarded, blocked, missed>>
  BY DEF CreateFails, Ready
<1>2. TypeOK'
  BY <1>1 DEF TypeOK, Busy
<1>3. ASSUME Ordered(stack) PROVE Unmet(r) = {}
  <2>1. Before(stack, r) \subseteq live
    BY <1>1, BeforeLive
  <2>2. \A p \in stack.needs : p[1] = r => p[2] \in live
    BY <1>3, <2>1 DEF Ordered
  <2>3. QED
    BY <2>2 DEF Unmet
<1>4. Closed'
  BY <1>1 DEF Closed
<1>5. Ordered(stack)' => (why # "need" /\ missed = {})'
  BY <1>1, <1>3 DEF Ordered
<1>6. KeyKept(stack)' => KeptReadable'
  BY <1>1 DEF KeyKept, KeptReadable
<1>7. QED
  BY <1>2, <1>4, <1>5, <1>6

LEMMA DeleteInv ==
  ASSUME Inv, NEW r \in Resources(stack), Delete(r)
  PROVE  Inv'
<1> USE DEF Inv
<1>1. /\ r \in live \ blocked /\ \A x \in live : r \notin stack.deps[x]
      /\ live' = live \ {r} /\ left' = left \cup ({r} \cap stack.kept)
      /\ full' = full \ ({r} \cup Cleared(r))
      /\ UNCHANGED <<stack, phase, deploys, guarded, blocked, missed, why>>
  BY DEF Delete, Deletable
<1>2. TypeOK'
  BY <1>1 DEF TypeOK
<1>3. Closed'
  BY <1>1 DEF Closed
<1>4. Ordered(stack)' => (why # "need" /\ missed = {})'
  BY <1>1 DEF Ordered
<1>5. ASSUME KeyKept(stack), NEW p \in stack.sealed, p[1] \in left'
      PROVE  p[2] \in live' \cup left'
  <2>1. p[1] \in stack.kept
    BY <1>1, <1>5 DEF TypeOK
  <2>2. p[2] \in Before(stack, p[1]) /\ p[2] \in stack.kept
    BY <1>5, <2>1 DEF KeyKept
  <2>3. CASE p[1] \in left
    <3>1. p[2] \in live \cup left
      BY <1>5, <2>3 DEF KeptReadable
    <3>2. QED
      BY <1>1, <2>2, <3>1
  <2>4. CASE p[1] = r
    <3>1. p[2] \in live
      BY <1>1, <2>2, <2>4, BeforeLive DEF Closed
    <3>2. QED
      BY <1>1, <2>2, <3>1
  <2>5. QED
    BY <1>1, <1>5, <2>3, <2>4
<1>6. KeyKept(stack)' => KeptReadable'
  BY <1>1, <1>5 DEF KeyKept, KeptReadable
<1>7. QED
  BY <1>2, <1>3, <1>4, <1>6

LEMMA NextInv == ASSUME Inv, [Next]_vars PROVE Inv'
<1> USE DEF Inv
<1>1. ASSUME NEW r \in Resources(stack), Create(r) \/ Delete(r) \/ CreateFails(r) PROVE Inv'
  BY <1>1, CreateInv, DeleteInv, CreateFailsInv
<1>2. ASSUME NEW r \in Resources(stack), DeleteFails(r) PROVE Inv'
  <2>1. TypeOK'
    BY <1>2 DEF DeleteFails, Deletable, TypeOK
  <2>2. QED
    BY <1>2, <2>1, SameResources DEF DeleteFails
<1>3. CASE Complete \/ DeleteEnds \/ Destroy
  <2>1. TypeOK'
    BY <1>3 DEF Complete, DeleteEnds, Destroy, TypeOK, Busy, Settled
  <2>2. QED
    BY <1>3, <2>1, SameResources DEF Complete, DeleteEnds, Destroy
<1>4. ASSUME NEW w, NEW b, Fill(w, b) PROVE Inv'
  <2>1. TypeOK'
    BY <1>4 DEF Fill, TypeOK
  <2>2. QED
    BY <1>4, <2>1, SameResources DEF Fill
<1>5. CASE Deploy
  <2>1. deploys' \in 0 .. MaxDeploys
    <3>1. deploys \in 0 .. MaxDeploys /\ MaxDeploys \in Nat /\ deploys < MaxDeploys /\ deploys' = deploys + 1
      BY <1>5, StacksAssumption DEF Deploy, TypeOK
    <3>2. QED
      BY <3>1
  <2>2. TypeOK'
    BY <1>5, <2>1 DEF Deploy, TypeOK, Busy
  <2>3. QED
    BY <1>5, <2>2, SameResources DEF Deploy
<1>6. CASE Retry
  <2>1. TypeOK'
    BY <1>6 DEF Retry, TypeOK, Busy
  <2>2. QED
    BY <1>6, <2>1, SameResources DEF Retry
<1>7. CASE UNCHANGED vars
  <2>1. TypeOK'
    BY <1>7 DEF vars, TypeOK
  <2>2. QED
    BY <1>7, <2>1, SameResources DEF vars
<1>8. QED
  BY <1>1, <1>2, <1>3, <1>4, <1>5, <1>6, <1>7 DEF Next, CloudFormation

LEMMA Invariance == Spec => []Inv
<1>1. Init => Inv
  BY InitInv
<1>2. Inv /\ [Next]_vars => Inv'
  BY NextInv
<1>3. QED
  BY <1>1, <1>2, PTL DEF Spec

-----------------------------------------------------------------------------
(* What a destruction needs.                                               *)

\* Who empties what.
LEMMA ClearedPairs ==
  ASSUME TypeOK, NEW p \in stack.cleared
  PROVE  p[1] \in Resources(stack) /\ p = <<p[1], p[2]>>
<1>1. IsStack(stack)
  BY StacksAssumption DEF TypeOK
<1>2. stack.cleared \in SUBSET (Resources(stack) \X Resources(stack))
  BY <1>1, Zenon DEF IsStack, Pairs
<1>3. QED
  BY <1>2

\* Nothing exists yet.
LEMMA InitDestroyInv == ASSUME Init PROVE DestroyInv
<1>1. Inv
  BY InitInv
<1>2. Founded /\ Phased /\ Contents
  BY DEF Init, Founded, Phased, Contents
<1>3. Unhindered
  BY DEF Init, Unhindered
<1>4. QED
  BY <1>1, <1>2, <1>3 DEF DestroyInv

\* What is created comes last: nothing that exists refers to it, nor it to
\* itself.
LEMMA CreateDestroyInv ==
  ASSUME DestroyInv, NEW r \in Resources(stack), Create(r)
  PROVE  DestroyInv'
<1> USE DEF DestroyInv
<1>1. /\ phase = "creating" /\ r \notin live /\ stack.deps[r] \subseteq live
      /\ live' = live \cup {r}
      /\ full' = full \cup {b \in live' : <<r, b>> \in stack.seeds}
      /\ UNCHANGED <<stack, phase, deploys, left, guarded, blocked, why>>
  BY DEF Create, Ready
<1>2. Inv'
  BY CreateInv
<1>3. Founded'
  <2> SUFFICES ASSUME NEW A \in SUBSET live', A # {}
               PROVE  \E x \in A : \A y \in A : x \notin stack.deps[y]
    BY <1>1 DEF Founded
  <2>1. CASE r \in A
    <3>1. \A y \in A : r \notin stack.deps[y]
      BY <1>1 DEF Inv, Closed
    <3>2. QED
      BY <2>1, <3>1
  <2>2. CASE r \notin A
    <3>1. A \in SUBSET live
      BY <1>1, <2>2
    <3>2. QED
      BY <3>1 DEF Founded
  <2>3. QED
    BY <2>1, <2>2
<1>4. Phased'
  BY <1>1 DEF Phased
<1>5. Contents'
  <2> SUFFICES ASSUME NEW b \in full' PROVE \E p \in stack.seeds \cup stack.fills : p[2] = b
    BY <1>1 DEF Contents
  <2>1. CASE b \in full
    BY <2>1 DEF Contents
  <2>2. CASE <<r, b>> \in stack.seeds
    BY <2>2
  <2>3. QED
    BY <1>1, <2>1, <2>2
<1>6. Clean(stack)' => Unhindered'
  BY <1>1 DEF Clean, Emptied, Unhindered
<1>7. QED
  BY <1>2, <1>3, <1>4, <1>5, <1>6

\* No name of a clean stack is taken.
LEMMA CreateFailsDestroyInv ==
  ASSUME DestroyInv, NEW r \in Resources(stack), CreateFails(r)
  PROVE  DestroyInv'
<1> USE DEF DestroyInv
<1>1. /\ phase = "creating" /\ phase' = "rollback"
      /\ why' \in {"need", "taken", "fault"}
      /\ why' = "taken" => Unmet(r) = {} /\ Barred(r)
      /\ UNCHANGED <<stack, deploys, live, left, full, guarded, blocked, missed>>
  BY DEF CreateFails
<1>2. Inv'
  BY CreateFailsInv
<1>3. Founded' /\ Phased' /\ Contents'
  BY <1>1 DEF Founded, Phased, Contents
<1>4. ASSUME Clean(stack), stack.destroys # "unsaid" PROVE why' # "taken"
  <2>1. stack.fixed \cap left = {}
    BY <1>4 DEF Clean, Inv, TypeOK
  <2>2. QED
    BY <1>1, <2>1 DEF Barred
<1>5. Clean(stack)' => Unhindered'
  BY <1>1, <1>4 DEF Clean, Emptied, Unhindered
<1>6. QED
  BY <1>2, <1>3, <1>5

\* What is deleted leaves nothing in what it empties.
LEMMA DeleteDestroyInv ==
  ASSUME DestroyInv, NEW r \in Resources(stack), Delete(r)
  PROVE  DestroyInv'
<1> USE DEF DestroyInv
<1>1. /\ phase \in {"rollback", "deleting"}
      /\ live' = live \ {r} /\ full' = full \ ({r} \cup Cleared(r))
      /\ UNCHANGED <<stack, phase, deploys, guarded, blocked, missed, why>>
  BY DEF Delete, Deletable
<1>2. Inv'
  BY DeleteInv
<1>3. Founded'
  BY <1>1 DEF Founded
<1>4. Phased'
  BY <1>1 DEF Phased
<1>5. Contents'
  <2>1. \A b \in full' : \E p \in stack.seeds \cup stack.fills : p[2] = b
    BY <1>1 DEF Contents
  <2>2. ASSUME phase = "deleting", NEW p \in stack.cleared, p[1] \notin live', p[2] \in full'
        PROVE  FALSE
    <3>1. p[2] \in full /\ p[2] \in live /\ p[2] \notin Cleared(r)
      BY <1>1, <2>2 DEF Inv, TypeOK
    <3>2. CASE p[1] = r
      <4>1. p = <<r, p[2]>>
        BY <3>2, ClearedPairs DEF Inv
      <4>2. QED
        BY <2>2, <3>1, <4>1 DEF Cleared
    <3>3. CASE p[1] # r
      BY <1>1, <2>2, <3>1, <3>3 DEF Contents
    <3>4. QED
      BY <3>2, <3>3
  <2>3. QED
    BY <1>1, <2>1, <2>2 DEF Contents
<1>6. Clean(stack)' => Unhindered'
  BY <1>1 DEF Clean, Emptied, Unhindered
<1>7. QED
  BY <1>2, <1>3, <1>4, <1>5, <1>6

\* Nothing of a clean stack refuses to go: what has empties it is gone before.
LEMMA DeleteFailsDestroyInv ==
  ASSUME DestroyInv, NEW r \in Resources(stack), DeleteFails(r)
  PROVE  DestroyInv'
<1> USE DEF DestroyInv
<1>1. /\ phase \in {"rollback", "deleting"}
      /\ r \in live \ blocked /\ \A x \in live : r \notin stack.deps[x]
      /\ r \notin stack.kept /\ Refuses(r)
      /\ blocked' = blocked \cup {r}
      /\ UNCHANGED <<stack, phase, deploys, live, left, full, guarded, missed, why>>
  BY DEF DeleteFails, Deletable
<1>2. Inv'
  BY NextInv DEF Next, CloudFormation
<1>3. Founded' /\ Phased' /\ Contents'
  BY <1>1 DEF Founded, Phased, Contents
<1>4. ASSUME Clean(stack), stack.destroys # "unsaid", why = "" PROVE FALSE
  <2>1. phase = "deleting"
    BY <1>1, <1>4 DEF Phased
  <2>2. CASE r \in full
    <3>1. PICK p \in stack.seeds \cup stack.fills : p[2] = r
      BY <2>2 DEF Contents
    <3>2. PICK c \in Resources(stack) : <<c, r>> \in stack.cleared /\ r \in stack.deps[c]
      BY <1>1, <1>4, <3>1 DEF Clean, Emptied
    <3>3. c \notin live
      BY <1>1, <3>2
    <3>4. QED
      BY <2>1, <2>2, <3>2, <3>3 DEF Contents
  <2>3. CASE r \in guarded
    BY <1>1, <1>4, <2>3 DEF Clean, Inv, TypeOK
  <2>4. ASSUME NEW a \in left, <<a, r>> \in stack.holds PROVE FALSE
    BY <1>1, <1>4, <2>4 DEF Clean, Inv, TypeOK
  <2>5. QED
    BY <1>1, <2>2, <2>3, <2>4 DEF Refuses
<1>5. Clean(stack)' => Unhindered'
  BY <1>1, <1>4 DEF Clean, Emptied, Unhindered
<1>6. QED
  BY <1>2, <1>3, <1>5

\* A deletion that stops short has been refused: there is no other reason.
LEMMA DeleteEndsDestroyInv ==
  ASSUME DestroyInv, DeleteEnds
  PROVE  DestroyInv'
<1> USE DEF DestroyInv
<1>1. /\ phase \in {"rollback", "deleting"}
      /\ \A r \in live : ~Deletable(r)
      /\ phase' = IF live = {} THEN "none" ELSE "stuck"
      /\ UNCHANGED <<stack, deploys, live, left, full, guarded, blocked, missed, why>>
  BY DEF DeleteEnds
<1>2. Inv'
  BY NextInv DEF Next, CloudFormation
<1>3. live # {} => blocked # {}
  <2> SUFFICES ASSUME live # {} PROVE blocked # {}
    OBVIOUS
  <2>1. PICK r \in live : \A x \in live : r \notin stack.deps[x]
    BY DEF Founded
  <2>2. QED
    BY <1>1, <2>1 DEF Deletable
<1>4. live = {} => blocked = {}
  BY DEF Inv, TypeOK
<1>5. Phased'
  BY <1>1, <1>3, <1>4 DEF Phased
<1>6. Founded' /\ Contents' /\ (Clean(stack)' => Unhindered')
  BY <1>1 DEF Founded, Contents, Clean, Emptied, Unhindered
<1>7. QED
  BY <1>2, <1>5, <1>6

\* The other steps create and delete nothing.
LEMMA NextDestroyInv == ASSUME DestroyInv, [Next]_vars PROVE DestroyInv'
<1> USE DEF DestroyInv
<1>1. Inv'
  BY NextInv
<1>2. ASSUME NEW r \in Resources(stack),
             Create(r) \/ CreateFails(r) \/ Delete(r) \/ DeleteFails(r)
      PROVE  DestroyInv'
  BY <1>2, CreateDestroyInv, CreateFailsDestroyInv, DeleteDestroyInv, DeleteFailsDestroyInv
<1>3. CASE DeleteEnds
  BY <1>3, DeleteEndsDestroyInv
<1>4. CASE Complete
  <2>1. /\ phase = "creating" /\ live = Resources(stack) /\ phase' = "live"
        /\ UNCHANGED <<stack, deploys, live, left, full, guarded, blocked, missed, why>>
    BY <1>4 DEF Complete
  <2>2. QED
    BY <1>1, <2>1 DEF Founded, Phased, Contents, Clean, Emptied, Unhindered
<1>5. ASSUME NEW w, NEW b, Fill(w, b) PROVE DestroyInv'
  <2>1. /\ <<w, b>> \in stack.fills /\ phase \in {"creating", "live"} /\ full' = full \cup {b}
        /\ UNCHANGED <<stack, phase, deploys, live, left, guarded, blocked, missed, why>>
    BY <1>5 DEF Fill, Writes
  <2>2. Contents'
    <3>1. <<w, b>>[2] = b
      OBVIOUS
    <3>2. QED
      BY <2>1, <3>1 DEF Contents
  <2>3. QED
    BY <1>1, <2>1, <2>2 DEF Founded, Phased, Clean, Emptied, Unhindered
<1>6. CASE Deploy
  <2>1. /\ phase = "none" /\ phase' = "creating" /\ why' = ""
        /\ UNCHANGED <<stack, live, left, full, blocked>>
    BY <1>6 DEF Deploy
  <2>2. QED
    BY <1>1, <2>1 DEF Founded, Phased, Contents, Clean, Emptied, Unhindered
<1>7. CASE Destroy
  <2>1. /\ phase = "live" /\ phase' = "deleting"
        /\ UNCHANGED <<stack, deploys, live, left, full, guarded, blocked, missed, why>>
    BY <1>7 DEF Destroy
  <2>2. \A p \in stack.cleared : p[1] \in live
    BY <2>1, ClearedPairs DEF Phased, Inv
  <2>3. QED
    BY <1>1, <2>1, <2>2 DEF Founded, Phased, Contents, Clean, Emptied, Unhindered
<1>8. CASE Retry
  <2>1. /\ phase = "stuck" /\ phase' = "deleting" /\ full' = {} /\ blocked' = {}
        /\ UNCHANGED <<stack, deploys, live, left, missed, why>>
    BY <1>8 DEF Retry
  <2>2. QED
    BY <1>1, <2>1 DEF Founded, Phased, Contents, Clean, Emptied, Unhindered
<1>9. CASE UNCHANGED vars
  BY <1>1, <1>9 DEF vars, Founded, Phased, Contents, Clean, Emptied, Unhindered
<1>10. QED
  BY <1>2, <1>3, <1>4, <1>5, <1>6, <1>7, <1>8, <1>9 DEF Next, CloudFormation

\* The invariant of a destruction.
LEMMA DestroyInvariance == Spec => []DestroyInv
<1>1. Init => DestroyInv
  BY InitDestroyInv
<1>2. DestroyInv /\ [Next]_vars => DestroyInv'
  BY NextDestroyInv
<1>3. QED
  BY <1>1, <1>2, PTL DEF Spec

-----------------------------------------------------------------------------
(* The theorems.                                                           *)

\* A stack has declared resources only, whatever fails, and what outlives it
\* is what its code says is kept.
THEOREM StacksTypeOK == Spec => []TypeOK
<1>1. Inv => TypeOK
  BY DEF Inv
<1>2. QED
  BY <1>1, Invariance, PTL

\* Resources whose needs are among what their references lead to are created
\* in an order that works, whichever CloudFormation takes.
THEOREM StacksNeverRefused ==
  ASSUME \A s \in Stacks \ Disordered : Ordered(s)
  PROVE  Spec => []NeverRefused
<1>1. Inv => NeverRefused
  BY DEF Inv, TypeOK, NeverRefused
<1>2. QED
  BY <1>1, Invariance, PTL

\* And they find what they read as they come up.
THEOREM StacksNothingMissed ==
  ASSUME \A s \in Stacks \ Disordered : Ordered(s)
  PROVE  Spec => []NothingMissed
<1>1. Inv => NothingMissed
  BY DEF Inv, TypeOK, NothingMissed
<1>2. QED
  BY <1>1, Invariance, PTL

\* What is kept stays readable through every rollback and every deletion, if
\* its key comes first and is kept as well.
THEOREM StacksKeptReadable ==
  ASSUME \A s \in Stacks : KeyKept(s)
  PROVE  Spec => []KeptReadable
<1>1. Inv => KeptReadable
  BY DEF Inv, TypeOK
<1>2. QED
  BY <1>1, Invariance, PTL

\* A clean stack is gone after `cdk destroy', but for what its docs let it
\* leave, whatever it was used for and however its deletion is ordered; and no
\* deployment finds a name taken by an earlier one.
THEOREM StacksCleanDestroy ==
  ASSUME \A s \in Stacks \ Unclean : Clean(s)
  PROVE  Spec => []CleanDestroy
<1>1. DestroyInv => CleanDestroy
  <2> SUFFICES ASSUME DestroyInv, stack.destroys # "unsaid", stack \notin Unclean
               PROVE  /\ ~(phase = "stuck" /\ why = "")
                      /\ why # "taken"
                      /\ stack.destroys = "all" => left = {}
    BY DEF CleanDestroy
  <2>1. Clean(stack) /\ Unhindered /\ Phased /\ TypeOK
    BY DEF DestroyInv, Inv, TypeOK
  <2>2. ~(phase = "stuck" /\ why = "")
    BY <2>1 DEF Unhindered, Phased
  <2>3. why # "taken"
    BY <2>1 DEF Unhindered
  <2>4. stack.destroys = "all" => left = {}
    BY <2>1 DEF Clean, TypeOK
  <2>5. QED
    BY <2>2, <2>3, <2>4
<1>2. QED
  BY <1>1, DestroyInvariance, PTL

\* A deletion or a rollback of any stack stops short for one reason only, that
\* the deletion of a resource was refused: what there is never waits for itself,
\* though the code says nothing of the order of a deletion.
THEOREM StacksStuckRefused == Spec => [](phase = "stuck" => live \cap blocked # {})
<1>1. DestroyInv => (phase = "stuck" => live \cap blocked # {})
  BY DEF DestroyInv, Phased, Inv, TypeOK
<1>2. QED
  BY <1>1, DestroyInvariance, PTL

-----------------------------------------------------------------------------
(* The stacks of the examples.  What their modules write down is evaluated    *)
(* here: first how a function is put together,                                *)

\* f @@ g is f where f is defined and g elsewhere.
LEMMA Overrides ==
  ASSUME NEW f, NEW g
  PROVE  /\ DOMAIN (f @@ g) = DOMAIN f \cup DOMAIN g
         /\ \A x \in DOMAIN f : (f @@ g)[x] = f[x]
         /\ \A x \in DOMAIN g \ DOMAIN f : (f @@ g)[x] = g[x]
BY DEF @@

\* What is said first holds,
LEMMA Kept ==
  ASSUME NEW f, NEW g, NEW x, x \in DOMAIN f
  PROVE  x \in DOMAIN (f @@ g) /\ (f @@ g)[x] = f[x]
BY Overrides

\* what is said next as well, if it is new;
LEMMA New ==
  ASSUME NEW f, NEW g, NEW x, x \notin DOMAIN f, x \in DOMAIN g
  PROVE  x \in DOMAIN (f @@ g) /\ (f @@ g)[x] = g[x]
BY DEF @@

\* and nothing else is said.
LEMMA Absent ==
  ASSUME NEW f, NEW g, NEW x, x \notin DOMAIN f, x \notin DOMAIN g
  PROVE  x \notin DOMAIN (f @@ g)
BY Overrides

\* One resource has its references,
LEMMA Single ==
  ASSUME NEW d, NEW e
  PROVE  /\ d \in DOMAIN (d :> e) /\ (d :> e)[d] = e
         /\ \A x : x # d => x \notin DOMAIN (d :> e)
BY DEF :>

\* and several resources have the same.
LEMMA Several ==
  ASSUME NEW R, NEW v
  PROVE  /\ \A r \in R : r \in DOMAIN Each(R, v) /\ Each(R, v)[r] = v
         /\ \A x : x \notin R => x \notin DOMAIN Each(R, v)
BY DEF Each

\* A stack declares what it says,
LEMMA Said ==
  ASSUME NEW more, NEW deps
  PROVE  /\ "deps" \notin DOMAIN more => With(more, Stack(deps)).deps = deps
         /\ "needs" \in DOMAIN more => With(more, Stack(deps)).needs = more.needs
         /\ "reads" \in DOMAIN more => With(more, Stack(deps)).reads = more.reads
         /\ "kept" \in DOMAIN more => With(more, Stack(deps)).kept = more.kept
         /\ "fixed" \in DOMAIN more => With(more, Stack(deps)).fixed = more.fixed
         /\ "protected" \in DOMAIN more => With(more, Stack(deps)).protected = more.protected
         /\ "holds" \in DOMAIN more => With(more, Stack(deps)).holds = more.holds
         /\ "sealed" \in DOMAIN more => With(more, Stack(deps)).sealed = more.sealed
         /\ "seeds" \in DOMAIN more => With(more, Stack(deps)).seeds = more.seeds
         /\ "fills" \in DOMAIN more => With(more, Stack(deps)).fills = more.fills
         /\ "cleared" \in DOMAIN more => With(more, Stack(deps)).cleared = more.cleared
         /\ "destroys" \in DOMAIN more => With(more, Stack(deps)).destroys = more.destroys
<1>1. "deps" \in DOMAIN Stack(deps) /\ Stack(deps)["deps"] = deps
  BY DEF Stack
<1>2. "deps" \notin DOMAIN more => With(more, Stack(deps))["deps"] = deps
  BY <1>1, New DEF With
<1>3. \A f \in DOMAIN more : With(more, Stack(deps))[f] = more[f]
  BY Kept DEF With
<1>4. QED
  BY <1>2, <1>3

\* and nothing about what it does not speak of.
LEMMA Silent ==
  ASSUME NEW more, NEW deps
  PROVE  /\ "destroys" \notin DOMAIN more => With(more, Stack(deps)).destroys = "unsaid"
         /\ "needs" \notin DOMAIN more => With(more, Stack(deps)).needs = {}
         /\ "reads" \notin DOMAIN more => With(more, Stack(deps)).reads = {}
         /\ "kept" \notin DOMAIN more => With(more, Stack(deps)).kept = {}
         /\ "fixed" \notin DOMAIN more => With(more, Stack(deps)).fixed = {}
         /\ "protected" \notin DOMAIN more => With(more, Stack(deps)).protected = {}
         /\ "holds" \notin DOMAIN more => With(more, Stack(deps)).holds = {}
         /\ "sealed" \notin DOMAIN more => With(more, Stack(deps)).sealed = {}
         /\ "seeds" \notin DOMAIN more => With(more, Stack(deps)).seeds = {}
         /\ "fills" \notin DOMAIN more => With(more, Stack(deps)).fills = {}
         /\ "cleared" \notin DOMAIN more => With(more, Stack(deps)).cleared = {}
<1> DEFINE unset == {"needs", "reads", "kept", "fixed", "protected", "holds", "sealed",
                     "seeds", "fills", "cleared"}
<1>1. \A f \in unset : f \in DOMAIN Stack(deps) /\ Stack(deps)[f] = {}
  BY DEF Stack
<1>2. "destroys" \in DOMAIN Stack(deps) /\ Stack(deps)["destroys"] = "unsaid"
  BY DEF Stack
<1>3. "destroys" \notin DOMAIN more => With(more, Stack(deps))["destroys"] = "unsaid"
  BY <1>2, New DEF With
<1>4. \A f \in unset : f \notin DOMAIN more => With(more, Stack(deps))[f] = {}
  BY <1>1, New DEF With
<1>5. QED
  BY <1>3, <1>4

\* What autoDeleteObjects adds to the declarations.
LEMMA BucketDomain ==
  ASSUME NEW c, NEW b, NEW more
  PROVE  DOMAIN (AutoDelete(c, b) @@ more) = {"cleared", "fills"} \cup DOMAIN more
<1>1. DOMAIN AutoDelete(c, b) = {"cleared", "fills"}
  BY DEF AutoDelete
<1>2. QED
  BY <1>1, Overrides

\* What such a stack declares besides its references.
LEMMA BucketFields ==
  ASSUME NEW c, NEW b, NEW more, NEW deps,
         DOMAIN more \cap {"deps", "reads", "cleared", "fills"} = {}, "needs" \in DOMAIN more
  PROVE  /\ With(AutoDelete(c, b) @@ more, Stack(deps)).deps = deps
         /\ With(AutoDelete(c, b) @@ more, Stack(deps)).needs = more.needs
         /\ With(AutoDelete(c, b) @@ more, Stack(deps)).reads = {}
<1> DEFINE all == AutoDelete(c, b) @@ more
<1>1. DOMAIN all = {"cleared", "fills"} \cup DOMAIN more
  BY BucketDomain
<1>2. DOMAIN AutoDelete(c, b) = {"cleared", "fills"}
  BY DEF AutoDelete
<1>3. all["needs"] = more["needs"]
  BY <1>2, New
<1> HIDE DEF all
<1>4. /\ With(all, Stack(deps)).deps = deps
      /\ With(all, Stack(deps)).needs = more.needs
      /\ With(all, Stack(deps)).reads = {}
  BY <1>1, <1>3, Said, Silent
<1>5. QED
  BY <1>4 DEF all

(* then the two conditions for stacks in general,                             *)

\* A stack that declares no need, no reading and no key.
LEMMA Plain ==
  ASSUME NEW more, NEW deps, DOMAIN more \cap {"deps", "needs", "reads", "sealed"} = {}
  PROVE  Ordered(With(more, Stack(deps))) /\ KeyKept(With(more, Stack(deps)))
BY Said, Silent DEF Ordered, KeyKept

\* The same for a stack that declares nothing but references,
LEMMA PlainAlone ==
  ASSUME NEW deps
  PROVE  Ordered(Stack(deps)) /\ KeyKept(Stack(deps))
BY DEF Stack, Ordered, KeyKept

\* and for one with a bucket that is emptied.
LEMMA PlainBucket ==
  ASSUME NEW c, NEW b, NEW more, NEW deps,
         DOMAIN more \cap {"deps", "needs", "reads", "sealed"} = {}
  PROVE  /\ Ordered(With(AutoDelete(c, b) @@ more, Stack(deps)))
         /\ KeyKept(With(AutoDelete(c, b) @@ more, Stack(deps)))
<1> DEFINE all == AutoDelete(c, b) @@ more
<1>1. DOMAIN all \cap {"deps", "needs", "reads", "sealed"} = {}
  BY ZenonT(40), BucketDomain
<1> HIDE DEF all
<1>2. Ordered(With(all, Stack(deps))) /\ KeyKept(With(all, Stack(deps)))
  BY <1>1, Plain
<1>3. QED
  BY <1>2 DEF all

\* A stack that declares no key.
LEMMA NoKey ==
  ASSUME NEW more, NEW deps, "sealed" \notin DOMAIN more
  PROVE  KeyKept(With(more, Stack(deps)))
BY Silent DEF KeyKept

\* The same with a bucket that is emptied.
LEMMA NoKeyBucket ==
  ASSUME NEW c, NEW b, NEW more, NEW deps, "sealed" \notin DOMAIN more
  PROVE  KeyKept(With(AutoDelete(c, b) @@ more, Stack(deps)))
<1> DEFINE all == AutoDelete(c, b) @@ more
<1>1. DOMAIN all = {"cleared", "fills"} \cup DOMAIN more
  BY BucketDomain
<1> HIDE DEF all
<1>a. "sealed" \notin DOMAIN all
  BY <1>1
<1>2. KeyKept(With(all, Stack(deps)))
  BY <1>a, NoKey
<1>3. QED
  BY <1>2 DEF all

\* Each need or reading is a reference.
LEMMA Direct ==
  ASSUME NEW s, \A p \in s.needs \cup s.reads : p[2] \in s.deps[p[1]]
  PROVE  Ordered(s)
BY DEF Ordered, Before, Referred

(* and then for each of them.                                                 *)

PlainStacks ==
  {Mysql, Oracle, Neptune, FsxAd, BackupS3, ReplicationRole, ReplicationDestination,
   ReplicationSource, OpenSearchVpc, LogsSubscription, Batch, CodepipelineGlueDeploy,
   LambdaApiCi, Airflow, ImageBuilder, LocalZone, InstanceConnectEndpoint, EksCluster,
   RabbitMq, Ec2Product, ApiGatewayAsync, CorsCrud, ParallelStepFunctions, LambdaApi,
   WidgetService, StreamingBedrock, Rekognition, DdbStream, ConnectInstance, LexBot,
   StaticSite, CloudfrontFunctions, AppConfigHosted, R53Resolver, ResolverDnsFirewall,
   IncomingData, SftpServer}

\* The stacks without needs and keys meet both conditions.
LEMMA PlainOnes ==
  \A s \in PlainStacks : Ordered(s) /\ KeyKept(s)
<1>1. Ordered(Mysql) /\ KeyKept(Mysql)
  BY Plain DEF Mysql
<1>2. Ordered(Oracle) /\ KeyKept(Oracle)
  BY Plain DEF Oracle
<1>3. Ordered(Neptune) /\ KeyKept(Neptune)
  BY Plain DEF Neptune
<1>4. Ordered(FsxAd) /\ KeyKept(FsxAd)
  BY PlainAlone DEF FsxAd
<1>5. Ordered(BackupS3) /\ KeyKept(BackupS3)
  BY PlainBucket DEF BackupS3
<1>6. Ordered(ReplicationRole) /\ KeyKept(ReplicationRole)
  BY Plain DEF ReplicationRole
<1>7. Ordered(ReplicationDestination) /\ KeyKept(ReplicationDestination)
  BY PlainBucket DEF ReplicationDestination, EncryptedBucket
<1>8. Ordered(ReplicationSource) /\ KeyKept(ReplicationSource)
  BY PlainBucket DEF ReplicationSource, EncryptedBucket
<1>9. Ordered(OpenSearchVpc) /\ KeyKept(OpenSearchVpc)
  BY Plain DEF OpenSearchVpc
<1>10. Ordered(LogsSubscription) /\ KeyKept(LogsSubscription)
  BY Plain DEF LogsSubscription
<1>11. Ordered(Batch) /\ KeyKept(Batch)
  BY Plain DEF Batch
<1>12. Ordered(CodepipelineGlueDeploy) /\ KeyKept(CodepipelineGlueDeploy)
  BY Plain DEF CodepipelineGlueDeploy
<1>13. Ordered(LambdaApiCi) /\ KeyKept(LambdaApiCi)
  BY Plain DEF LambdaApiCi
<1>14. Ordered(Airflow) /\ KeyKept(Airflow)
  BY PlainBucket DEF Airflow
<1>15. Ordered(ImageBuilder) /\ KeyKept(ImageBuilder)
  BY Plain DEF ImageBuilder
<1>16. Ordered(LocalZone) /\ KeyKept(LocalZone)
  BY Plain DEF LocalZone
<1>17. Ordered(InstanceConnectEndpoint) /\ KeyKept(InstanceConnectEndpoint)
  BY Plain DEF InstanceConnectEndpoint
<1>18. Ordered(EksCluster) /\ KeyKept(EksCluster)
  BY Plain DEF EksCluster
<1>19. Ordered(RabbitMq) /\ KeyKept(RabbitMq)
  BY Plain DEF RabbitMq
<1>20. Ordered(Ec2Product) /\ KeyKept(Ec2Product)
  BY PlainAlone DEF Ec2Product
<1>21. Ordered(ApiGatewayAsync) /\ KeyKept(ApiGatewayAsync)
  BY Plain DEF ApiGatewayAsync
<1>22. Ordered(CorsCrud) /\ KeyKept(CorsCrud)
  BY Plain DEF CorsCrud
<1>23. Ordered(ParallelStepFunctions) /\ KeyKept(ParallelStepFunctions)
  BY Plain DEF ParallelStepFunctions
<1>24. Ordered(LambdaApi) /\ KeyKept(LambdaApi)
  BY PlainBucket DEF LambdaApi
<1>25. Ordered(WidgetService) /\ KeyKept(WidgetService)
  BY Plain DEF WidgetService, AutoDelete
<1>26. Ordered(StreamingBedrock) /\ KeyKept(StreamingBedrock)
  BY Plain DEF StreamingBedrock
<1>27. Ordered(Rekognition) /\ KeyKept(Rekognition)
  BY PlainBucket DEF Rekognition
<1>28. Ordered(DdbStream) /\ KeyKept(DdbStream)
  BY Plain DEF DdbStream
<1>29. Ordered(ConnectInstance) /\ KeyKept(ConnectInstance)
  BY Plain DEF ConnectInstance
<1>30. Ordered(LexBot) /\ KeyKept(LexBot)
  BY Plain DEF LexBot
<1>31. Ordered(StaticSite) /\ KeyKept(StaticSite)
  BY PlainBucket DEF StaticSite
<1>32. Ordered(CloudfrontFunctions) /\ KeyKept(CloudfrontFunctions)
  BY PlainBucket DEF CloudfrontFunctions
<1>33. Ordered(AppConfigHosted) /\ KeyKept(AppConfigHosted)
  BY Plain DEF AppConfigHosted
<1>34. Ordered(R53Resolver) /\ KeyKept(R53Resolver)
  BY PlainAlone DEF R53Resolver
<1>35. Ordered(ResolverDnsFirewall) /\ KeyKept(ResolverDnsFirewall)
  BY Plain DEF ResolverDnsFirewall
<1>36. Ordered(IncomingData) /\ KeyKept(IncomingData)
  BY PlainBucket DEF IncomingData
<1>37. Ordered(SftpServer) /\ KeyKept(SftpServer)
  BY Plain DEF SftpServer
<1>38. QED
  BY <1>1, <1>2, <1>3, <1>4, <1>5, <1>6, <1>7, <1>8, <1>9, <1>10, <1>11, <1>12, <1>13,
     <1>14, <1>15, <1>16, <1>17, <1>18, <1>19, <1>20, <1>21, <1>22, <1>23, <1>24, <1>25,
     <1>26, <1>27, <1>28, <1>29, <1>30, <1>31, <1>32, <1>33, <1>34, <1>35, <1>36, <1>37
     DEF PlainStacks

KeylessStacks ==
  {GlobalTableCmk, Quicksight, OpenSearchServerless, CodepipelineBuildDeploy,
   Ec2Instance, Portfolio, ChatApp, AppSyncHttp, AppSyncEventBridge, AppSyncDynamoDb,
   S3ObjectLambda, S3Vectors, ScalingTarget, ScalingSchedule, WafCloudFront,
   WafRegional, SecretsManagerRotation, PostgresLambda}

\* The stacks without keys meet the second.
LEMMA KeylessOnes ==
  \A s \in KeylessStacks : KeyKept(s)
<1>1. KeyKept(GlobalTableCmk)
  BY NoKey DEF GlobalTableCmk
<1>2. KeyKept(Quicksight)
  BY NoKeyBucket DEF Quicksight
<1>3. KeyKept(OpenSearchServerless)
  BY NoKey DEF OpenSearchServerless
<1>4. KeyKept(CodepipelineBuildDeploy)
  BY NoKey DEF CodepipelineBuildDeploy
<1>5. KeyKept(Ec2Instance)
  BY NoKey DEF Ec2Instance
<1>6. KeyKept(Portfolio)
  BY NoKey DEF Portfolio
<1>7. KeyKept(ChatApp)
  BY NoKey DEF ChatApp
<1>8. KeyKept(AppSyncHttp)
  BY NoKey DEF AppSyncHttp
<1>9. KeyKept(AppSyncEventBridge)
  BY NoKey DEF AppSyncEventBridge
<1>10. KeyKept(AppSyncDynamoDb)
  BY NoKey DEF AppSyncDynamoDb
<1>11. KeyKept(S3ObjectLambda)
  BY NoKeyBucket DEF S3ObjectLambda
<1>12. KeyKept(S3Vectors)
  BY NoKey DEF S3Vectors
<1>13. KeyKept(ScalingTarget)
  BY NoKey DEF ScalingTarget
<1>14. KeyKept(ScalingSchedule)
  BY NoKey DEF ScalingSchedule
<1>15. KeyKept(WafCloudFront)
  BY NoKey DEF WafCloudFront, WebAcl
<1>16. KeyKept(WafRegional)
  BY NoKey DEF WafRegional, WebAcl
<1>17. KeyKept(SecretsManagerRotation)
  BY NoKey DEF SecretsManagerRotation
<1>18. KeyKept(PostgresLambda)
  BY NoKey DEF PostgresLambda
<1>19. QED
  BY <1>1, <1>2, <1>3, <1>4, <1>5, <1>6, <1>7, <1>8, <1>9, <1>10, <1>11, <1>12, <1>13,
     <1>14, <1>15, <1>16, <1>17, <1>18 DEF KeylessStacks

\* The key of the cluster is created before it and kept with it.
LEMMA AuroraKey == Ordered(Aurora) /\ KeyKept(Aurora)
<1>1. Aurora.needs = {} /\ Aurora.reads = {}
  BY Said, Silent DEF Aurora
<1>2. Aurora.sealed = {<<"cluster", "key">>} /\ "key" \in Aurora.kept
  BY Said, Silent DEF Aurora, AuroraKept
<1>3. "key" \in Aurora.deps["cluster"]
  BY Said, Silent, Kept, New, Absent, Single, Several
     DEF Aurora, AuroraNetwork, AuroraCluster, AuroraDashboard
<1>4. "key" \in Before(Aurora, "cluster")
  BY <1>3 DEF Before, Referred
<1>5. QED
  BY <1>1, <1>2, <1>4, Direct DEF KeyKept

\* The nested stack of the table depends on the one of the keys.
LEMMA GlobalTableOrdered == Ordered(GlobalTableCmk)
<1>1. GlobalTableCmk.needs = {<<"table", "replica">>} /\ GlobalTableCmk.reads = {}
  BY Said, Silent DEF GlobalTableCmk
<1>2. "replica" \in GlobalTableCmk.deps["table"]
  BY Said, Silent, Kept, New, Single, Several DEF GlobalTableCmk, After, CmkStack
<1>3. QED
  BY <1>1, <1>2, Direct

\* The columns that are cast are among those of the input.
LEMMA QuicksightOrdered == Ordered(Quicksight)
<1>1. /\ Quicksight.needs = {<<"dataSource", "policy">>, <<"dataSource", "deployment">>}
      /\ Quicksight.reads = {}
  <2>1. CastColumns \ InputColumns = {}
    BY DEF CastColumns, InputColumns
  <2>2. QED
    BY <2>1, BucketFields DEF Quicksight
<1>2. {"policy", "deployment"} \subseteq Quicksight.deps["dataSource"]
  BY BucketFields, Kept, New, Absent, Single, Several DEF Quicksight, QuicksightBucket
<1>3. QED
  BY <1>1, <1>2, Direct

\* The collection depends on its policies, and the pipeline on the collection.
LEMMA OpenSearchOrdered == Ordered(OpenSearchServerless)
<1>1. /\ OpenSearchServerless.needs =
           {<<"collection", "encryptionPolicy">>, <<"collection", "networkPolicy">>,
            <<"pipeline", "collection">>}
      /\ OpenSearchServerless.reads = {}
  BY Said, Silent DEF OpenSearchServerless
<1>2. /\ {"encryptionPolicy", "networkPolicy"} \subseteq OpenSearchServerless.deps["collection"]
      /\ "collection" \in OpenSearchServerless.deps["pipeline"]
  BY Said, Silent, Kept, New, Absent, Single, Several DEF OpenSearchServerless
<1>3. QED
  BY <1>1, <1>2, Direct

\* The cluster waits for the VPC, and that for the trigger of the build.
LEMMA BuildDeployOrdered == Ordered(CodepipelineBuildDeploy)
<1>1. /\ CodepipelineBuildDeploy.needs = {}
      /\ CodepipelineBuildDeploy.reads = {<<"cluster", "trigger">>}
  BY Said, Silent DEF CodepipelineBuildDeploy
<1>2. /\ "vpc" \in CodepipelineBuildDeploy.deps["cluster"]
      /\ "trigger" \in CodepipelineBuildDeploy.deps["vpc"]
  BY Said, Silent, Kept, New, Absent, Single, Several
     DEF CodepipelineBuildDeploy, BuildDeployPipeline, BlueGreenService, VpcWaitsFor,
         ImageBuild
<1>3. QED
  BY <1>1, <1>2 DEF Ordered, Before, Referred

\* Constraint and notification depend on the association of the product.
LEMMA PortfolioOrdered == Ordered(Portfolio)
<1>1. /\ Portfolio.needs = {"constraint", "notification"} \X {"association"}
      /\ Portfolio.reads = {}
  BY Said, Silent DEF Portfolio
<1>2. /\ "association" \in Portfolio.deps["constraint"]
      /\ "association" \in Portfolio.deps["notification"]
  BY Said, Silent, Kept, New, Absent, Single, Several DEF Portfolio
<1>3. QED
  BY <1>1, <1>2, Direct

\* The deployment of the API depends on its routes.
LEMMA ChatAppOrdered == Ordered(ChatApp)
<1>1. /\ ChatApp.needs = {"deployment"} \X {"connectRoute", "disconnectRoute", "messageRoute"}
      /\ ChatApp.reads = {}
  BY Said, Silent DEF ChatApp
<1>2. {"connectRoute", "disconnectRoute", "messageRoute"} \subseteq ChatApp.deps["deployment"]
  BY Said, Silent, Kept, New, Absent, Single, Several DEF ChatApp, ChatFunctions
<1>3. QED
  BY <1>1, <1>2, Direct

\* The functions of the pipeline depend on the schema.
LEMMA AppSyncOrdered == Ordered(AppSyncDynamoDb)
<1>1. /\ AppSyncDynamoDb.needs = {"carsFunction", "defectsFunction"} \X {"schema"}
      /\ AppSyncDynamoDb.reads = {}
  BY Said, Silent DEF AppSyncDynamoDb
<1>2. /\ "schema" \in AppSyncDynamoDb.deps["carsFunction"]
      /\ "schema" \in AppSyncDynamoDb.deps["defectsFunction"]
  BY Said, Silent, Kept, New, Absent, Single, Several DEF AppSyncDynamoDb
<1>3. QED
  BY <1>1, <1>2, Direct

\* The custom resource of the index depends on that of the bucket.
LEMMA S3VectorsOrdered == Ordered(S3Vectors)
<1>1. S3Vectors.needs = {<<"vectorIndex", "vectorBucket">>} /\ S3Vectors.reads = {}
  BY Said, Silent DEF S3Vectors
<1>2. "vectorBucket" \in S3Vectors.deps["vectorIndex"]
  BY Said, Silent, Kept, New, Absent, Single, Several DEF S3Vectors, VectorIndexWaitsFor
<1>3. QED
  BY <1>1, <1>2, Direct

\* No two rules of a web ACL have one priority.
LEMMA RulesDiffer ==
  \A r, q \in DOMAIN makeRules(ManagedRules) :
    r # q => makeRules(ManagedRules)[r] # makeRules(ManagedRules)[q]
BY Overrides, Kept, New, Absent, Single DEF makeRules, ManagedRules

LEMMA WafOrdered == Ordered(WafCloudFront) /\ Ordered(WafRegional)
<1> DEFINE rules == makeRules(ManagedRules)
<1>1. Clashes(rules) = {}
  BY RulesDiffer DEF Clashes
<1>2. WebAcl(rules).needs = {} /\ WebAcl(rules).reads = {}
  BY <1>1, Said, Silent DEF WebAcl
<1>3. QED
  BY <1>2, Direct DEF WafCloudFront, WafRegional

(* And the third condition.                                                   *)

\* A stack whose destruction the docs do not speak of,
LEMMA Unsaid ==
  ASSUME NEW more, NEW deps, "destroys" \notin DOMAIN more
  PROVE  Clean(With(more, Stack(deps)))
BY Silent DEF Clean

\* the same for one that declares nothing but references,
LEMMA UnsaidAlone ==
  ASSUME NEW deps
  PROVE  Clean(Stack(deps))
BY DEF Stack, Clean

\* and for one with a bucket that is emptied.
LEMMA UnsaidBucket ==
  ASSUME NEW c, NEW b, NEW more, NEW deps, "destroys" \notin DOMAIN more
  PROVE  Clean(With(AutoDelete(c, b) @@ more, Stack(deps)))
<1> DEFINE all == AutoDelete(c, b) @@ more
<1>1. DOMAIN all = {"cleared", "fills"} \cup DOMAIN more
  BY BucketDomain
<1> HIDE DEF all
<1>2. Clean(With(all, Stack(deps)))
  BY <1>1, Unsaid
<1>3. QED
  BY <1>2 DEF all

\* A stack that keeps, protects and writes nothing is clean,
LEMMA Bare ==
  ASSUME NEW more, NEW deps,
         DOMAIN more \cap {"protected", "holds", "seeds", "fills", "kept"} = {}
  PROVE  Clean(With(more, Stack(deps)))
BY Silent DEF Clean

\* and so is one that keeps what has no name in the code.
LEMMA Keeping ==
  ASSUME NEW more, NEW deps,
         DOMAIN more \cap {"protected", "holds", "seeds", "fills"} = {},
         "destroys" \in DOMAIN more, more.destroys # "all",
         "kept" \in DOMAIN more,
         "fixed" \in DOMAIN more => more.fixed \cap more.kept = {}
  PROVE  Clean(With(more, Stack(deps)))
BY Said, Silent DEF Clean

\* The docs do not say how these are destroyed.
UnsaidStacks ==
  {Aurora, Mysql, Oracle, FsxAd, GlobalTableCmk, Quicksight, BackupS3,
   CodepipelineBuildDeploy, CodepipelineGlueDeploy, LambdaApiCi, ImageBuilder,
   EksCluster, Ec2Product, ChatApp, ApiGatewayAsync, ParallelStepFunctions,
   LambdaApi, WidgetService, AppSyncHttp, AppSyncEventBridge, S3ObjectLambda,
   LexBot, StaticSite, R53Resolver, ResolverDnsFirewall, WafCloudFront,
   WafRegional, SecretsManagerRotation}

\* They promise nothing.
LEMMA UnsaidOnes == \A s \in UnsaidStacks : Clean(s)
<1>1. Clean(Aurora)
  BY Unsaid DEF Aurora
<1>2. Clean(Mysql)
  BY Unsaid DEF Mysql
<1>3. Clean(Oracle)
  BY Unsaid DEF Oracle
<1>4. Clean(FsxAd)
  BY UnsaidAlone DEF FsxAd
<1>5. Clean(GlobalTableCmk)
  BY Unsaid DEF GlobalTableCmk
<1>6. Clean(Quicksight)
  BY UnsaidBucket DEF Quicksight
<1>7. Clean(BackupS3)
  BY UnsaidBucket DEF BackupS3
<1>8. Clean(CodepipelineBuildDeploy)
  BY Unsaid DEF CodepipelineBuildDeploy
<1>9. Clean(CodepipelineGlueDeploy)
  BY Unsaid DEF CodepipelineGlueDeploy
<1>10. Clean(LambdaApiCi)
  BY Unsaid DEF LambdaApiCi
<1>11. Clean(ImageBuilder)
  BY Unsaid DEF ImageBuilder
<1>12. Clean(EksCluster)
  BY Unsaid DEF EksCluster
<1>13. Clean(Ec2Product)
  BY UnsaidAlone DEF Ec2Product
<1>14. Clean(ChatApp)
  BY Unsaid DEF ChatApp
<1>15. Clean(ApiGatewayAsync)
  BY Unsaid DEF ApiGatewayAsync
<1>16. Clean(ParallelStepFunctions)
  BY Unsaid DEF ParallelStepFunctions
<1>17. Clean(LambdaApi)
  BY UnsaidBucket DEF LambdaApi
<1>18. Clean(WidgetService)
  BY Unsaid DEF WidgetService, AutoDelete
<1>19. Clean(AppSyncHttp)
  BY Unsaid DEF AppSyncHttp
<1>20. Clean(AppSyncEventBridge)
  BY Unsaid DEF AppSyncEventBridge
<1>21. Clean(S3ObjectLambda)
  BY UnsaidBucket DEF S3ObjectLambda
<1>22. Clean(LexBot)
  BY Unsaid DEF LexBot
<1>23. Clean(StaticSite)
  BY UnsaidBucket DEF StaticSite
<1>24. Clean(R53Resolver)
  BY UnsaidAlone DEF R53Resolver
<1>25. Clean(ResolverDnsFirewall)
  BY Unsaid DEF ResolverDnsFirewall
<1>26. Clean(WafCloudFront)
  BY Unsaid DEF WafCloudFront, WebAcl
<1>27. Clean(WafRegional)
  BY Unsaid DEF WafRegional, WebAcl
<1>28. Clean(SecretsManagerRotation)
  BY Unsaid DEF SecretsManagerRotation
<1>29. QED
  BY <1>1, <1>2, <1>3, <1>4, <1>5, <1>6, <1>7, <1>8, <1>9, <1>10, <1>11, <1>12,
     <1>13, <1>14, <1>15, <1>16, <1>17, <1>18, <1>19, <1>20, <1>21, <1>22, <1>23,
     <1>24, <1>25, <1>26, <1>27, <1>28
     DEF UnsaidStacks

\* These write nothing that anyone has to delete.
BareStacks ==
  {Neptune, ReplicationRole, OpenSearchVpc, OpenSearchServerless, LocalZone,
   InstanceConnectEndpoint, RabbitMq, Portfolio, CorsCrud, AppSyncDynamoDb,
   DdbStream, ConnectInstance, AppConfigHosted, ScalingTarget, ScalingSchedule,
   SftpServer, Batch}

\* Nothing is in the way of them.
LEMMA BareOnes == \A s \in BareStacks : Clean(s)
<1>1. Clean(Neptune)
  BY Bare DEF Neptune
<1>2. Clean(ReplicationRole)
  BY Bare DEF ReplicationRole
<1>3. Clean(OpenSearchVpc)
  BY Bare DEF OpenSearchVpc
<1>4. Clean(OpenSearchServerless)
  BY Bare DEF OpenSearchServerless
<1>5. Clean(LocalZone)
  BY Bare DEF LocalZone
<1>6. Clean(InstanceConnectEndpoint)
  BY Bare DEF InstanceConnectEndpoint
<1>7. Clean(RabbitMq)
  BY Bare DEF RabbitMq
<1>8. Clean(Portfolio)
  BY Bare DEF Portfolio
<1>9. Clean(CorsCrud)
  BY Bare DEF CorsCrud
<1>10. Clean(AppSyncDynamoDb)
  BY Bare DEF AppSyncDynamoDb
<1>11. Clean(DdbStream)
  BY Bare DEF DdbStream
<1>12. Clean(ConnectInstance)
  BY Bare DEF ConnectInstance
<1>13. Clean(AppConfigHosted)
  BY Bare DEF AppConfigHosted
<1>14. Clean(ScalingTarget)
  BY Bare DEF ScalingTarget
<1>15. Clean(ScalingSchedule)
  BY Bare DEF ScalingSchedule
<1>16. Clean(SftpServer)
  BY Bare DEF SftpServer
<1>17. Clean(Batch)
  BY Bare DEF Batch
<1>18. QED
  BY <1>1, <1>2, <1>3, <1>4, <1>5, <1>6, <1>7, <1>8, <1>9, <1>10, <1>11, <1>12,
     <1>13, <1>14, <1>15, <1>16, <1>17
     DEF BareStacks

\* These keep log groups.
KeepingStacks == {LogsSubscription, StreamingBedrock, S3Vectors}

\* What they keep has no name in the code.
LEMMA KeepingOnes == \A s \in KeepingStacks : Clean(s)
<1>1. Clean(LogsSubscription)
  BY Keeping DEF LogsSubscription
<1>2. Clean(StreamingBedrock)
  BY Keeping DEF StreamingBedrock
<1>3. Clean(S3Vectors)
  BY Keeping DEF S3Vectors
<1>4. QED
  BY <1>1, <1>2, <1>3
     DEF KeepingStacks

\* A stack with a bucket or a repository that something empties is clean, if
\* nothing is written elsewhere,
LEMMA Emptying ==
  ASSUME NEW more, NEW deps, NEW c, NEW b,
         DOMAIN more \cap {"deps", "protected", "holds"} = {},
         "cleared" \in DOMAIN more, <<c, b>> \in more.cleared,
         "seeds" \in DOMAIN more => \A p \in more.seeds : p[2] = b,
         "fills" \in DOMAIN more => \A p \in more.fills : p[2] = b,
         "kept" \in DOMAIN more =>
           /\ "destroys" \in DOMAIN more /\ more.destroys # "all"
           /\ "fixed" \in DOMAIN more => more.fixed \cap more.kept = {},
         c \in DOMAIN deps, b \in deps[c]
  PROVE  Clean(With(more, Stack(deps)))
BY SMTT(30), Said, Silent DEF Clean, Emptied, Resources

\* also where CDK adds what empties it.
LEMMA EmptyingBucket ==
  ASSUME NEW more, NEW deps, NEW c, NEW b,
         DOMAIN more \cap {"deps", "protected", "holds", "fills", "cleared"} = {},
         "seeds" \in DOMAIN more => \A p \in more.seeds : p[2] = b,
         "kept" \in DOMAIN more =>
           /\ "destroys" \in DOMAIN more /\ more.destroys # "all"
           /\ "fixed" \in DOMAIN more => more.fixed \cap more.kept = {},
         c \in DOMAIN deps, b \in deps[c]
  PROVE  Clean(With(AutoDelete(c, b) @@ more, Stack(deps)))
<1> DEFINE all == AutoDelete(c, b) @@ more
<1>1. DOMAIN all = {"cleared", "fills"} \cup DOMAIN more
  BY BucketDomain
<1>2. /\ DOMAIN AutoDelete(c, b) = {"cleared", "fills"}
      /\ AutoDelete(c, b)["cleared"] = {<<c, b>>} /\ AutoDelete(c, b)["fills"] = {<<User, b>>}
  BY DEF AutoDelete
<1>3. all["cleared"] = {<<c, b>>} /\ all["fills"] = {<<User, b>>}
  BY <1>2, Kept
<1>4. \A x \in DOMAIN more : all[x] = more[x]
  <2>1. \A x \in DOMAIN more : x \notin DOMAIN AutoDelete(c, b)
    BY <1>2
  <2>2. QED
    BY <2>1, New
<1> HIDE DEF all
<1>5. DOMAIN all \cap {"deps", "protected", "holds"} = {}
  BY <1>1
<1>6. "cleared" \in DOMAIN all /\ <<c, b>> \in all.cleared
  BY <1>1, <1>3
<1>7. /\ "seeds" \in DOMAIN all => \A p \in all.seeds : p[2] = b
      /\ \A p \in all.fills : p[2] = b
  BY <1>1, <1>3, <1>4
<1>8. "kept" \in DOMAIN all =>
        /\ "destroys" \in DOMAIN all /\ all.destroys # "all"
        /\ "fixed" \in DOMAIN all => all.fixed \cap all.kept = {}
  BY <1>1, <1>4
<1>9. Clean(With(all, Stack(deps)))
  BY <1>5, <1>6, <1>7, <1>8, Emptying
<1>10. QED
  BY <1>9 DEF all

\* Their buckets are emptied (autoDeleteObjects, and in one a deployment of files
\* that deletes them).
LEMMA AirflowClean == Clean(Airflow)
<1> DEFINE deps == AirflowInputs
                   @@ "sg"      :> {"vpc"}
                   @@ "mwaaEnv" :> {"mwaaRole", "bucket", "vpc", "sg"}
<1>1. "emptyBucket" \in DOMAIN deps /\ "bucket" \in deps["emptyBucket"]
  BY Kept, New, Absent, Single, Several DEF AirflowInputs
<1> HIDE DEF deps
<1>2. QED
  BY <1>1, EmptyingBucket DEF Airflow, deps

LEMMA Ec2InstanceClean == Clean(Ec2Instance)
<1> DEFINE deps == Ec2Server @@ Ec2Network
<1>1. "emptyBucket" \in DOMAIN deps /\ "bucket" \in deps["emptyBucket"]
  BY Kept, New, Absent, Single, Several DEF Ec2Server, Ec2Network
<1> HIDE DEF deps
<1>2. <<"emptyBucket", "bucket">> \in {"deployment", "emptyBucket"} \X {"bucket"}
  OBVIOUS
<1>3. QED
  BY <1>1, <1>2, Emptying DEF Ec2Instance, deps

LEMMA EncryptedBucketClean == Clean(EncryptedBucket)
<1> DEFINE deps == "key" :> {}
                   @@ Each({"alias", "bucket"}, {"key"})
                   @@ "bucketPolicy" :> {"bucket"}
                   @@ "cleaner"      :> {"bucket", "bucketPolicy"}
<1>1. "cleaner" \in DOMAIN deps /\ "bucket" \in deps["cleaner"]
  BY Kept, New, Absent, Single, Several
<1> HIDE DEF deps
<1>2. QED
  BY <1>1, EmptyingBucket DEF EncryptedBucket, deps

LEMMA RekognitionClean == Clean(Rekognition)
<1> DEFINE deps == Each({"bucket", "classifications"}, {})
                   @@ "emptyBucket"   :> {"bucket"}
                   @@ "function"      :> {"bucket", "classifications"}
                   @@ "permission"    :> {"function", "bucket"}
                   @@ "notifications" :> {"bucket", "function", "permission"}
<1>1. "emptyBucket" \in DOMAIN deps /\ "bucket" \in deps["emptyBucket"]
  BY Kept, New, Absent, Single, Several
<1> HIDE DEF deps
<1>2. QED
  BY <1>1, EmptyingBucket DEF Rekognition, deps

LEMMA CloudfrontFunctionsClean == Clean(CloudfrontFunctions)
<1> DEFINE deps == Each({"bucket", "requestFunction", "responseFunction", "accessIdentity"}, {})
                   @@ Each({"emptyBucket", "websiteFiles"}, {"bucket"})
                   @@ "distribution" :> {"bucket", "requestFunction", "responseFunction"}
<1>1. "emptyBucket" \in DOMAIN deps /\ "bucket" \in deps["emptyBucket"]
  BY Kept, New, Absent, Single, Several
<1> HIDE DEF deps
<1>2. QED
  BY <1>1, EmptyingBucket DEF CloudfrontFunctions, deps

LEMMA IncomingDataClean == Clean(IncomingData)
<1> DEFINE deps == "bucket" :> {} @@ "emptyBucket" :> {"bucket"}
<1>1. "emptyBucket" \in DOMAIN deps /\ "bucket" \in deps["emptyBucket"]
  BY Kept, New, Absent, Single, Several
<1> HIDE DEF deps
<1>2. QED
  BY <1>1, EmptyingBucket DEF IncomingData, deps

EmptiedStacks ==
  {Airflow, Ec2Instance, ReplicationDestination, ReplicationSource, Rekognition,
   CloudfrontFunctions, IncomingData}

\* All of these are clean.
LEMMA EmptiedOnes == \A s \in EmptiedStacks : Clean(s)
BY AirflowClean, Ec2InstanceClean, EncryptedBucketClean, RekognitionClean,
   CloudfrontFunctionsClean, IncomingDataClean
   DEF EmptiedStacks, ReplicationDestination, ReplicationSource

\* The docs of this one say that `cdk destroy' deletes the database, which is
\* protected from that.
LEMMA PostgresUnclean == ~Clean(PostgresLambda)
<1>1. PostgresLambda.destroys = "all" /\ "cluster" \in PostgresLambda.protected
  BY Said DEF PostgresLambda
<1>2. PostgresLambda.kept = {}
  BY Silent DEF PostgresLambda
<1>3. QED
  BY <1>1, <1>2 DEF Clean

\* The examples whose docs say that `cdk destroy' destroys them are clean, with
\* one exception, which is not.
THEOREM ExamplesClean == \A s \in MCStacks : Clean(s) <=> s \notin MCUnclean
<1>1. MCStacks \ MCUnclean
        \subseteq UnsaidStacks \cup BareStacks \cup KeepingStacks \cup EmptiedStacks
  BY DEF MCStacks, MCUnclean, UnsaidStacks, BareStacks, KeepingStacks, EmptiedStacks
<1>2. \A s \in MCUnclean : ~Clean(s)
  BY PostgresUnclean DEF MCUnclean
<1>3. QED
  BY <1>1, <1>2, UnsaidOnes, BareOnes, KeepingOnes, EmptiedOnes

\* The stacks of the examples, but for those that are known to leave an order
\* open, have the orders that they rely on among their references, and all of
\* them keep the key with the data.
THEOREM ExamplesOrdered ==
  /\ \A s \in MCStacks \ MCDisordered : Ordered(s)
  /\ \A s \in MCStacks : KeyKept(s)
<1> DEFINE special == {Aurora, GlobalTableCmk, Quicksight, OpenSearchServerless,
                       CodepipelineBuildDeploy, Portfolio, ChatApp, AppSyncDynamoDb,
                       S3Vectors, WafCloudFront, WafRegional}
<1>1. \A s \in special : Ordered(s)
  BY AuroraKey, GlobalTableOrdered, QuicksightOrdered, OpenSearchOrdered, BuildDeployOrdered,
     PortfolioOrdered, ChatAppOrdered, AppSyncOrdered, S3VectorsOrdered,
     WafOrdered
<1>2. MCStacks \ MCDisordered \subseteq PlainStacks \cup special
  BY DEF MCStacks, MCDisordered, PlainStacks
<1>3. MCStacks \subseteq PlainStacks \cup KeylessStacks \cup {Aurora}
  BY DEF MCStacks, PlainStacks, KeylessStacks
<1>4. QED
  BY <1>1, <1>2, <1>3, PlainOnes, KeylessOnes, AuroraKey

\* Whatever order CloudFormation takes and whatever fails, these stacks, but for
\* the exceptions that the properties name, are not refused, miss nothing and are
\* destroyed as their docs say; all leave what is kept readable, however often
\* they are deployed.
THEOREM ExamplesDeployed ==
  ASSUME Stacks = MCStacks, Disordered = MCDisordered, Unclean = MCUnclean
  PROVE  Spec => [](NeverRefused /\ NothingMissed /\ CleanDestroy /\ KeptReadable)
<1>1. Spec => []NeverRefused
  BY ExamplesOrdered, StacksNeverRefused
<1>2. Spec => []NothingMissed
  BY ExamplesOrdered, StacksNothingMissed
<1>3. Spec => []CleanDestroy
  BY ExamplesClean, StacksCleanDestroy
<1>4. Spec => []KeptReadable
  BY ExamplesOrdered, StacksKeptReadable
<1>5. QED
  BY <1>1, <1>2, <1>3, <1>4, PTL
=============================================================================
