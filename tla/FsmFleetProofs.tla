--------------------------- MODULE FsmFleetProofs ---------------------------
(***************************************************************************)
(* The cancellation of several machines, for any number of them.           *)
(***************************************************************************)
EXTENDS FsmFleet, TLAPS

\* While the caller has its token uncancelled, or is cancelling it, every linked
\* machine whose token is in use is still below it or cancelled already.  Only a
\* holder can cancel, so a dropped token owes nothing to its children.
LinkedAreReached ==
    held \/ root # "live" =>
        \A f \in linked : f \in children \/ f \in token \/ loop[f] = "released"

ChildrenAreLinked == children \subseteq linked

CancelledHasNoChildren == root = "cancelled" => children = {}

IInv ==
    /\ TypeOK
    /\ LinkedAreReached
    /\ ChildrenAreLinked
    /\ CancelledHasNoChildren
    /\ CancelledWasAsked

LEMMA InitIInv == Init => IInv
BY DEF Init, IInv, TypeOK, LinkedAreReached, ChildrenAreLinked, CancelledHasNoChildren, CancelledWasAsked

LEMMA NextIInv == IInv /\ [Next]_vars => IInv'
<1> SUFFICES ASSUME IInv, [Next]_vars PROVE IInv'
  OBVIOUS
<1> USE DEF IInv, TypeOK, LinkedAreReached, ChildrenAreLinked, CancelledHasNoChildren, CancelledWasAsked
<1>1. ASSUME NEW f \in Fsm, Spawn(f) PROVE IInv'
  BY <1>1 DEF Spawn, Started
<1>2. ASSUME NEW f \in Fsm, SpawnWithToken(f) PROVE IInv'
  BY <1>2 DEF SpawnWithToken, Started
<1>3. ASSUME NEW f \in Fsm, Shutdown(f) PROVE IInv'
  BY <1>3 DEF Shutdown
<1>4. ASSUME NEW f \in Fsm, StopCancelled(f) \/ StopOtherwise(f) PROVE IInv'
  BY <1>4 DEF StopCancelled, StopOtherwise
<1>5. ASSUME NEW f \in Fsm, Release(f) PROVE IInv'
  BY <1>5 DEF Release
<1>6. ASSUME NEW f \in Fsm, CancelChild(f) PROVE IInv'
  BY <1>6 DEF CancelChild
<1>7. CASE CancelParent
  BY <1>7 DEF CancelParent
<1>8. CASE CancelDone
  BY <1>8 DEF CancelDone
<1>9. CASE DropParent
  BY <1>9 DEF DropParent
<1>10. CASE UNCHANGED vars
  BY <1>10 DEF vars
<1> QED
  BY <1>1, <1>2, <1>3, <1>4, <1>5, <1>6, <1>7, <1>8, <1>9, <1>10 DEF Next

\* A machine is cancelled only by its own shutdown or by the parent it was
\* spawned with, and no machine cancels its parent.
THEOREM CancellationIsolated == Spec => []CancelledWasAsked
<1>1. IInv => CancelledWasAsked
  BY DEF IInv
<1> QED BY <1>1, InitIInv, NextIInv, PTL DEF Spec

\* A cancelled parent leaves no linked machine uncancelled.
THEOREM CancellationComplete == Spec => []CancelIsComplete
<1>1. IInv => CancelIsComplete
  BY DEF IInv, LinkedAreReached, CancelledHasNoChildren, CancelIsComplete
<1> QED BY <1>1, InitIInv, NextIInv, PTL DEF Spec
=============================================================================
