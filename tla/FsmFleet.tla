------------------------------ MODULE FsmFleet ------------------------------
(***************************************************************************)
(* Several machines and the cancellation token their caller gave to some   *)
(* of them.  spawn_with_token puts a child of the caller's token into the  *)
(* machine and its handle; spawn does the same with a token of its own,    *)
(* which nobody keeps.                                                     *)
(*                                                                         *)
(* CancellationToken::cancel locks the token, cancels its children one by  *)
(* one and then itself; child_token takes the same lock.  Between two      *)
(* children the machines run on.  A machine is reduced to its loop, which  *)
(* FsmRuntime shows in detail: there one token and one machine, here how   *)
(* the tokens of several hang together.                                    *)
(***************************************************************************)
EXTENDS Naturals

CONSTANT Fsm

Parent == "parent"
ASSUME ParentAssumption == Parent \notin Fsm

VARIABLES
    root,       \* the caller's token: "live", "cancelling" or "cancelled"
    held,       \* the caller still has it
    linked,     \* the machines spawned with it
    children,   \* the tokens linked below it in the token tree
    token,      \* the cancelled child tokens
    loop,       \* each machine: "none", "running", "ended" or "released"
    asked       \* history: whose cancellation was requested

vars == <<root, held, linked, children, token, loop, asked>>

Init ==
    /\ root = "live"
    /\ held = TRUE
    /\ linked = {}
    /\ children = {}
    /\ token = {}
    /\ loop = [f \in Fsm |-> "none"]
    /\ asked = {}

-----------------------------------------------------------------------------
Started(f) ==
    /\ loop[f] = "none"
    /\ loop' = [loop EXCEPT ![f] = "running"]

Spawn(f) == Started(f) /\ UNCHANGED <<root, held, linked, children, token, asked>>

\* Mutant: a child of a token that is cancelled already starts live.
SpawnWithToken_Live(f) ==
    /\ held
    /\ root # "cancelling"
    /\ Started(f)
    /\ linked' = linked \cup {f}
    /\ children' = IF root = "live" THEN children \cup {f} ELSE children
    /\ UNCHANGED <<root, held, token, asked>>

\* Mutant: the machine gets a token of its own.
SpawnWithToken_Detached(f) ==
    /\ held
    /\ root # "cancelling"
    /\ Started(f)
    /\ linked' = linked \cup {f}
    /\ token' = IF root = "live" THEN token ELSE token \cup {f}
    /\ UNCHANGED <<root, held, children, asked>>

\* child_token() of a cancelled token is cancelled from the start.
SpawnWithToken(f) ==
    /\ held
    /\ root # "cancelling"
    /\ Started(f)
    /\ linked' = linked \cup {f}
    /\ children' = IF root = "live" THEN children \cup {f} ELSE children
    /\ token' = IF root = "live" THEN token ELSE token \cup {f}
    /\ UNCHANGED <<root, held, asked>>

\* The handle outlives the loop; the last of the two takes the token with it.
HasToken(f) == loop[f] \in {"running", "ended"}

\* Mutant: the handle keeps the caller's token instead of the child.
Shutdown_Parent(f) ==
    /\ HasToken(f)
    /\ asked' = asked \cup {f}
    /\ root' = IF root = "live" /\ f \in linked THEN "cancelling" ELSE root
    /\ token' = token \cup {f}
    /\ UNCHANGED <<held, linked, children, loop>>

Shutdown(f) ==
    /\ HasToken(f)
    /\ asked' = asked \cup {f}
    /\ token' = token \cup {f}
    /\ UNCHANGED <<root, held, linked, children, loop>>

\* The cancelled() branch of one of the loop's select!s.
StopCancelled(f) ==
    /\ loop[f] = "running"
    /\ f \in token
    /\ loop' = [loop EXCEPT ![f] = "ended"]
    /\ UNCHANGED <<root, held, linked, children, token, asked>>

\* The other ends: error, panic, abort, the last handle.  They cancel nothing.
StopOtherwise(f) ==
    /\ loop[f] = "running"
    /\ loop' = [loop EXCEPT ![f] = "ended"]
    /\ UNCHANGED <<root, held, linked, children, token, asked>>

\* The last handle is dropped after the loop: the token leaves the tree, under
\* its parent's lock if it is still linked.
Release(f) ==
    /\ loop[f] = "ended"
    /\ root = "cancelling" => f \notin children
    /\ loop' = [loop EXCEPT ![f] = "released"]
    /\ children' = children \ {f}
    /\ UNCHANGED <<root, held, linked, token, asked>>

-----------------------------------------------------------------------------
(* The caller.                                                             *)

CancelParent ==
    /\ held
    /\ root = "live"
    /\ root' = "cancelling"
    /\ asked' = asked \cup {Parent}
    /\ UNCHANGED <<held, linked, children, token, loop>>

CancelChild(f) ==
    /\ root = "cancelling"
    /\ f \in children
    /\ children' = children \ {f}
    /\ token' = token \cup {f}
    /\ UNCHANGED <<root, held, linked, loop, asked>>

CancelDone ==
    /\ root = "cancelling"
    /\ children = {}
    /\ root' = "cancelled"
    /\ UNCHANGED <<held, linked, children, token, loop, asked>>

\* A dropped token lets go of its children: they stay live and are never
\* cancelled through it.
DropParent ==
    /\ held
    /\ root # "cancelling"
    /\ held' = FALSE
    /\ children' = {}
    /\ UNCHANGED <<root, linked, token, loop, asked>>

Next ==
    \/ \E f \in Fsm :
        \/ Spawn(f) \/ SpawnWithToken(f) \/ Shutdown(f)
        \/ StopCancelled(f) \/ StopOtherwise(f) \/ Release(f)
        \/ CancelChild(f)
    \/ CancelParent \/ CancelDone \/ DropParent

Spec == Init /\ [][Next]_vars

\* A call of cancel() that has begun is finished, and a loop whose token is
\* cancelled ends (ShutdownStops of FsmRuntime).
Fairness ==
    /\ \A f \in Fsm : WF_vars(StopCancelled(f)) /\ WF_vars(CancelChild(f))
    /\ WF_vars(CancelDone)

FairSpec == Spec /\ Fairness
-----------------------------------------------------------------------------
TypeOK ==
    /\ root \in {"live", "cancelling", "cancelled"}
    /\ held \in BOOLEAN
    /\ linked \in SUBSET Fsm
    /\ children \in SUBSET Fsm
    /\ token \in SUBSET Fsm
    /\ loop \in [Fsm -> {"none", "running", "ended", "released"}]
    /\ asked \in SUBSET (Fsm \cup {Parent})

\* Shutting one machine down stops that machine: no sibling and not the parent
\* token ("the parent token remains untouched"), and nothing else cancels a
\* machine but the parent's cancellation, and that only what was spawned with it.
CancelledWasAsked ==
    /\ \A f \in token : f \in asked \/ (f \in linked /\ Parent \in asked)
    /\ root # "live" => Parent \in asked

\* When the parent reports that it is cancelled, no machine linked to it is left
\* out, whenever it was spawned, unless its token is gone altogether.
CancelIsComplete ==
    root = "cancelled" => \A f \in linked : f \in token \/ loop[f] = "released"

\* A parent's cancellation ends every machine spawned with it, before or after.
CancelReachesAll ==
    \A f \in Fsm : (f \in linked /\ root # "live") ~> loop[f] \in {"ended", "released"}
=============================================================================
