---------------------------- MODULE FsmObservers ----------------------------
(***************************************************************************)
(* wait_for_state: clients that wait, on a clone of their handle's watch   *)
(* receiver, until the state is the one they want.  The receiver remembers *)
(* which version of the value it has seen; changed() returns at once when  *)
(* there is a newer one, and only then looks whether the Sender is gone.   *)
(***************************************************************************)
EXTENDS FsmRuntime

VARIABLES
    wait,   \* "none", "check" (about to read), "changed" (in changed()), "Ok" or "Err"
    target, \* the state waited for
    seen    \* the receiver has seen the latest version

observerVars == <<vars, wait, target, seen>>

Waiting(c) == wait[c] \in {"check", "changed"}

ObserversInit ==
    /\ Init
    /\ wait = [c \in Client |-> "none"]
    /\ target = [c \in Client |-> InitialState]
    /\ seen = [c \in Client |-> FALSE]

\* Mutant: changed() is awaited before the value is read.
WaitBegin_ChangedFirst(c, s) ==
    /\ c \in live
    /\ wait[c] = "none"
    /\ wait' = [wait EXCEPT ![c] = "changed"]
    /\ target' = [target EXCEPT ![c] = s]
    /\ seen' = [seen EXCEPT ![c] = TRUE]
    /\ UNCHANGED vars

WaitBegin(c, s) ==
    /\ c \in live
    /\ wait[c] = "none"
    /\ wait' = [wait EXCEPT ![c] = "check"]
    /\ target' = [target EXCEPT ![c] = s]
    /\ seen' = [seen EXCEPT ![c] = FALSE]
    /\ UNCHANGED vars

\* borrow_and_update: the value is read and its version marked in one step.
WaitCheck(c) ==
    /\ wait[c] = "check"
    /\ wait' = [wait EXCEPT ![c] = IF published = target[c] THEN "Ok" ELSE "changed"]
    /\ seen' = [seen EXCEPT ![c] = TRUE]
    /\ UNCHANGED <<vars, target>>

\* Mutant: one change is taken for the one waited for.
WaitChanged_NoRecheck(c) ==
    /\ wait[c] = "changed"
    /\ \/ ~seen[c] /\ wait' = [wait EXCEPT ![c] = "Ok"]
       \/ seen[c] /\ ~watch_open /\ wait' = [wait EXCEPT ![c] = "Err"]
    /\ seen' = [seen EXCEPT ![c] = TRUE]
    /\ UNCHANGED <<vars, target>>

\* Mutant: the error of changed() is ignored.
WaitChanged_NoError(c) ==
    /\ wait[c] = "changed"
    /\ ~seen[c] \/ ~watch_open
    /\ wait' = [wait EXCEPT ![c] = "check"]
    /\ seen' = [seen EXCEPT ![c] = TRUE]
    /\ UNCHANGED <<vars, target>>

WaitChanged(c) ==
    /\ wait[c] = "changed"
    /\ \/ ~seen[c] /\ wait' = [wait EXCEPT ![c] = "check"]
       \/ seen[c] /\ ~watch_open /\ wait' = [wait EXCEPT ![c] = "Err"]
    /\ seen' = [seen EXCEPT ![c] = TRUE]
    /\ UNCHANGED <<vars, target>>

\* The caller goes on with the result, or drops the future while it waits.
WaitEnd(c) ==
    /\ wait[c] # "none"
    /\ wait' = [wait EXCEPT ![c] = "none"]
    /\ target' = [target EXCEPT ![c] = InitialState]
    /\ UNCHANGED <<vars, seen>>

\* Mutant: a transition made by the timeout handler notifies nobody.
NotifyObservers_EventsOnly ==
    seen' = IF live = {} \/ Handlers[arm].is_timeout_handler
            THEN seen ELSE [c \in Client |-> FALSE]

\* Every send on the watch channel makes a new version, of an equal value too.
NotifyObservers == seen' = IF live = {} THEN seen ELSE [c \in Client |-> FALSE]

\* wait_for_state borrows the handle: a client that waits keeps it.
HandlesInUse == \A c \in Client : wait[c] # "none" => c \in live'

ObserversNext ==
    \/ HandlerReturn /\ NotifyObservers /\ UNCHANGED <<wait, target>>
    \/ /\ SelectRecv \/ HandlerFails \/ (\E c \in Client : SendPush(c)) \/ OtherNext
       /\ HandlesInUse
       /\ UNCHANGED <<wait, target, seen>>
    \/ \E c \in Client : \/ \E s \in States(Handlers, InitialState) : WaitBegin(c, s)
                         \/ WaitCheck(c) \/ WaitChanged(c) \/ WaitEnd(c)

ObserversSpec == ObserversInit /\ [][ObserversNext]_observerVars

\* A task whose waker was called is polled.
ObserversFairSpec ==
    /\ ObserversSpec
    /\ Fairness
    /\ \A c \in Client : WF_observerVars(WaitCheck(c)) /\ WF_observerVars(WaitChanged(c))

-----------------------------------------------------------------------------
\* A wait ends in Ok only at a moment the machine is in the state waited for.
OkMeansReached ==
    [][\A c \in Client : wait[c] # "Ok" /\ wait'[c] = "Ok" => published = target[c]]_observerVars

\* A wait is told the machine is gone only if it ended in another state: one
\* that ended in the state waited for is reported, however late the waiter looks.
ErrMeansElsewhere ==
    \A c \in Client : wait[c] = "Err" => pc \in {"exit", "done"} /\ published # target[c]

\* No wakeup is lost: once the machine rests in a state for good, a wait for
\* that state ends.
RestingStateIsSeen ==
    \A c \in Client : \A s \in State :
        <>[](published = s) => (Waiting(c) /\ target[c] = s ~> ~(Waiting(c) /\ target[c] = s))

\* Nobody waits for a machine that has ended.
EndReleasesWaiters == \A c \in Client : (pc = "done" /\ Waiting(c)) ~> ~Waiting(c)

\* "Waits for the FSM to reach the specified state" (handle.rs): a wait during
\* which the machine reaches the state ends.
ReachingEndsWait ==
    \A c \in Client : (Waiting(c) /\ published = target[c]) ~> ~Waiting(c)
=============================================================================
