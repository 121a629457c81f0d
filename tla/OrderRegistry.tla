--------------------------- MODULE OrderRegistry ---------------------------
(***************************************************************************)
(* The axum example: a registry of order machines behind a mutex, and the  *)
(* HTTP requests that create, drive, read and stop them at the same time.  *)
(*                                                                         *)
(* req[r] is one request slot of the server.  Its handler is                *)
(*   "lock"      before or in its critical section (the mutex is never     *)
(*               held across an await, so the section is one step)         *)
(*   "sending"   in send() on a cloned handle, the lock released           *)
(*   "reserved"  in send(), with a slot of the channel to write            *)
(*   "removed"   between the section of stop_order and handle.shutdown()   *)
(*   "awaiting"  in task.await                                             *)
(*   "done"      answered                                                  *)
(* and "idle" when the slot is free or its client went away, whereupon the *)
(* server drops the handler's future at an await.                          *)
(*                                                                         *)
(* A machine is written after FsmMachine's automaton, with the two ends of *)
(* FsmRuntime the example can bring about, a cancelled token and a dropped *)
(* task, and the moment between the loop's end and the Receiver's drop.    *)
(***************************************************************************)
EXTENDS RepositoryMachines, FiniteSets

CONSTANTS
    OrderId,
    Request,
    ChannelSize,
    Route,          \* bound: the event routes the clients use
    MaxSpawns       \* bound: machines spawned in a behaviour

ASSUME OrderIdAssumption == OrderId # {}
ASSUME ChannelSizeAssumption == ChannelSize \in Nat \ {0}
Sends == [validate |-> "Validate", charge |-> "Charge", ship |-> "Ship"]
ASSUME RouteAssumption == Route \subseteq DOMAIN Sends
ASSUME MaxSpawnsAssumption == MaxSpawns \in Nat

OrderStates == {"Created", "Validated", "Charged", "Shipped", "Failed"}
OrderEvents == {"Validate", "Charge", "Ship", "Error"}
OrderHandlers ==
    <<On("Validate", {"Created"}, "Transition", {"Validated"}, -1),
      On("Charge", {"Validated"}, "Transition", {"Charged"}, -1),
      On("Ship", {"Charged"}, "Transition", {"Shipped"}, -1),
      On("Error", {"Created", "Validated", "Charged"}, "Transition", {"Failed"}, -1)>>

Definition == INSTANCE FsmDefinition WITH
                State <- OrderStates, Event <- OrderEvents, NoEvent <- "none"
ASSUME OrdersAreAccepted == Definition!IsDefinition(OrderHandlers, "Created")

OrderTransitions == Definition!Transitions(OrderHandlers)
Moves(s, label) == {t \in OrderStates : <<s, label, t>> \in OrderTransitions}

VARIABLES
    orders,     \* the HashMap: each id's machine, or 0
    spawned,    \* how many machines have been spawned
    state,      \* each machine's state,
    job,        \* the event its handler runs on,
    inbox,      \* and its buffered events
    over,       \* the machines whose loop has ended,
    closed,     \* and those of them whose Receiver is dropped
    stopping,   \* the machines whose token is cancelled
    aborted,    \* the machines whose task was dropped
    req

machineVars == <<state, job, inbox, over, closed>>
vars == <<orders, spawned, machineVars, stopping, aborted, req>>

Machine == 1..MaxSpawns
Op == {"create", "status", "stop"} \cup Route

\* A slot without a request: its other fields mean nothing.
Free == [at |-> "idle", op |-> "status", id |-> CHOOSE i \in OrderId : TRUE, m |-> 0, reply |-> 0]

Init ==
    /\ orders = [i \in OrderId |-> 0]
    /\ spawned = 0
    /\ state = [m \in Machine |-> "Created"]
    /\ job = [m \in Machine |-> <<>>]
    /\ inbox = [m \in Machine |-> <<>>]
    /\ over = {}
    /\ closed = {}
    /\ stopping = {}
    /\ aborted = {}
    /\ req = [r \in Request |-> Free]

-----------------------------------------------------------------------------
Arrive(r, op, i, m) ==
    /\ req[r].at \in {"idle", "done"}
    /\ req' = [req EXCEPT ![r] = [at |-> "lock", op |-> op, id |-> i, m |-> m, reply |-> 0]]
    /\ UNCHANGED <<orders, machineVars, stopping, aborted>>

\* create_order spawns before it locks.
Create(r, i) ==
    /\ spawned < MaxSpawns
    /\ spawned' = spawned + 1
    /\ Arrive(r, "create", i, spawned + 1)

Call(r, op, i) == op # "create" /\ Arrive(r, op, i, 0) /\ UNCHANGED spawned

Goes(r, at, m, reply) ==
    req' = [req EXCEPT ![r] =
        [at |-> at, op |-> req[r].op, id |-> req[r].id, m |-> m, reply |-> reply]]

Reply(r, code) == Goes(r, "done", req[r].m, code)

\* Request r holds the lock and the map gives its id machine m, or none (0).
Section(r, op, m) == req[r].at = "lock" /\ req[r].op = op /\ orders[req[r].id] = m

Insert(r) ==
    /\ Section(r, "create", 0)
    /\ orders' = [orders EXCEPT ![req[r].id] = req[r].m]
    /\ Reply(r, 201)
    /\ UNCHANGED <<spawned, machineVars, stopping, aborted>>

\* Mutant: the loser's task is detached.
Conflict_Detaches(r) ==
    /\ \E m \in Machine : Section(r, "create", m)
    /\ Reply(r, 409)
    /\ UNCHANGED <<orders, spawned, machineVars, stopping, aborted>>

\* Mutant: `if let Some(old) = orders.insert(..)`, the look after the insert.
Conflict_Replaces(r) ==
    /\ \E m \in Machine : Section(r, "create", m)
    /\ orders' = [orders EXCEPT ![req[r].id] = req[r].m]
    /\ aborted' = aborted \cup {orders[req[r].id]}
    /\ Reply(r, 409)
    /\ UNCHANGED <<spawned, machineVars, stopping>>

\* The id exists: the handle and the task just made are dropped.
Conflict(r) ==
    /\ \E m \in Machine : Section(r, "create", m)
    /\ aborted' = aborted \cup {req[r].m}
    /\ Reply(r, 409)
    /\ UNCHANGED <<orders, spawned, machineVars, stopping>>

NotFound(r) ==
    /\ \E op \in Op \ {"create"} : Section(r, op, 0)
    /\ Reply(r, 404)
    /\ UNCHANGED <<orders, spawned, machineVars, stopping, aborted>>

\* send_event clones the handle under the lock and lets go of it.
CloneHandle(r) ==
    /\ \E op \in Route, m \in Machine :
        /\ Section(r, op, m)
        /\ Goes(r, "sending", m, 0)
    /\ UNCHANGED <<orders, spawned, machineVars, stopping, aborted>>

Status(r) ==
    /\ \E m \in Machine : Section(r, "status", m)
    /\ Reply(r, 200)
    /\ UNCHANGED <<orders, spawned, machineVars, stopping, aborted>>

\* Mutant: the entry is read and left in the map.
Remove_Keeps(r) ==
    /\ \E m \in Machine :
        /\ Section(r, "stop", m)
        /\ Goes(r, "removed", m, 0)
    /\ UNCHANGED <<orders, spawned, machineVars, stopping, aborted>>

Remove(r) ==
    /\ \E m \in Machine :
        /\ Section(r, "stop", m)
        /\ Goes(r, "removed", m, 0)
    /\ orders' = [orders EXCEPT ![req[r].id] = 0]
    /\ UNCHANGED <<spawned, machineVars, stopping, aborted>>

\* Mutant: stop_order awaits the task without handle.shutdown().
Shutdown_Forgotten(r) ==
    /\ req[r].at = "removed"
    /\ Goes(r, "awaiting", req[r].m, 0)
    /\ UNCHANGED <<orders, spawned, machineVars, stopping, aborted>>

Shutdown(r) ==
    /\ req[r].at = "removed"
    /\ stopping' = stopping \cup {req[r].m}
    /\ Goes(r, "awaiting", req[r].m, 0)
    /\ UNCHANGED <<orders, spawned, machineVars, aborted>>

\* Mutant: the task is dropped instead of awaited.
Stopped_Unawaited(r) ==
    /\ req[r].at = "awaiting"
    /\ aborted' = aborted \cup {req[r].m}
    /\ Reply(r, 200)
    /\ UNCHANGED <<orders, spawned, machineVars, stopping>>

\* task.await returns, whatever the result.
Stopped(r) ==
    /\ req[r].at = "awaiting"
    /\ req[r].m \in closed
    /\ Reply(r, 200)
    /\ UNCHANGED <<orders, spawned, machineVars, stopping, aborted>>

\* The channel of FsmRuntime: buffered events and reserved slots hold a permit.
HasSlot(m) ==
    /\ m \notin closed
    /\ Len(inbox[m]) + Cardinality({r \in Request : req[r].at = "reserved" /\ req[r].m = m}) < ChannelSize

Reserve(r) ==
    /\ req[r].at = "sending"
    /\ HasSlot(req[r].m)
    /\ Goes(r, "reserved", req[r].m, 0)
    /\ UNCHANGED <<orders, spawned, machineVars, stopping, aborted>>

\* The slot is written and send returns Ok, though the Receiver may have gone.
Push(r) ==
    /\ req[r].at = "reserved"
    /\ inbox' = IF req[r].m \in closed THEN inbox
                ELSE [inbox EXCEPT ![req[r].m] = Append(@, Sends[req[r].op])]
    /\ Reply(r, 200)
    /\ UNCHANGED <<orders, spawned, state, job, over, closed, stopping, aborted>>

\* FsmClosed: the Receiver was dropped before the send got a slot.
Gone(r) ==
    /\ req[r].at = "sending"
    /\ req[r].m \in closed
    /\ Reply(r, 410)
    /\ UNCHANGED <<orders, spawned, machineVars, stopping, aborted>>

\* The request owns the task of a machine that is not in the map.
Owns(r, m) ==
    /\ req[r].m = m
    /\ \/ req[r].at = "lock" /\ req[r].op = "create"
       \/ req[r].at \in {"removed", "awaiting"}

\* The client goes away: whatever the handler owned is dropped where it waits.
Disconnect(r) ==
    /\ req[r].at \in {"lock", "sending", "awaiting"}
    /\ req' = [req EXCEPT ![r] = Free]
    /\ aborted' = aborted \cup {m \in Machine : Owns(r, m)}
    /\ UNCHANGED <<orders, spawned, machineVars, stopping>>

-----------------------------------------------------------------------------
(* The machines.                                                           *)

Running(m) == m <= spawned /\ m \notin over

Take(m) ==
    /\ Running(m)
    /\ job[m] = <<>>
    /\ inbox[m] # <<>>
    /\ inbox' = [inbox EXCEPT ![m] = Tail(@)]
    /\ job' = [job EXCEPT ![m] = IF Moves(state[m], Head(inbox[m])) = {} THEN <<>>
                                  ELSE <<Head(inbox[m])>>]
    /\ UNCHANGED <<orders, spawned, state, over, closed, stopping, aborted, req>>

Finish(m) ==
    /\ Running(m)
    /\ job[m] # <<>>
    /\ \E next \in Moves(state[m], job[m][1]) : state' = [state EXCEPT ![m] = next]
    /\ job' = [job EXCEPT ![m] = <<>>]
    /\ UNCHANGED <<orders, spawned, inbox, over, closed, stopping, aborted, req>>

End(m) ==
    /\ Running(m)
    /\ m \in stopping \cup aborted
    /\ over' = over \cup {m}
    /\ job' = [job EXCEPT ![m] = <<>>]
    /\ UNCHANGED <<orders, spawned, state, inbox, closed, stopping, aborted, req>>

\* The Receiver drains what it holds; only then is the task over.
DropReceiver(m) ==
    /\ m \in over \ closed
    /\ closed' = closed \cup {m}
    /\ inbox' = [inbox EXCEPT ![m] = <<>>]
    /\ UNCHANGED <<orders, spawned, state, job, over, stopping, aborted, req>>

InSection(r) ==
    Insert(r) \/ Conflict(r) \/ NotFound(r) \/ CloneHandle(r) \/ Status(r) \/ Remove(r)

Next ==
    \/ \E r \in Request :
        \/ \E i \in OrderId : Create(r, i) \/ \E op \in Op : Call(r, op, i)
        \/ Insert(r) \/ Conflict(r) \/ NotFound(r) \/ CloneHandle(r) \/ Status(r) \/ Remove(r)
        \/ Shutdown(r) \/ Stopped(r) \/ Reserve(r) \/ Push(r) \/ Gone(r) \/ Disconnect(r)
    \/ \E m \in Machine : Take(m) \/ Finish(m) \/ End(m) \/ DropReceiver(m)

Spec == Init /\ [][Next]_vars

(***************************************************************************)
(* The runtime polls a handler that can go on, the mutex and the channel's *)
(* semaphore serve their waiters in order of arrival, the order machine's  *)
(* handlers only sleep and return, and a machine that is cancelled or      *)
(* aborted ends (ShutdownStops and AbortStops of FsmRuntime).              *)
(***************************************************************************)
Fairness ==
    /\ \A r \in Request :
        /\ WF_vars(InSection(r) \/ Shutdown(r) \/ Stopped(r) \/ Push(r) \/ Gone(r))
        /\ SF_vars(Reserve(r))
    /\ \A m \in Machine :
        WF_vars(Take(m) \/ Finish(m)) /\ WF_vars(End(m)) /\ WF_vars(DropReceiver(m))

FairSpec == Spec /\ Fairness
-----------------------------------------------------------------------------
At == {"idle", "lock", "sending", "reserved", "removed", "awaiting", "done"}
Code == {0, 200, 201, 404, 409, 410}
Slot == [at : At, op : Op, id : OrderId, m : Machine \cup {0}, reply : Code]

TypeOK ==
    /\ orders \in [OrderId -> Machine \cup {0}]
    /\ spawned \in 0..MaxSpawns
    /\ state \in [Machine -> OrderStates]
    /\ job \in [Machine -> Seq(OrderEvents)]
    /\ inbox \in [Machine -> Seq(OrderEvents)]
    /\ over \in SUBSET Machine
    /\ closed \in SUBSET Machine
    /\ stopping \in SUBSET Machine
    /\ aborted \in SUBSET Machine
    /\ req \in [Request -> Slot]

\* A machine that runs and was not aborted has one owner, who can still stop it:
\* the map, for one id, or one request.  Racing creates of one id, a client that
\* disconnects anywhere, a stop that races with all of them: none leaks a machine
\* and no two of them hold the same.
Owners(m) ==
    ({"map"} \X {i \in OrderId : orders[i] = m}) \cup ({"request"} \X {r \in Request : Owns(r, m)})
OneOwner ==
    \A m \in Machine : Running(m) /\ m \notin aborted => \E o \in Owners(m) : Owners(m) = {o}

\* An order in the map has a machine that serves it: it runs, and nobody has
\* asked it to stop.
RegisteredIsLive ==
    \A i \in OrderId :
        orders[i] # 0 => Running(orders[i]) /\ orders[i] \notin stopping \cup aborted

\* Whoever is told that the order was stopped and cleaned up can rely on it: the
\* machine is over.
StoppedIsOver ==
    \A r \in Request :
        req[r].at = "done" /\ req[r].op = "stop" /\ req[r].reply = 200 => req[r].m \in over

\* Only a stop that has taken an order out of the map ends its machine: no step
\* cancels or aborts a machine the map held before it.  A create that loses its
\* race ends the machine it spawned itself, a client that goes away what its own
\* request owned.
RegisteredIsSpared ==
    [][\A i \in OrderId : orders[i] # 0 => orders[i] \notin stopping' \cup aborted']_vars

\* A send that is told "already closed" met a machine that is no order any more:
\* whatever raced with it, the id is free or another machine's by then.
GoneIsFree ==
    \A r \in Request : req[r].at = "done" /\ req[r].reply = 410 => \A i \in OrderId : orders[i] # req[r].m

\* Every request that stays connected is answered, whatever the others do: a
\* send to a full machine, to one being stopped or to one already gone included.
EveryRequestAnswered ==
    \A r \in Request : req[r].at \in {"lock", "sending", "reserved", "removed", "awaiting"}
                         ~> req[r].at \in {"done", "idle"}
=============================================================================
