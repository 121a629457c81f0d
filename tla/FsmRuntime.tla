----------------------------- MODULE FsmRuntime -----------------------------
(***************************************************************************)
(* One spawned state machine: the event loop the macro generates, the      *)
(* bounded mpsc channel that feeds it, the watch channel that publishes    *)
(* its state, its cancellation token, its task, and the clients that hold  *)
(* handles.                                                                *)
(*                                                                         *)
(* The loop is one tokio task.  pc says where that task is:                *)
(*   "spawned"  handed to the scheduler, not polled yet                    *)
(*   "select"   at the outer select! of the loop                           *)
(*   "handler"  at the inner select! that races a handler with the token   *)
(*   "exit"     the run future is over, its channel ends are being dropped *)
(*   "done"     the JoinHandle has the result                              *)
(* Everything the loop does between two awaits is one action.              *)
(*                                                                         *)
(* Time is counted in ticks.  A handler's user code is a black box: it     *)
(* returns any state of its signature, fails if its signature has an       *)
(* error, panics, or never returns.                                        *)
(***************************************************************************)
EXTENDS FsmDefinition, FiniteSets

CONSTANTS
    Handlers,       \* the handlers of the impl block, in source order
    InitialState,   \* #[fsm(initial = ...)]
    ChannelSize,    \* #[fsm(channel_size = ...)]
    Client,         \* the tasks that may hold a handle
    MaxAge          \* bound: ticks after which the age of a state is not counted on

ASSUME DefinitionAssumption == IsDefinition(Handlers, InitialState)
ASSUME ChannelSizeAssumption == ChannelSize \in Nat \ {0}
ASSUME ClientAssumption == IsFiniteSet(Client)
ASSUME MaxAgeAssumption ==
    MaxAge \in Nat /\ \A i \in DOMAIN Handlers : Handlers[i].timeout <= MaxAge

VARIABLES
    pc,         \* where the task is
    state,      \* self.state
    arm,        \* the handler running at pc = "handler", else 0
    timer,      \* ticks until the sleep fires, NoTimeout when it is parked
    age,        \* ticks since the state was entered or the timer first armed
    cause,      \* why the run future is over
    queue,      \* the buffered events
    rx_open,    \* the Receiver exists
    published,  \* the value in the watch channel
    watch_open, \* the watch Sender exists
    cancelled,  \* the child token is cancelled
    task,       \* the FsmTask: "held", "joined" (awaited to its end) or "dropped"
    result,     \* what awaiting the FsmTask returned
    warned,     \* the drop warning has been logged
    live,       \* the clients that hold a handle
    op,         \* how far each client's send has come
    msg         \* the event it carries

taskVars == <<pc, state, arm, timer, age, cause>>
channelVars == <<queue, rx_open>>
watchVars == <<published, watch_open>>
ownerVars == <<task, result, warned>>
clientVars == <<live, op, msg>>
vars == <<taskVars, channelVars, watchVars, cancelled, ownerVars, clientVars>>

-----------------------------------------------------------------------------
(* The channel's semaphore: a permit is taken by a buffered event and by a *)
(* send that has reserved its slot and not yet written it.                 *)

Reserved == {c \in Client : op[c] = "reserved"}
PermitsTaken == Len(queue) + Cardinality(Reserved)
\* Mutant: an unbounded channel.
HasCapacity_Unbounded == rx_open

HasCapacity == rx_open /\ PermitsTaken < ChannelSize

-----------------------------------------------------------------------------
Init ==
    /\ pc = "spawned"
    /\ state = InitialState
    /\ arm = 0
    /\ timer = 0
    /\ age = 0
    /\ cause = "none"
    /\ queue = <<>>
    /\ rx_open = TRUE
    /\ published = InitialState
    /\ watch_open = TRUE
    /\ cancelled = FALSE
    /\ task = "held"
    /\ result = "none"
    /\ warned = FALSE
    /\ \E c \in Client : live = {c}
    /\ op = [c \in Client |-> "idle"]
    /\ msg = [c \in Client |-> NoEvent]

-----------------------------------------------------------------------------
(* The task.                                                               *)

\* Mutant: the sleep(0) is left as it was created.
Start_Unarmed ==
    /\ pc = "spawned"
    /\ task # "dropped"
    /\ pc' = "select"
    /\ age' = 0
    /\ UNCHANGED <<state, arm, timer, cause, channelVars, watchVars, cancelled, ownerVars, clientVars>>

\* The first poll: the sleep is created and armed for the initial state.
Start ==
    /\ pc = "spawned"
    /\ task # "dropped"
    /\ pc' = "select"
    /\ timer' = TimeoutOf(Handlers, state)
    /\ age' = 0
    /\ UNCHANGED <<state, arm, cause, channelVars, watchVars, cancelled, ownerVars, clientVars>>

\* The select! is unbiased: any branch that is ready may win.
SelectTimer ==
    /\ pc = "select"
    /\ timer = 0
    /\ \E i \in DOMAIN Handlers : IsTimeoutArm(Handlers, i) /\ arm' = i
    /\ pc' = "handler"
    /\ UNCHANGED <<state, timer, age, cause, channelVars, watchVars, cancelled, ownerVars, clientVars>>

\* Mutant: the token's branch says why it ends and does not return.
SelectCancelled_GoesOn ==
    /\ pc = "select"
    /\ cancelled
    /\ cause' = "cancelled"
    /\ UNCHANGED <<pc, state, arm, timer, age, channelVars, watchVars, cancelled, ownerVars, clientVars>>

SelectCancelled ==
    /\ pc = "select"
    /\ cancelled
    /\ pc' = "exit"
    /\ cause' = "cancelled"
    /\ UNCHANGED <<state, arm, timer, age, channelVars, watchVars, cancelled, ownerVars, clientVars>>

\* Mutant: events are received only while the sleep is parked.
Receive_Untimed ==
    pc = "select" /\ timer = NoTimeout /\ queue # <<>> /\ queue' = Tail(queue)

Receive == pc = "select" /\ queue # <<>> /\ queue' = Tail(queue)

RecvMatched ==
    /\ Receive
    /\ \E i \in DOMAIN Handlers : IsArm(Handlers, i, state, Head(queue)) /\ arm' = i
    /\ pc' = "handler"
    /\ UNCHANGED <<state, timer, age, cause, rx_open, watchVars, cancelled, ownerVars, clientVars>>

\* Mutant: every turn of the loop re-arms the sleep.
RecvUnmatched_Restarts ==
    /\ Receive
    /\ Unmatched(Handlers, state, Head(queue))
    /\ timer' = TimeoutOf(Handlers, state)
    /\ UNCHANGED <<pc, state, arm, age, cause, rx_open, watchVars, cancelled, ownerVars, clientVars>>

\* Mutant: an event without an arm goes back to the end of the buffer.
RecvUnmatched_Requeues ==
    /\ pc = "select"
    /\ queue # <<>>
    /\ Unmatched(Handlers, state, Head(queue))
    /\ queue' = Append(Tail(queue), Head(queue))
    /\ UNCHANGED <<taskVars, rx_open, watchVars, cancelled, ownerVars, clientVars>>

\* An event the state has no arm for is dropped; the sleep is not touched.
RecvUnmatched ==
    /\ Receive
    /\ Unmatched(Handlers, state, Head(queue))
    /\ UNCHANGED <<taskVars, rx_open, watchVars, cancelled, ownerVars, clientVars>>

\* Mutant: `continue` where the code says `break`.
SelectClosed_Continues ==
    /\ pc = "select"
    /\ live = {}
    /\ queue = <<>>
    /\ UNCHANGED vars

\* Mutant: the loop ends with the last handle, whatever is buffered.
SelectClosed_Undrained ==
    /\ pc = "select"
    /\ live = {}
    /\ pc' = "exit"
    /\ cause' = "closed"
    /\ UNCHANGED <<state, arm, timer, age, channelVars, watchVars, cancelled, ownerVars, clientVars>>

\* recv() yields None: every Sender is gone and the buffer is empty.
SelectClosed ==
    /\ pc = "select"
    /\ live = {}
    /\ queue = <<>>
    /\ pc' = "exit"
    /\ cause' = "closed"
    /\ UNCHANGED <<state, arm, timer, age, channelVars, watchVars, cancelled, ownerVars, clientVars>>

\* Mutant: a transition to the same state leaves the sleep alone.
ApplyTransition_KeepsTimer(next) ==
    /\ state' = next
    /\ published' = IF live = {} THEN published ELSE next
    /\ timer' = IF next = state THEN timer ELSE TimeoutOf(Handlers, next)
    /\ age' = 0

\* Mutant: a state without a timeout does not park the sleep.
ApplyTransition_NeverParks(next) ==
    /\ state' = next
    /\ published' = IF live = {} THEN published ELSE next
    /\ timer' = IF TimeoutOf(Handlers, next) = NoTimeout THEN timer ELSE TimeoutOf(Handlers, next)
    /\ age' = 0

\* Mutant: the state is sent to the watch channel before it is assigned.
ApplyTransition_SendsOld(next) ==
    /\ state' = next
    /\ published' = IF live = {} THEN published ELSE state
    /\ timer' = TimeoutOf(Handlers, next)
    /\ age' = 0

\* watch::Sender::send stores nothing when no Receiver is left.
ApplyTransition(next) ==
    /\ state' = next
    /\ published' = IF live = {} THEN published ELSE next
    /\ timer' = TimeoutOf(Handlers, next)
    /\ age' = 0

\* The handler returned a transition, wrapped in Ok or Err or bare.
HandlerReturn ==
    /\ pc = "handler"
    /\ \E next \in Handlers[arm].return_states : ApplyTransition(next)
    /\ pc' = "select"
    /\ arm' = 0
    /\ UNCHANGED <<cause, channelVars, watch_open, cancelled, ownerVars, clientVars>>

LeaveHandler(why) ==
    /\ pc = "handler"
    /\ pc' = "exit"
    /\ arm' = 0
    /\ cause' = why
    /\ UNCHANGED <<state, timer, age, channelVars, watchVars, cancelled, ownerVars, clientVars>>

Failure == {"error", "panic"}
MayFail(how) == how = "error" => Handlers[arm].return_kind = "ResultError"

\* Mutant: the loop returns its context where the handler returned an error.
HandlerFailsAs_Swallowed(how) ==
    pc = "handler" /\ MayFail(how) /\ LeaveHandler(IF how = "error" THEN "closed" ELSE how)

\* The handler returned an error, if its signature has one, or panicked.
HandlerFailsAs(how) == pc = "handler" /\ MayFail(how) /\ LeaveHandler(how)

\* Mutant: the handler is awaited without the inner select!.
HandlerCancelled_Unraced == FALSE /\ LeaveHandler("cancelled")

\* Mutant: the loop goes on after it dropped the handler.
HandlerCancelled_Continues ==
    /\ cancelled
    /\ pc = "handler"
    /\ pc' = "select"
    /\ arm' = 0
    /\ UNCHANGED <<state, timer, age, cause, channelVars, watchVars, cancelled, ownerVars, clientVars>>

\* The token's branch wins the inner select!: the handler's future is dropped
\* where it stands and the machine stops without a transition.
HandlerCancelled == cancelled /\ LeaveHandler("cancelled")

\* Mutant: dropping the FsmTask detaches the task.
Abort_Detaches == FALSE /\ LeaveHandler("aborted")

\* abort() takes effect when the scheduler next looks at the task.
Abort ==
    /\ task = "dropped"
    /\ pc \in {"spawned", "select", "handler"}
    /\ pc' = "exit"
    /\ arm' = 0
    /\ cause' = "aborted"
    /\ UNCHANGED <<state, timer, age, channelVars, watchVars, cancelled, ownerVars, clientVars>>

\* The locals of run() are dropped; the Receiver drains what it holds.
DropReceiver ==
    /\ pc = "exit"
    /\ rx_open
    /\ rx_open' = FALSE
    /\ queue' = <<>>
    /\ UNCHANGED <<taskVars, watchVars, cancelled, ownerVars, clientVars>>

DropStateTx ==
    /\ pc = "exit"
    /\ watch_open
    /\ watch_open' = FALSE
    /\ UNCHANGED <<taskVars, channelVars, published, cancelled, ownerVars, clientVars>>

Complete ==
    /\ pc = "exit"
    /\ ~rx_open
    /\ ~watch_open
    /\ pc' = "done"
    /\ UNCHANGED <<state, arm, timer, age, cause, channelVars, watchVars, cancelled, ownerVars, clientVars>>

\* The clock.  It matters only while the sleep is armed.
Tick ==
    /\ pc \in {"select", "handler"}
    /\ timer' = IF timer > 0 THEN timer - 1 ELSE timer
    /\ age' = IF age < MaxAge THEN age + 1 ELSE age
    /\ UNCHANGED <<pc, state, arm, cause, channelVars, watchVars, cancelled, ownerVars, clientVars>>

-----------------------------------------------------------------------------
(* The FsmTask's owner.                                                    *)

TaskResult == CASE cause \in {"closed", "cancelled"} -> "Ok"
                [] cause = "error"                   -> "Fsm"
                [] cause \in {"panic", "aborted"}    -> "Join"

\* `task.await` returns, which drops the FsmTask: its Drop logs and aborts
\* whatever the outcome.  The task being over, the abort has no effect.
AwaitTask ==
    /\ task = "held"
    /\ pc = "done"
    /\ task' = "joined"
    /\ result' = TaskResult
    /\ warned' = TRUE
    /\ UNCHANGED <<taskVars, channelVars, watchVars, cancelled, clientVars>>

DropTask ==
    /\ task = "held"
    /\ task' = "dropped"
    /\ warned' = TRUE
    /\ UNCHANGED <<taskVars, channelVars, watchVars, cancelled, result, clientVars>>

-----------------------------------------------------------------------------
(* The clients.  A send borrows the handle, so a client that is sending    *)
(* keeps it; the future may be dropped while it waits for a permit.        *)

SendBegin(c, e) ==
    /\ c \in live
    /\ op[c] = "idle"
    /\ op' = [op EXCEPT ![c] = "sending"]
    /\ msg' = [msg EXCEPT ![c] = e]
    /\ UNCHANGED <<taskVars, channelVars, watchVars, cancelled, ownerVars, live>>

SendReserve(c) ==
    /\ op[c] = "sending"
    /\ HasCapacity
    /\ op' = [op EXCEPT ![c] = "reserved"]
    /\ UNCHANGED <<taskVars, channelVars, watchVars, cancelled, ownerVars, live, msg>>

\* try_send takes its permit at once or returns an error and changes nothing.
TrySend(c, e) ==
    /\ c \in live
    /\ op[c] = "idle"
    /\ HasCapacity
    /\ op' = [op EXCEPT ![c] = "reserved"]
    /\ msg' = [msg EXCEPT ![c] = e]
    /\ UNCHANGED <<taskVars, channelVars, watchVars, cancelled, ownerVars, live>>

SendEnd(c) ==
    /\ op' = [op EXCEPT ![c] = "idle"]
    /\ msg' = [msg EXCEPT ![c] = NoEvent]

\* The reserved slot is written and the call returns Ok.  If the Receiver went
\* away meanwhile nobody will read it.
SendPush(c) ==
    /\ op[c] = "reserved"
    /\ queue' = IF rx_open THEN Append(queue, msg[c]) ELSE queue
    /\ SendEnd(c)
    /\ UNCHANGED <<taskVars, rx_open, watchVars, cancelled, ownerVars, live>>

SendRefused(c) ==
    /\ op[c] = "sending"
    /\ ~rx_open
    /\ SendEnd(c)
    /\ UNCHANGED <<taskVars, channelVars, watchVars, cancelled, ownerVars, live>>

SendAbandoned(c) ==
    /\ op[c] = "sending"
    /\ SendEnd(c)
    /\ UNCHANGED <<taskVars, channelVars, watchVars, cancelled, ownerVars, live>>

CloneHandle(c, d) ==
    /\ c \in live
    /\ d \notin live
    /\ live' = live \cup {d}
    /\ UNCHANGED <<taskVars, channelVars, watchVars, cancelled, ownerVars, op, msg>>

DropHandle(c) ==
    /\ c \in live
    /\ op[c] = "idle"
    /\ live' = live \ {c}
    /\ UNCHANGED <<taskVars, channelVars, watchVars, cancelled, ownerVars, op, msg>>

Shutdown(c) ==
    /\ c \in live
    /\ cancelled' = TRUE
    /\ UNCHANGED <<taskVars, channelVars, watchVars, ownerVars, clientVars>>

\* The parent of spawn_with_token is cancelled, and the child token with it.
ParentCancel ==
    /\ ~cancelled
    /\ cancelled' = TRUE
    /\ UNCHANGED <<taskVars, channelVars, watchVars, ownerVars, clientVars>>

-----------------------------------------------------------------------------
SelectRecv == RecvMatched \/ RecvUnmatched

HandlerFails == \E how \in Failure : HandlerFailsAs(how)

TaskNext ==
    \/ Start \/ SelectTimer \/ SelectCancelled \/ SelectClosed
    \/ HandlerCancelled \/ Abort
    \/ DropReceiver \/ DropStateTx \/ Complete

ClientNext(c) ==
    \/ \E e \in Events(Handlers) : SendBegin(c, e) \/ TrySend(c, e)
    \/ SendReserve(c) \/ SendRefused(c) \/ SendAbandoned(c)
    \/ DropHandle(c) \/ Shutdown(c)
    \/ \E d \in Client : CloneHandle(c, d)

\* The steps that neither move an event through the channel nor apply a
\* transition nor fail; the modules that keep a history treat them alike.
OtherNext ==
    \/ TaskNext
    \/ Tick
    \/ AwaitTask \/ DropTask
    \/ ParentCancel
    \/ \E c \in Client : ClientNext(c)

Next ==
    \/ SelectRecv
    \/ HandlerReturn
    \/ HandlerFails
    \/ \E c \in Client : SendPush(c)
    \/ OtherNext

Spec == Init /\ [][Next]_vars

(***************************************************************************)
(* What the scheduler owes the program.  A ready task is polled again, so  *)
(* each step of the loop is weakly fair.  A select! picks among its ready  *)
(* branches at random: a branch that stays ready until it is taken is      *)
(* taken, and one that is ready again at every poll, as recv() is while    *)
(* the buffer is not empty, is taken even if other branches win first      *)
(* (strong fairness).  The two cancelled() branches watch one token, which *)
(* never becomes uncancelled.  A permit is granted in order of arrival.    *)
(* Nothing is assumed of a handler, of a client that is not already inside *)
(* a call, or of the task's owner.                                         *)
(***************************************************************************)
Fairness ==
    /\ WF_vars(Start)
    /\ WF_vars(SelectTimer)
    /\ WF_vars(SelectCancelled \/ HandlerCancelled)
    /\ SF_vars(SelectRecv \/ SelectClosed)
    /\ WF_vars(Abort)
    /\ WF_vars(DropReceiver)
    /\ WF_vars(DropStateTx)
    /\ WF_vars(Complete)
    /\ WF_vars(Tick)
    /\ \A c \in Client : SF_vars(SendReserve(c)) /\ WF_vars(SendPush(c)) /\ WF_vars(SendRefused(c))

FairSpec == Spec /\ Fairness
-----------------------------------------------------------------------------
(* Safety.                                                                 *)

\* Every variable has its type.
TypeOK ==
    /\ pc \in {"spawned", "select", "handler", "exit", "done"}
    /\ state \in State
    /\ arm \in IF pc = "handler" THEN DOMAIN Handlers ELSE {0}
    /\ timer \in Duration
    /\ age \in 0..MaxAge
    /\ cause \in IF pc \in {"exit", "done"}
                 THEN {"closed", "cancelled", "error", "panic", "aborted"} ELSE {"none"}
    /\ queue \in Seq(Event)
    /\ rx_open \in BOOLEAN
    /\ published \in State
    /\ watch_open \in BOOLEAN
    /\ cancelled \in BOOLEAN
    /\ task \in {"held", "joined", "dropped"}
    /\ result \in {"none", "Ok", "Fsm", "Join"}
    /\ warned \in BOOLEAN
    /\ live \in SUBSET Client
    /\ op \in [Client -> {"idle", "sending", "reserved"}]
    /\ msg \in [Client -> Event \cup {NoEvent}]
    /\ \A c \in Client : op[c] # "idle" => msg[c] \in Event

\* A handler runs only in a state it was declared for: one of its #[on] states,
\* or, for on_timeout, one that has a timeout.  The state cannot change between
\* the dispatch and the handler's return.
DispatchLegal == pc = "handler" => state \in Sources(Handlers, arm)

\* While the loop runs, the one pinned sleep counts down the timeout of the
\* state the machine is in, from the moment that state was entered: no earlier
\* state's deadline survives a transition (a self-transition included), and an
\* event dropped for want of an arm neither stops nor restarts it.
TimerMatchesState ==
    pc \in {"select", "handler"} =>
        LET limit == TimeoutOf(Handlers, state)
        IN  timer = IF limit = NoTimeout THEN NoTimeout
                    ELSE IF age < limit THEN limit - age ELSE 0

\* The on_timeout handler runs only for a state that declares a timeout, and
\* only once the machine has been in that state for the whole of it.
TimeoutPunctual ==
    pc = "handler" /\ Handlers[arm].is_timeout_handler =>
        /\ state \in StatesWithTimeout(Handlers)
        /\ age >= TimeoutOf(Handlers, state)

\* As long as anyone can look, current_state() is the state the loop is in.
ObserverCurrent == live # {} => published = state

\* Refinement: seen through the watch channel, the machine moves only along the
\* edges of the graph the macro validated and never after the loop has ended.
Graph == INSTANCE FsmGraph WITH
            Edge <- Edges(Handlers),
            state <- published,
            running <- pc \notin {"exit", "done"}
GraphSpec == Graph!Spec

\* Refinement: seen by its senders, the machine is the automaton of its match arms
\* behind a bounded inbox: it neither invents nor reorders events, a handler makes
\* only the moves of the first arm that matches, whatever happens while it is
\* suspended, and a machine that has ended does nothing.
Over == pc \in {"exit", "done"}
Machine == INSTANCE FsmMachine WITH
            Delta <- Transitions(Handlers),
            Capacity <- ChannelSize,
            job <- IF arm = 0 THEN <<>> ELSE <<Handlers[arm].event>>,
            inbox <- IF Over THEN <<>> ELSE queue,
            running <- ~Over
MachineSpec == Machine!Spec

\* The logged warning says that the task was dropped before completion
\* (task.rs); so no step that logs it may find the machine complete.
WarnsOnlyBeforeCompletion == [][warned' # warned => pc # "done"]_vars

-----------------------------------------------------------------------------
(* Liveness, under FairSpec.                                               *)

\* A cancelled machine ends, whatever its handlers and its clients do: a
\* handler that never returns is dropped, a client that never stops sending
\* does not keep the loop busy.
ShutdownStops == cancelled ~> pc = "done"

\* So does a machine whose task was dropped.
AbortStops == task = "dropped" ~> pc = "done"

\* A state with a timeout is not left waiting for ever: an event is dispatched
\* or the timeout is, even under an endless stream of events that the state has
\* no arm for.
TimedStateIsLeft ==
    (pc = "select" /\ state \in StatesWithTimeout(Handlers)) ~> pc # "select"

HandlersFinish == []<>(pc # "handler")

\* If handlers finish, a machine that nobody holds a handle of works off its
\* buffer and ends, though timeouts may go on firing meanwhile.
HandlesGoneStops == HandlersFinish => (live = {} ~> pc = "done")

\* If handlers finish, every send ends: the loop frees a slot, or the Receiver
\* goes away and wakes it.
SendsResolve == HandlersFinish => \A c \in Client : op[c] # "idle" ~> op[c] = "idle"
=============================================================================
