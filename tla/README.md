# tokio-fsm: specification and verification

`tokio-fsm` turns an `impl` block into a finite state machine that runs as one
tokio task. It has two halves: a procedural macro that parses the block, checks
it as a graph and generates code, and the generated code itself: an event loop
over a bounded channel, a watch channel, a timer and a cancellation token. This
directory holds TLA+ models of both halves and of the axum example that uses
them, the TLC runs that check them on the machines of the repository's tests and
examples, and TLAPS proofs of the safety properties for every machine.

Paths below are relative to the repository; `impls/` stands for
`tokio-fsm-macros/src/codegen/impls/`.

## The system

| part | code | state it keeps | operations | talks to |
|---|---|---|---|---|
| parser | `validation/parser.rs`, `attrs.rs` | handlers so far, payload type per event | check the arguments, the associated types, begin a method, read one attribute, end a method | validator |
| graph validator | `validation/graph.rs` | durations per state, graph, search stack | four checks, one search step | code generator |
| event loop | `impls/run.rs`, `impls/helpers.rs` | `self.state`, the pinned sleep, where it is suspended | first poll, three `select!` branches, handler result | all channels |
| event channel | `impls/handle.rs`, `impls/spawn.rs` | buffer, permits, open ends | send, try_send, recv, clone and drop of a handle | loop, clients |
| watch channel | `impls/handle.rs`, `impls/helpers.rs` | value, version, open ends | send, borrow, changed | loop, clients |
| token | `impls/spawn.rs`, `impls/handle.rs` | cancelled or not, its place below the caller's token | spawn with or without a parent, shutdown, cancellation and drop of the parent | loop, sibling machines |
| task | `impls/task.rs` | JoinHandle | await, drop | loop |
| public types | `src/core.rs` | none | `Transition`, `TaskError` | users |
| axum example | `examples/axum_fsm` | a locked map of machines, the requests in flight | create, send, stop, status, a client that disconnects | machines, through handles and tasks |

What makes it hard, and what must hold:

* **The `select!` of the loop is unbiased and the sleep is shared by all
  states.** A timer that is due and an event that is there race; the loser must
  not act on the state the winner left. A transition must re-arm or park the
  sleep; an event nobody handles must not touch it.
* **Handlers suspend.** A cancellation may win against a handler in the middle of
  it; a handler may fail, panic or never return.
* **Sends suspend.** A send waits for a permit, is abandoned, is overtaken by the
  end of the machine. Events may not be lost, doubled or reordered while the
  loop lives, and the end of the loop must wake whoever waits.
* **Observers see only the latest state.** A waiter must not lose a wakeup between
  reading the value and waiting for the next, and must not wait for a machine
  that is gone.
* **Ownership ends the machine.** Dropping the task aborts, dropping the last
  handle drains, cancelling stops: from any point of the loop.
* **Machines hang together by their tokens.** Cancelling the parent happens child by
  child while machines are spawned, shut down and end; it must miss none, and a
  shutdown must reach only its own machine.
* **A registry shares machines.** Requests race for one order: the machine is made
  before the lock is taken, used after it is released, ended after it left the map,
  and the server may drop a request at any await. No machine may leak, and no
  request may hang.
* **The macro promises a graph.** Every state is reachable, no state has two
  timeouts, every timeout can be handled; the run of the machine must stay in it.

## Modules

| module | what it is |
|---|---|
| `FsmDefinition` | the parsed handler and everything derived from a sequence of handlers: dispatch (`IsArm`, `Unmatched`), timeouts (`TimeoutOf`), the graph (`Edges`, `Reaches`) and what a valid definition is (`IsValid`, `IsDefinition`). No state. |
| `FsmGraph` | abstract: a machine walks along the edges of a graph until it stops. What an observer sees. |
| `FsmMachine` | abstract: an automaton with a transition relation behind a bounded inbox, until it ends. What a sender sees. |
| `FsmRuntime` | one spawned machine with its channels, its owner and its clients; safety, refinement of `FsmGraph` and of `FsmMachine`, fairness, liveness |
| `FsmDelivery` | `FsmRuntime` with two histories, the events sent and the events taken |
| `FsmOutcome` | `FsmRuntime` with a history of how a handler failed |
| `FsmObservers` | `FsmRuntime` with clients in `wait_for_state` |
| `FsmFleet` | several machines and the token tree they hang in |
| `OrderRegistry` | the axum example: the map, the requests, and for each order a machine written after `FsmMachine` |
| `FsmValidation` | the macro's argument check, parser and validator, step by step, against `FsmDefinition` |
| `RepositoryMachines` | machines of the tests and examples as handler sequences |
| `MCRuntime`, `MCOutcome`, `MCDelivery`, `MCObservers`, `MCValidation` | the instances for TLC (`FsmFleet` and `OrderRegistry` are instantiated by their .cfg alone) |
| `FsmDefinitionProofs`, `FsmRuntimeProofs`, `FsmHistoryProofs`, `FsmObserversProofs`, `FsmValidationProofs`, `FsmParserProofs`, `FsmFleetProofs`, `OrderRegistryProofs` | theorems |

### How they compose

    FsmValidation --accepts--> IsDefinition (FsmDefinition)
                                    | assumed by
                                    v
    FsmGraph <--implements--    FsmRuntime    --implements--> FsmMachine
                                    ^
             extended by FsmDelivery, FsmOutcome, FsmObservers

The runtime assumes of its definition what `AcceptedCorrect` proves of all the macro
accepts. `OrderRegistry` and `FsmFleet` stand beside it and reduce a machine to what their
properties tell apart. A machine of `OrderRegistry` is written after the automaton that `FsmRuntime` is
shown to implement, `FsmMachine`, with two details of the runtime that a sender sees: a slot is reserved before it is
written, and the Receiver outlives the loop. That is a reading of the runtime, not
a refinement that is checked. `FsmFleet` reduces a machine
to whether its loop runs, and takes from the runtime that a cancelled loop ends.

### How `FsmRuntime` corresponds to the code

The loop is one task, so everything between two awaits is one action. `pc` is
where it is suspended: not polled yet, at the outer `select!` (run.rs:84), at the
inner `select!` around a handler (helpers.rs:94), over with its channel ends
being dropped, or complete.

| action | code |
|---|---|
| `Start` | the first poll: sleep created, armed for the initial state (run.rs:78-81) |
| `SelectTimer`, `SelectCancelled`, `RecvMatched`, `RecvUnmatched`, `SelectClosed` | the branches of the outer `select!` (run.rs:83-100) |
| `HandlerReturn` | the handler's future is ready; `apply_transition` assigns the state, publishes it and resets the sleep without an await in between (helpers.rs:62-88) |
| `HandlerFailsAs` (an error or a panic), `HandlerCancelled` | the other ends of a handler (helpers.rs:92-99, 134-142) |
| `DropReceiver`, `DropStateTx`, `Complete` | the locals of `run` are dropped, each visible by itself to clients on other threads |
| `AwaitTask`, `DropTask`, `Abort` | `FsmTask` (task.rs); an abort takes effect when the task is next scheduled |
| `SendBegin`, `SendReserve`, `SendPush`, `SendRefused`, `SendAbandoned`, `TrySend` | `send` and `try_send` (handle.rs:12-21): tokio reserves a permit, then writes the slot; the future may be dropped while it waits |
| `CloneHandle`, `DropHandle`, `Shutdown`, `ParentCancel` | handles and tokens (structs.rs, handle.rs:41, spawn.rs:52) |
| `Tick` | time passes |

### How `FsmValidation` corresponds to the code

The macro is a sequential program that stops at the first error, so `phase` is where it
is: at the arguments (`CheckArgs`, attrs.rs:12-34), at the associated types (`CheckTypes`,
parser.rs:241-278), between methods, inside one, at each check of `validate()`.
`Handler::parse` is one step per attribute: `ParseBegins` (parser.rs:9-20) sets its local
variables, here `parsed`; `ParseOn`, `ParseOnTimeout`, `ParseStateTimeout` and
`ParseMalformed` are the branches of the attribute loop (23-67), with `looked` the
loop's position; `ParseEnds` is what follows (69-112) and the loop body around it (290-336), its
errors in the order of the code. `CheckContract` and `CheckConsistency` are the checks
of graph.rs:39-73 and 136-165, `SearchVisit` one turn of petgraph's depth-first search.
Tokens are abstract: an attribute is well formed or malformed, a type is the name of its
outermost constructor and of its arguments.

### How `FsmFleet` corresponds to the code

`SpawnWithToken` is `spawn_named_with_token` with the caller's token: `child_token()` links
a live child below a live parent and returns a cancelled one below a cancelled
parent (spawn.rs:49). `Spawn` gives the machine a token nobody else has (spawn.rs:18, 24).
`CancellationToken::cancel` is three actions, because tokio-util cancels the children one
after the other under the parent's lock and machines on other threads run on in
between: `CancelParent`, `CancelChild` for each, `CancelDone`. While it lasts `child_token` waits
for the lock, hence the guard of `SpawnWithToken`. `Release` and `DropParent` are tokens dropped.

### How `OrderRegistry` corresponds to the code

A request is where its handler is suspended. The mutex is never held across an await, so
each critical section is one step: `Insert`, `Conflict` (main.rs:138-142), `NotFound`, `CloneHandle`
(107-110), `Status` (187-190), `Remove` (198-200). Outside the lock are `Create` (the machine is spawned
first, 136), `Reserve`, `Push` and `Gone` (112), `Shutdown` and `Stopped` (202-203). `Disconnect` drops the handler's
future at an await and with it the handle and the task it owned, which aborts the
machine. A send is as in `FsmRuntime`: a slot is reserved and then written, so it may return Ok
after the loop has ended, and is refused only once the Receiver is gone. `Take`, `Finish`, `End` and
`DropReceiver` are steps of a machine; in this program a machine's last
handle goes only with its task or after `shutdown()`, so there is no other end.
A handler of this machine neither fails nor panics (its error type is `Infallible`).

tokio itself is not in the repository. Its channels, abort and timer are modelled
from how the generated code uses them and marked external in the map.

The state a handler works on (`Context`) and event payloads are not modelled: the
generated code never looks at them. The states a handler may return are those of
its signature, all of them possible at any time.

Time is a count-down `timer`, and `age` measures independently how long the state
has lasted; the properties relate the two. "No timeout" is the code's park for a
hundred years, a value that no tick brings nearer.

## Runs

| run | instance | what it asks |
|---|---|---|
| `runtime_safety` | `IntegrationFsm`, 2 clients, buffer of 1 | `DispatchLegal`: only declared handlers run. `TimerMatchesState`: the sleep counts down the timeout of the current state since its entry. `TimeoutPunctual`: `on_timeout` runs neither early nor for a state without a timeout. `ObserverCurrent`: a handle reads the state of the loop. `GraphSpec`, `MachineSpec`: the machine implements `FsmGraph` and `FsmMachine`. |
| `runtime_liveness` | `WorkerFsm`, 2 clients, buffer of 2 | `ShutdownStops`, `AbortStops`: cancelling or dropping ends the machine, hung handlers, floods and endless timeouts included. `TimedStateIsLeft`: unhandled events do not put off a timeout for ever. `HandlesGoneStops`, `SendsResolve`: the last drop ends the machine and no send hangs. |
| `runtime_failure` | `ErrorPropagationFsm`, 2 clients, buffer of 1 | `ResultTellsTheEnd`: awaiting the task tells an error and a panic of a handler as what they were, and Ok only of a machine that was asked to stop and whose handlers did not fail, whatever races with its end. |
| `delivery` | `WorkerFsm`, 2 clients, buffer of 2, 3 sends | `InOrderOnce`: what was sent is what was taken followed by what is buffered. `DrainedOnClose`: an end for want of handles loses nothing. `LossIsBounded`: any other end loses at most the last `channel_size` of them. `SentIsTaken`: the n-th event is taken or the machine ends. |
| `observers_safety` | `MyFsm`, 2 clients | `OkMeansReached`, `ErrMeansElsewhere`: both answers of `wait_for_state` are true of the machine. |
| `observers_liveness` | `TimeoutChainFsm`, 1 client | `RestingStateIsSeen`: no lost wakeup. `EndReleasesWaiters`: nobody waits for a machine that is gone. |
| `validation` | over 20000 impl blocks | `AcceptedIsDefinition`, `RejectedIsInvalid`: the macro accepts exactly the well-formed blocks whose graph is valid. `VerdictIsRight`: so does `validate()` for whatever handlers it is given. `EveryStepProgresses`: each step decreases a lexicographic measure of what is left to do. `VerdictIsReached`: it always answers. |
| `fleet` | 3 machines | `CancelledWasAsked`: a shutdown reaches neither siblings nor the parent. `CancelIsComplete`: a cancelled parent has missed no machine. `CancelReachesAll`: all that were spawned with it end. |
| `orders` | 1 order, 2 requests, 2 machines, buffer of 1 | `OneOwner`: a running machine can be stopped by exactly one owner, or is aborted. `RegisteredIsLive`: the map has running machines only. `RegisteredIsSpared`: nothing but the stop that took an order out of the map ends its machine. `StoppedIsOver`: a successful stop means the machine has ended. `GoneIsFree`: a send refused as closed met a machine that is in the map no more. `EveryRequestAnswered`: no request hangs. |
| `warn_after_completion` | | finding 1 |
| `wait_misses_state` | | finding 2 |
| `shadowed_arm` | | finding 3 |

The `Name_Variant` operators beside a definition (`Conflict_Detaches` beside `Conflict`, and so
on) are plausible mistakes in the code it models. Put in its place, each makes the
run report one of its properties as violated: the properties can fail.

### Bounds, and why they are enough

* `MaxAge`: where the age of a state stops counting. It is at least every timeout
  (assumed in the module), so no comparison can tell larger ages apart.
* One tick is the unit of the machine's timeouts (50 ms in the tests); two
  ticks leave room for a timeout half over.
* `ChannelSize` 1 and 2: a full and an empty buffer, with 2 also a buffer of
  different events, and a reservation beside a buffered event.
* Two clients: two sends race for one permit, one blocks while the other is
  written, one drops its handle while the other keeps its own. Clients behave
  alike; the safety run uses that symmetry.
* `MaxSends` 3: one more than the buffer holds, so that a send blocks. It stops
  clients from beginning a send and nothing else, so it takes nothing from the
  fairness.
* `MaxMethods` 3 and three states: a state armed twice with a method in between,
  a cycle, a shadowed arm, a timeout handler before and after the methods that
  arm. Malformed methods come in every order, up to three of them, with each other and with
  well-formed ones: each kind of error before, after and between the others.
* `validation` also gives every channel size out of none, 0 and 1, every set of associated types
  and a type that is not a path to a block that would be accepted and to one that would not.
* `Fsm` of three: one machine that is shut down, a sibling, and one spawned while or after the
  parent is cancelled.
* `OrderRegistry`: the entries of different ids never touch each other (every action reads and writes
  one id), so one id has all conflicts. Two requests give every pair of operations
  on it, and a slot that is answered is used again. `MaxSpawns` 2 is a machine
  and its rival, or a machine and its successor under the same id. The three event
  routes differ only in the event; one is used, so the second send finds a full
  inbox or an event without an arm. The theorems have no such bounds.
* Which machines: `IntegrationFsm` has two timed states, a self-transition and a
  handler for two states; `WorkerFsm` has a `Result` of two states and a timeout that
  re-arms itself; `TimeoutChainFsm` has a timeout that leads to a timed state;
  `ErrorPropagationFsm` can fail; `MyFsm` comes back
  to its first state, so that a change is seen when it is undone. The proofs cover all others for safety.

### Fairness

`FairSpec` states what tokio owes the program:

* a task whose waker was called is polled again: weak fairness of each step of the
  loop, of the drops at its end and of a waiter's steps;
* `select!` picks at random among the ready branches: `recv()`, which can be ready
  at one poll and lose to another branch, is strongly fair; the timer and
  the token stay ready until taken, so weak fairness suffices (a timeout that is
  due is reset only by a transition, which leaves the state);
* permits are granted in order of arrival: a send that can get one again and
  again gets it (strong fairness);
* time passes.

`FsmFleet` assumes that a call of `cancel()` once begun is finished, and that a loop whose token
is cancelled ends, which is `ShutdownStops` of the runtime. `OrderRegistry` assumes that a handler
that can go on is polled, that a send that has its slot writes it, that a waiting send gets a slot that is free again and again
(permits in order of arrival), that its machines' handlers, which only sleep, finish, and that a
cancelled or aborted machine ends (`ShutdownStops`, `AbortStops`). Nothing is assumed of the clients.

For the runtime nothing is assumed of a handler, of the owner of the task, or of a client that has
not begun a call. The properties about draining and blocked sends are stated under
the premise `HandlersFinish`, because a handler that hangs does block the loop; the
ones about shutdown and abort have no such premise. They do rest on a handler that
awaits: one that blocks its thread never gives the token a chance, as in
any async code.

## What is proved

For every accepted definition, channel size, finite set of clients and number of
sends. The assumptions are those of the modules: the definition is one the validator
accepts (`DefinitionAssumption`, which `AcceptedCorrect` proves of the macro), a channel
size above zero (tokio panics on zero), finitely many clients, and an age bound no
timeout exceeds.

* `FsmRuntimeProofs`: `TypeCorrect`, `TimerCorrect`, `TimeoutCorrect`, `DispatchCorrect`,
  `ObserverCorrect` from one inductive invariant

      IInv == TypeOK /\ DispatchLegal /\ TimerMatchesState
                     /\ TimeoutPunctual /\ ObserverCurrent

  No part is inductive alone. That a timeout handler runs punctually needs, at
  `SelectTimer`, that a timer at zero means the state's own timeout is over, which is
  `TimerMatchesState`; this in turn needs the type of the timer. That the
  published move is an edge needs `DispatchLegal`: the handler that returns was
  started in the state the loop is still in, a timeout handler in a state with a
  timeout. The steps that leave the timer, the state and the published value alone are
  handled by one lemma. The clause of `TypeOK` that ties `arm` to `pc` is what makes
  `Handlers[arm]` meaningful.
* `ResultCorrect` (in `FsmHistoryProofs`): the loop's `cause` tells how its handler failed
  (`CauseTellsFailure`), and why the loop ended stays true until the task is awaited
  (`EndIsAsked`): a token stays cancelled, and no handle can appear after the last. A task
  that was aborted was dropped (`AbortedIsDropped`), so an abort is never an answer.
* `SendersAreServed`: no circle of waiting. A send that cannot get a slot faces a full semaphore, whose
  permits belong to buffered events, which a loop that is not over can take or drop, or to
  reservations, whose owners wait for nobody; a machine that is over has closed its
  channel (`EndClosesAll`). With fairness this is `SendsResolve`.
* `ImplementsGraph`: `Spec => GraphSpec`. `HandlerReturn` maps to `Move` (or to a stutter
  when nobody observes), the steps to `exit` map to `Stop`, all others stutter.
* `FsmDefinitionProofs`: `EveryArmingAgrees` (the generated code lets the first
  method decide a state's timeout, and the validator makes all agree) and
  `TimedStatesAreHandled` (a sleep that fires finds a handler). They rest on the
  existence of the first handler with a property, by well-foundedness of the naturals.
  `TransitionsAreEdges`: the loop makes no move outside of the graph that was validated.
  `DistinctArmsReachAll`: if no two handlers name the same state and event the converse
  holds, and every state is reached by events and timeouts.
* `FsmHistoryProofs`: `DeliveryInOrder`, `DeliveryDrained`. Besides the properties the
  invariant says that the Receiver outlives the loop, that whoever sends holds a
  handle, and that a loop that ended for want of handles leaves none. Without the second,
  an abandoned handle could still write after the loop saw the channel closed.
* `DeliveryLossBounded`: a send returns Ok when its slot is written, even if the Receiver
  has gone since the slot was reserved, so the events that may be lost are those sent and not taken
  plus the reservations. `AheadIsBounded` says that these never exceed `channel_size`. To be
  preserved by a reservation it needs `InOrderOnce`: while the Receiver lives, what is
  ahead of the loop is what is buffered, which is what the semaphore counts.
* `ImplementsMachine`: `Spec => MachineSpec`. What must be known beyond `IInv` is that only arms
  that match are run (`ArmIsFirst`: no earlier handler has the pair) and that the
  Receiver is open while the loop runs (`LoopReceives`), so that the inbox of the mapping, empty when
  the loop is over, is the buffer before. A permit moves from a reservation to the buffer
  when a slot is written (`QueueBounded`), so the inbox has room for it.
* `FsmObserversProofs`: `WaitOkCorrect`, `WaitErrorCorrect`. The invariant relates the version a waiter
  has seen to the latest: a waiter that is parked has seen a value that is not its target, and one that
  sees the missing Sender has seen the last.
  From the same invariant `WaitersAreWoken`: whoever sleeps in `changed()` does so in another state than the one
  waited for, and not past the end of the machine. With fairness these are `RestingStateIsSeen` and
  `EndReleasesWaiters`.
* `FsmValidationProofs`: `ValidatorCorrect`. `ConsistencyChecked`: comparing each method with the first that
  arms the same state finds a conflict exactly if there is one. `VisitKeepsSearchInv` and `SearchDecides`: the search
  finds nothing outside of any set closed under the edges (it is sound), and the
  successors of what it visited are visited or on the stack (it is complete when the
  stack is empty). It assumes of the identifiers that they are finitely many.
* `FsmParserProofs`: `AcceptedCorrect`, `RejectedCorrect`: for every impl block made of methods with
  well-typed attributes (`ImplBlockAssumption`) the macro accepts it exactly if it is well
  formed and the handlers it declares are a valid definition. The parser reads attributes
  in order and stops at the first error, the definition of `WellFormed` looks at all of them at
  once, and the two meet in the inductive invariant

      ParseInv == FrameInv /\ MethodsInv /\ AttrsInv /\ VerdictInv

  `AttrsInv` relates the local variables of `Handler::parse` to the attributes looked at so far
  (`ReadSoFar`): the sources are those of the `#[on]`s read, no two alike, all with the one event;
  the duration is that of the last `#[state_timeout]` read. `MethodsInv` says that each handler
  parsed so far is the one its method declares and that the payloads seen agree. `FrameInv`
  keeps what the earlier phases established, `VerdictInv` what a rejection means. The
  verdict of `validate()` comes from the invariant of `FsmValidationProofs`. The parse is a step per
  attribute, so no induction over data is needed: the steps are the induction.
* `MacroTerminates`: each step decreases `Remaining` in the lexicographic order of six
  naturals: phases left, methods left, between methods or inside one, attributes left,
  undiscovered states, stack. `VerdictIsReached` follows
  if the macro keeps running, but well-founded liveness is left to TLC.
* `UnshadowedStatesAreReachable`: the promise that finding 3 refutes holds of every accepted block
  without shadowed arms, so shadowing is its only cause.
* `FsmFleetProofs`: `CancellationIsolated`, `CancellationComplete`. The invariant: as long as the caller
  holds its token or is cancelling it, every machine linked to it is still a child, or cancelled, or
  released (`LinkedAreReached`). A dropped token owes its children nothing: nobody can cancel it any more.
* `OrderRegistryProofs`: five theorems from one invariant. `OneOwner` splits in the map's entries being distinct
  (`MapIsInjective`), the map and a request never owning the same machine (`MapOwnsAlone`), two requests
  neither (`RequestOwnsAlone`), and somebody owning each (`SomeOwner`); a machine a create has not registered
  yet is live (`CreatedIsLive`), and a machine that refused a send is over (`GoneIsOver`). One lemma covers all steps of a request that owns nothing, another all that let go.
  `OrdersAreAccepted`, an assumption TLC evaluates, is that the macro accepts the example's machine.

Together: a block the macro accepts is a definition in the sense of `IsDefinition`
(`AcceptedCorrect`), for which alone the runtime is proved; the runtime implements `FsmGraph` and `FsmMachine`
(`ImplementsGraph`, `ImplementsMachine`).

Model-checked only: liveness, since fairness and `ENABLED` are out of the prover's reach
(`ShutdownStops`, `AbortStops`, `TimedStateIsLeft`, `HandlesGoneStops`, `SendsResolve`, `SentIsTaken`,
`RestingStateIsSeen`, `EndReleasesWaiters`, `VerdictIsReached`, `CancelReachesAll`,
`EveryRequestAnswered`). Every invariant and every action property of a passing run is
proved.

## Findings

1. `warn_after_completion`: with tracing enabled the drop of the `FsmTask` logs "FSM task
   dropped before completion; aborting execution. Did you forget to retain the
   task handle?" (task.rs:33) also when the drop is the end of `task.await` on a
   machine that is complete. The abort that follows is harmless; the message is wrong.
2. `wait_misses_state`: `wait_for_state` ("Waits for the FSM to reach the specified
   state.", handle.rs:28) misses a state the machine enters and leaves before the
   waiter is scheduled, and then may wait for ever. The watch channel keeps only the latest
   value.
3. `shadowed_arm`: two handlers may name the same state and event. The generated `match`
   never takes the second, but the reachability graph has its edge, so a state that no
   sequence of events reaches is accepted, against
   `examples/validation_comparison/README.md:26-29`.

## Not modelled

* User code in handlers, contexts, payload values, names of machines, spans.
* Shape checks of single macro arguments, the rendering of enums and structs, serde
  derives: no behaviour.
* Overflow of `Instant + Duration` for a timeout of astronomic length.
* Events that are dropped by design: buffered ones at a shutdown, an error or an
  abort. `InOrderOnce` is about the loop's life only; an order's event that was answered
  with 200 may be lost to a later stop.
* A second machine for an id whose first is still ending after a stop: the
  example allows it (see the hazards), and so does the model.
* The manual implementations in `examples/comparison.rs`, `examples/validation_comparison` and
  `benches`: they show what the macro replaces.
* A nested token tree (a parent that is itself a child): tokio-util's cancellation of a subtree
  is one more level of the same loop.

## Plan

Done, in this order: `FsmDefinition`, `FsmGraph`, `FsmRuntime` with its proofs, `FsmDelivery` with its
proofs, `FsmObservers`, `FsmValidation`; then `FsmMachine` as the second abstraction of the runtime,
`FsmFleet`, `OrderRegistry`, and the proofs of these, of the observers and of the validator; then the
parser attribute by attribute with its proofs, the bound on what an early end loses, and `FsmOutcome`, what is
told of an end.

Left: a registry run with two ids or three requests, whose safety the theorems cover
already.
