------------------------ MODULE OrderRegistryProofs ------------------------
(***************************************************************************)
(* The order registry, for any set of ids, any number of requests and of   *)
(* machines, and any channel size.                                         *)
(***************************************************************************)
EXTENDS OrderRegistry, TLAPS

\* A request that creates has a machine nobody else knows of.
CreatedIsLive ==
    \A r \in Request :
        req[r].at = "lock" /\ req[r].op = "create" =>
            req[r].m # 0 /\ Running(req[r].m) /\ req[r].m \notin stopping \cup aborted

\* A handle in a request is a handle of a machine that was spawned.
HandlesAreSpawned ==
    /\ \A r \in Request :
        req[r].at \in {"sending", "reserved", "removed", "awaiting"} => req[r].m # 0 /\ req[r].m <= spawned
    /\ \A r \in Request : req[r].at \in {"sending", "reserved"} => req[r].op \in Route
    /\ over \cup stopping \cup aborted \subseteq 1..spawned
    /\ closed \subseteq over

\* A send is refused by a machine that is over, and an over machine stays so.
GoneIsOver ==
    \A r \in Request : req[r].at = "done" /\ req[r].reply = 410 => req[r].m \in over

MapIsInjective == \A i, j \in OrderId : orders[i] # 0 /\ orders[i] = orders[j] => i = j

MapOwnsAlone == \A i \in OrderId, r \in Request : orders[i] # 0 => ~Owns(r, orders[i])

RequestOwnsAlone ==
    \A r, s \in Request, m \in Machine : Owns(r, m) /\ Owns(s, m) => r = s

SomeOwner ==
    \A m \in Machine : Running(m) /\ m \notin aborted =>
        (\E i \in OrderId : orders[i] = m) \/ (\E r \in Request : Owns(r, m))

IInv ==
    /\ TypeOK
    /\ CreatedIsLive
    /\ HandlesAreSpawned
    /\ MapIsInjective
    /\ MapOwnsAlone
    /\ RequestOwnsAlone
    /\ SomeOwner
    /\ RegisteredIsLive
    /\ StoppedIsOver
    /\ GoneIsOver

\* The parts of the invariant a step of a request or a machine must restore.
Restored ==
    /\ CreatedIsLive' /\ HandlesAreSpawned' /\ MapIsInjective' /\ MapOwnsAlone'
    /\ RequestOwnsAlone' /\ SomeOwner' /\ RegisteredIsLive' /\ StoppedIsOver' /\ GoneIsOver'

-----------------------------------------------------------------------------
LEMMA RoutesSend ==
    /\ "create" \notin Route /\ "stop" \notin Route /\ "status" \notin Route
    /\ \A op \in Route : Sends[op] \in OrderEvents
BY RouteAssumption DEF Sends, OrderEvents

LEMMA FreeType == Free \in Slot
BY OrderIdAssumption DEF Free, Op, Slot, At, Code

LEMMA InitIInv == Init => IInv
<1> SUFFICES ASSUME Init PROVE IInv
  OBVIOUS
<1>1. TypeOK
  BY FreeType, MaxSpawnsAssumption DEF Init, TypeOK, OrderStates, Machine
<1>2. \A r \in Request : req[r].at = "idle"
  BY DEF Init, Free
<1>3. /\ CreatedIsLive /\ HandlesAreSpawned /\ RequestOwnsAlone /\ StoppedIsOver /\ GoneIsOver
      /\ MapIsInjective /\ MapOwnsAlone /\ RegisteredIsLive
  BY <1>2 DEF Init, CreatedIsLive, HandlesAreSpawned, RequestOwnsAlone, StoppedIsOver, GoneIsOver, Owns,
              MapIsInjective, MapOwnsAlone, RegisteredIsLive
<1>4. SomeOwner
  BY DEF Init, SomeOwner, Running, Machine
<1> QED BY <1>1, <1>3, <1>4 DEF IInv

\* What a step makes of the slot of its request.
LEMMA SlotStep ==
    ASSUME req \in [Request -> Slot], NEW r \in Request, NEW at \in At,
           NEW m \in Machine \cup {0}, NEW code \in Code, Goes(r, at, m, code)
    PROVE  /\ req' \in [Request -> Slot]
           /\ req'[r].at = at /\ req'[r].m = m /\ req'[r].reply = code
           /\ req'[r].op = req[r].op /\ req'[r].id = req[r].id
           /\ \A s \in Request : s # r => req'[s] = req[s]
BY DEF Goes, Slot

LEMMA ReplyStep ==
    ASSUME req \in [Request -> Slot], NEW r \in Request, NEW code \in Code, Reply(r, code)
    PROVE  /\ req' \in [Request -> Slot]
           /\ req'[r].at = "done" /\ req'[r].m = req[r].m /\ req'[r].reply = code
           /\ req'[r].op = req[r].op /\ req'[r].id = req[r].id
           /\ \A s \in Request : s # r => req'[s] = req[s]
<1>1. req[r].m \in Machine \cup {0} /\ "done" \in At
  BY DEF Slot, At
<1> QED BY <1>1, SlotStep DEF Reply

LEMMA ArriveStep ==
    ASSUME req \in [Request -> Slot], NEW r \in Request, NEW op \in Op, NEW i \in OrderId,
           NEW m \in Machine \cup {0}, Arrive(r, op, i, m)
    PROVE  /\ req' \in [Request -> Slot]
           /\ req'[r].at = "lock" /\ req'[r].m = m /\ req'[r].op = op
           /\ \A s \in Request : s # r => req'[s] = req[s]
BY DEF Arrive, Slot, At, Code

LEMMA NextTypeOK == IInv /\ [Next]_vars => TypeOK'
<1> SUFFICES ASSUME IInv, [Next]_vars PROVE TypeOK'
  OBVIOUS
<1> USE DEF TypeOK, machineVars
<1>0. /\ 200 \in Code /\ 201 \in Code /\ 404 \in Code /\ 409 \in Code /\ 410 \in Code /\ 0 \in Code
      /\ "sending" \in At /\ "reserved" \in At /\ "removed" \in At /\ "awaiting" \in At
      /\ TypeOK /\ CreatedIsLive /\ HandlesAreSpawned /\ \A r \in Request : req[r].m \in Machine \cup {0}
  BY DEF IInv, Slot, At, Code
<1>1. ASSUME NEW r \in Request, NEW i \in OrderId, Create(r, i) PROVE TypeOK'
  <2>1. spawned + 1 \in Machine /\ spawned' \in 0..MaxSpawns /\ "create" \in Op
    BY <1>0, <1>1, MaxSpawnsAssumption DEF Create, Machine, Op
  <2> QED BY <1>0, <1>1, <2>1, ArriveStep DEF Create, Arrive
<1>2. ASSUME NEW r \in Request, NEW i \in OrderId, NEW op \in Op, Call(r, op, i) PROVE TypeOK'
  BY <1>0, <1>2, ArriveStep DEF Call, Arrive
<1>3. ASSUME NEW r \in Request, Insert(r) PROVE TypeOK'
  BY <1>0, <1>3, ReplyStep DEF Insert
<1>4. ASSUME NEW r \in Request, Conflict(r) PROVE TypeOK'
  BY <1>0, <1>4, ReplyStep DEF Conflict, Section, CreatedIsLive
<1>5. ASSUME NEW r \in Request, NotFound(r) \/ Status(r) \/ Stopped(r) \/ Gone(r) PROVE TypeOK'
  BY <1>0, <1>5, ReplyStep DEF NotFound, Status, Stopped, Gone
<1>6. ASSUME NEW r \in Request, CloneHandle(r) \/ Reserve(r) PROVE TypeOK'
  BY <1>0, <1>6, SlotStep DEF CloneHandle, Reserve
<1>7. ASSUME NEW r \in Request, Remove(r) PROVE TypeOK'
  BY <1>0, <1>7, SlotStep DEF Remove
<1>8. ASSUME NEW r \in Request, Shutdown(r) PROVE TypeOK'
  <2>1. req[r].m \in Machine
    BY <1>0, <1>8 DEF Shutdown, HandlesAreSpawned
  <2>2. req' \in [Request -> Slot]
    BY <1>0, <1>8, SlotStep DEF Shutdown
  <2> QED BY <1>0, <1>8, <2>1, <2>2 DEF Shutdown
<1>9. ASSUME NEW r \in Request, Push(r) PROVE TypeOK'
  <2>1. req[r].m \in Machine /\ Sends[req[r].op] \in OrderEvents
    BY <1>0, <1>9, RoutesSend DEF Push, HandlesAreSpawned
  <2>2. inbox' \in [Machine -> Seq(OrderEvents)]
    BY <1>0, <1>9, <2>1 DEF Push
  <2> QED BY <1>0, <1>9, <2>2, ReplyStep DEF Push
<1>10. ASSUME NEW r \in Request, Disconnect(r) PROVE TypeOK'
  BY <1>0, <1>10, FreeType DEF Disconnect
<1>11. ASSUME NEW m \in Machine, Take(m) PROVE TypeOK'
  BY <1>0, <1>11 DEF Take
<1>12. ASSUME NEW m \in Machine, Finish(m) PROVE TypeOK'
  BY <1>0, <1>12 DEF Finish, Moves
<1>13. ASSUME NEW m \in Machine, End(m) \/ DropReceiver(m) PROVE TypeOK'
  <2>1. CASE End(m)
    BY <1>0, <2>1 DEF End
  <2>2. CASE DropReceiver(m)
    <3>1. inbox' \in [Machine -> Seq(OrderEvents)] /\ closed' \in SUBSET Machine
      BY <1>0, <2>2 DEF DropReceiver
    <3> QED BY <1>0, <2>2, <3>1 DEF DropReceiver
  <2> QED BY <1>13, <2>1, <2>2
<1>14. CASE UNCHANGED vars
  BY <1>0, <1>14 DEF vars
<1> QED
  BY <1>1, <1>2, <1>3, <1>4, <1>5, <1>6, <1>7, <1>8, <1>9, <1>10, <1>11, <1>12, <1>13, <1>14 DEF Next

\* A request that owns no machine before its step and none after it.
LEMMA BystanderStep ==
    ASSUME IInv, NEW r \in Request, UNCHANGED <<orders, spawned, over, closed, stopping, aborted>>,
           req' \in [Request -> Slot], \A s \in Request : s # r => req'[s] = req[s],
           ~(req[r].at = "lock" /\ req[r].op = "create"), req[r].at \notin {"removed", "awaiting"},
           ~(req'[r].at = "lock" /\ req'[r].op = "create"), req'[r].at \notin {"removed", "awaiting"},
           req'[r].at \in {"sending", "reserved"} =>
                req'[r].m # 0 /\ req'[r].m <= spawned /\ req'[r].op \in Route,
           ~(req'[r].at = "done" /\ req'[r].op = "stop" /\ req'[r].reply = 200),
           req'[r].at = "done" /\ req'[r].reply = 410 => req'[r].m \in over
    PROVE  Restored
<1>1. \A m : ~Owns(r, m) /\ ~Owns(r, m)'
  BY DEF Owns
<1>2. \A s \in Request : \A m : Owns(s, m)' <=> Owns(s, m)
  BY <1>1 DEF Owns
<1>3. CreatedIsLive' /\ HandlesAreSpawned' /\ StoppedIsOver' /\ GoneIsOver'
  BY DEF IInv, CreatedIsLive, HandlesAreSpawned, StoppedIsOver, GoneIsOver, Running
<1>4. MapIsInjective' /\ RegisteredIsLive'
  BY DEF IInv, MapIsInjective, RegisteredIsLive, Running
<1>5. MapOwnsAlone' /\ RequestOwnsAlone' /\ SomeOwner'
  BY <1>2 DEF IInv, MapOwnsAlone, RequestOwnsAlone, SomeOwner, Running
<1> QED BY <1>3, <1>4, <1>5 DEF Restored

\* A request that lets go of the machine it owned, which is over or aborted.
LEMMA ReleasingStep ==
    ASSUME IInv, NEW r \in Request, UNCHANGED <<orders, spawned, over, closed, stopping>>,
           \A s \in Request : s # r => req'[s] = req[s],
           req'[r].at \in {"idle", "done"},
           req'[r].at = "done" /\ req'[r].op = "stop" /\ req'[r].reply = 200 => req'[r].m \in over,
           req'[r].at = "done" => req'[r].reply # 410,
           aborted \subseteq aborted',
           \A m \in aborted' : m \in aborted \/ Owns(r, m),
           \A m \in Machine : Owns(r, m) => m \in over \/ m \in aborted'
    PROVE  Restored
<1>1. \A m : ~Owns(r, m)'
  BY DEF Owns
<1>2. \A s \in Request : \A m : s # r => (Owns(s, m)' <=> Owns(s, m))
  BY DEF Owns
<1>3. CreatedIsLive'
  <2> SUFFICES ASSUME NEW s \in Request, req'[s].at = "lock", req'[s].op = "create"
               PROVE  (req[s].m # 0 /\ Running(req[s].m) /\ req[s].m \notin stopping \cup aborted)'
    BY DEF CreatedIsLive
  <2>1. s # r /\ req'[s] = req[s]
    OBVIOUS
  <2>2. req[s].m # 0 /\ Running(req[s].m) /\ req[s].m \notin stopping \cup aborted
    BY <2>1 DEF IInv, CreatedIsLive
  <2>3. Owns(s, req[s].m) /\ req[s].m \in Machine
    BY <2>1, <2>2 DEF Owns, IInv, TypeOK, Slot
  <2>4. ~Owns(r, req[s].m)
    BY <2>1, <2>3 DEF IInv, RequestOwnsAlone
  <2> QED BY <2>1, <2>2, <2>4 DEF Running
<1>4. HandlesAreSpawned' /\ StoppedIsOver' /\ GoneIsOver'
  <2>1. \A m : Owns(r, m) => m \in Machine \cup {0} /\ m # 0 /\ m <= spawned
    BY DEF Owns, IInv, TypeOK, Slot, CreatedIsLive, HandlesAreSpawned, Running
  <2>2. aborted' \subseteq 1..spawned
    BY <2>1 DEF IInv, TypeOK, HandlesAreSpawned, Machine
  <2>3. over' \cup stopping' \cup aborted' \subseteq 1..spawned'
    BY <2>2 DEF IInv, HandlesAreSpawned
  <2>4. \A s \in Request : req'[s].at \in {"sending", "reserved", "removed", "awaiting"} => s # r
    OBVIOUS
  <2>5. HandlesAreSpawned'
    BY <2>3, <2>4 DEF IInv, HandlesAreSpawned
  <2> QED BY <2>5 DEF IInv, StoppedIsOver, GoneIsOver
<1>5. MapIsInjective'
  BY DEF IInv, MapIsInjective
<1>6. RegisteredIsLive'
  BY DEF IInv, RegisteredIsLive, MapOwnsAlone, Running
<1>7. MapOwnsAlone' /\ RequestOwnsAlone'
  BY <1>1, <1>2 DEF IInv, MapOwnsAlone, RequestOwnsAlone
<1>8. SomeOwner'
  BY <1>1, <1>2 DEF IInv, SomeOwner, Running
<1> QED BY <1>3, <1>4, <1>5, <1>6, <1>7, <1>8 DEF Restored

\* A step of a machine.
LEMMA MachineStep ==
    ASSUME IInv, UNCHANGED <<orders, spawned, stopping, aborted, req>>,
           over \subseteq over', over' \subseteq 1..spawned, closed' \subseteq over',
           \A m \in over' : m \in over \/ m \in stopping \cup aborted
    PROVE  Restored
<1>1. \A r \in Request : \A m : Owns(r, m)' <=> Owns(r, m)
  BY DEF Owns
<1>2. CreatedIsLive' /\ HandlesAreSpawned' /\ StoppedIsOver' /\ GoneIsOver'
  BY DEF IInv, CreatedIsLive, HandlesAreSpawned, StoppedIsOver, GoneIsOver, Running
<1>3. MapIsInjective' /\ RegisteredIsLive'
  BY DEF IInv, MapIsInjective, RegisteredIsLive, Running
<1>4. MapOwnsAlone' /\ RequestOwnsAlone' /\ SomeOwner'
  BY <1>1 DEF IInv, MapOwnsAlone, RequestOwnsAlone, SomeOwner, Running
<1> QED BY <1>2, <1>3, <1>4 DEF Restored

LEMMA CreateStep ==
    ASSUME IInv, NEW r \in Request, NEW i \in OrderId, Create(r, i)
    PROVE  Restored
<1> DEFINE m == spawned + 1
<1>1. /\ m \in Machine /\ spawned' = m /\ spawned \in Nat
      /\ UNCHANGED <<orders, over, closed, stopping, aborted>>
      /\ req'[r].at = "lock" /\ req'[r].op = "create" /\ req'[r].m = m
      /\ \A s \in Request : s # r => req'[s] = req[s]
  BY MaxSpawnsAssumption, ArriveStep DEF Create, IInv, TypeOK, Machine, machineVars, Op, Arrive
<1>2. m \notin over \cup stopping \cup aborted /\ m # 0
  BY <1>1 DEF IInv, HandlesAreSpawned
<1>3. \A s \in Request : s # r => ~Owns(s, m) /\ \A n : Owns(s, n)' <=> Owns(s, n)
  BY <1>1 DEF Owns, IInv, TypeOK, Slot, CreatedIsLive, HandlesAreSpawned, Running
<1>4. \A n : Owns(r, n)' <=> n = m
  BY <1>1 DEF Owns
<1>5. \A j \in OrderId : orders[j] # m
  BY <1>1 DEF IInv, TypeOK, RegisteredIsLive, Running
<1>6. \A n \in Machine : n <= spawned => n <= spawned'
  BY <1>1 DEF Machine
<1>7. CreatedIsLive'
  <2> SUFFICES ASSUME NEW s \in Request, req'[s].at = "lock", req'[s].op = "create"
               PROVE  (req[s].m # 0 /\ Running(req[s].m) /\ req[s].m \notin stopping \cup aborted)'
    BY DEF CreatedIsLive
  <2>1. CASE s = r
    BY <1>1, <1>2, <2>1 DEF Running
  <2>2. CASE s # r
    BY <1>1, <1>6, <2>2 DEF IInv, TypeOK, Slot, CreatedIsLive, Running
  <2> QED BY <2>1, <2>2
<1>8. HandlesAreSpawned' /\ StoppedIsOver' /\ GoneIsOver'
  <2>1. over' \cup stopping' \cup aborted' \subseteq 1..spawned'
    BY <1>1 DEF IInv, HandlesAreSpawned
  <2>2. \A s \in Request : req'[s].at \in {"sending", "reserved", "removed", "awaiting"} =>
            req'[s].m # 0 /\ req'[s].m <= spawned'
    BY <1>1, <1>6 DEF IInv, TypeOK, Slot, HandlesAreSpawned
  <2>3. HandlesAreSpawned'
    BY <1>1, <2>1, <2>2 DEF IInv, HandlesAreSpawned
  <2> QED BY <1>1, <2>3 DEF IInv, StoppedIsOver, GoneIsOver
<1>9. MapIsInjective' /\ RegisteredIsLive'
  BY <1>1, <1>6 DEF IInv, TypeOK, MapIsInjective, RegisteredIsLive, Running
<1>10. MapOwnsAlone' /\ RequestOwnsAlone'
  BY <1>1, <1>3, <1>4, <1>5 DEF IInv, MapOwnsAlone, RequestOwnsAlone
<1>11. SomeOwner'
  <2> SUFFICES ASSUME NEW n \in Machine, Running(n)', n \notin aborted'
               PROVE  (\E j \in OrderId : orders'[j] = n) \/ (\E s \in Request : Owns(s, n)')
    BY DEF SomeOwner
  <2>1. CASE n = m
    BY <1>4, <2>1
  <2>2. CASE n # m
    <3>1. Running(n) /\ n \notin aborted
      BY <1>1, <2>2 DEF Running, Machine
    <3>2. ~Owns(r, n)
      BY DEF Owns, Create, Arrive
    <3> QED BY <1>1, <1>3, <3>1, <3>2 DEF IInv, SomeOwner
  <2> QED BY <2>1, <2>2
<1> QED BY <1>7, <1>8, <1>9, <1>10, <1>11 DEF Restored

LEMMA InsertStep ==
    ASSUME IInv, NEW r \in Request, Insert(r)
    PROVE  Restored
<1> DEFINE i == req[r].id
           m == req[r].m
<1>1. /\ i \in OrderId /\ orders[i] = 0 /\ orders' = [orders EXCEPT ![i] = m]
      /\ req[r].at = "lock" /\ req[r].op = "create"
      /\ UNCHANGED <<spawned, over, closed, stopping, aborted>>
  BY DEF Insert, Section, machineVars, IInv, TypeOK, Slot
<1>2. /\ m # 0 /\ m \in Machine /\ Running(m) /\ m \notin stopping \cup aborted
      /\ Owns(r, m) /\ \A n : Owns(r, n) => n = m
  BY <1>1 DEF IInv, CreatedIsLive, Owns, TypeOK, Slot
<1>3. /\ req'[r].at = "done" /\ req'[r].reply = 201
      /\ \A s \in Request : s # r => req'[s] = req[s]
  BY ReplyStep DEF Insert, IInv, TypeOK, Code
<1>4. \A n : ~Owns(r, n)'
  BY <1>3 DEF Owns
<1>5. \A s \in Request : \A n : s # r => (Owns(s, n)' <=> Owns(s, n))
  BY <1>3 DEF Owns
<1>6. orders'[i] = m /\ \A j \in OrderId : j # i => orders'[j] = orders[j]
  BY <1>1 DEF IInv, TypeOK
<1>7. CreatedIsLive' /\ HandlesAreSpawned' /\ StoppedIsOver' /\ GoneIsOver'
  BY <1>1, <1>3 DEF IInv, CreatedIsLive, HandlesAreSpawned, StoppedIsOver, GoneIsOver, Running
<1>8. MapIsInjective'
  BY <1>2, <1>6 DEF IInv, MapIsInjective, MapOwnsAlone
<1>9. RegisteredIsLive'
  BY <1>1, <1>2, <1>6 DEF IInv, RegisteredIsLive, Running
<1>10. MapOwnsAlone' /\ RequestOwnsAlone'
  BY <1>2, <1>4, <1>5, <1>6 DEF IInv, MapOwnsAlone, RequestOwnsAlone
<1>11. SomeOwner'
  <2> SUFFICES ASSUME NEW n \in Machine, Running(n), n \notin aborted
               PROVE  (\E j \in OrderId : orders'[j] = n) \/ (\E s \in Request : Owns(s, n)')
    BY <1>1 DEF SomeOwner, Running
  <2>1. CASE n = m
    BY <1>1, <1>6, <2>1
  <2>2. CASE n # m
    <3>1. CASE \E j \in OrderId : orders[j] = n
      <4>1. PICK j \in OrderId : orders[j] = n
        BY <3>1
      <4>2. j # i
        BY <1>1, <4>1 DEF Machine
      <4> QED BY <1>6, <4>1, <4>2
    <3>2. CASE \E s \in Request : Owns(s, n)
      BY <1>2, <1>5, <2>2, <3>2
    <3> QED BY <3>1, <3>2 DEF IInv, SomeOwner
  <2> QED BY <2>1, <2>2
<1> QED BY <1>7, <1>8, <1>9, <1>10, <1>11 DEF Restored

LEMMA RemoveStep ==
    ASSUME IInv, NEW r \in Request, Remove(r)
    PROVE  Restored
<1> DEFINE i == req[r].id
<1>1. PICK m \in Machine : Section(r, "stop", m) /\ Goes(r, "removed", m, 0)
  BY DEF Remove
<1>2. /\ i \in OrderId /\ orders[i] = m /\ m # 0 /\ orders' = [orders EXCEPT ![i] = 0]
      /\ req[r].at = "lock" /\ req[r].op = "stop"
      /\ UNCHANGED <<spawned, over, closed, stopping, aborted>>
  BY <1>1 DEF Remove, Section, machineVars, IInv, TypeOK, Slot, Machine
<1>3. /\ req'[r].at = "removed" /\ req'[r].m = m
      /\ \A s \in Request : s # r => req'[s] = req[s]
  BY <1>1, SlotStep DEF IInv, TypeOK, At, Code
<1>4. \A n : ~Owns(r, n) /\ (Owns(r, n)' <=> n = m)
  BY <1>2, <1>3 DEF Owns
<1>5. \A s \in Request : \A n : s # r => (Owns(s, n)' <=> Owns(s, n))
  BY <1>3 DEF Owns
<1>6. orders'[i] = 0 /\ \A j \in OrderId : j # i => orders'[j] = orders[j]
  BY <1>2 DEF IInv, TypeOK
<1>7. Running(m)
  BY <1>2 DEF IInv, RegisteredIsLive
<1>8. CreatedIsLive' /\ HandlesAreSpawned' /\ StoppedIsOver' /\ GoneIsOver'
  BY <1>2, <1>3, <1>7 DEF IInv, CreatedIsLive, HandlesAreSpawned, StoppedIsOver, GoneIsOver, Running
<1>9. MapIsInjective' /\ RegisteredIsLive'
  BY <1>2, <1>6 DEF IInv, MapIsInjective, RegisteredIsLive, Running
<1>10. MapOwnsAlone' /\ RequestOwnsAlone'
  BY <1>2, <1>4, <1>5, <1>6 DEF IInv, MapOwnsAlone, RequestOwnsAlone, MapIsInjective
<1>11. SomeOwner'
  BY <1>2, <1>4, <1>5, <1>6 DEF IInv, SomeOwner, Running
<1> QED BY <1>8, <1>9, <1>10, <1>11 DEF Restored

LEMMA ShutdownStep ==
    ASSUME IInv, NEW r \in Request, Shutdown(r)
    PROVE  Restored
<1> DEFINE m == req[r].m
<1>1. /\ req[r].at = "removed" /\ stopping' = stopping \cup {m}
      /\ UNCHANGED <<orders, spawned, over, closed, aborted>>
  BY DEF Shutdown, machineVars
<1>2. m \in Machine /\ m # 0 /\ m <= spawned /\ Owns(r, m)
  BY <1>1 DEF IInv, HandlesAreSpawned, Owns, TypeOK, Slot
<1>3. /\ req'[r].at = "awaiting" /\ req'[r].m = m
      /\ \A s \in Request : s # r => req'[s] = req[s]
  BY <1>2, SlotStep DEF Shutdown, IInv, TypeOK, At, Code
<1>4. \A s \in Request : \A n : Owns(s, n)' <=> Owns(s, n)
  BY <1>1, <1>3 DEF Owns
<1>5. CreatedIsLive'
  <2> SUFFICES ASSUME NEW s \in Request, req'[s].at = "lock", req'[s].op = "create"
               PROVE  (req[s].m # 0 /\ Running(req[s].m) /\ req[s].m \notin stopping \cup aborted)'
    BY DEF CreatedIsLive
  <2>1. s # r /\ req'[s] = req[s]
    BY <1>3
  <2>2. req[s].m # 0 /\ Running(req[s].m) /\ req[s].m \notin stopping \cup aborted
    BY <2>1 DEF IInv, CreatedIsLive
  <2>3. Owns(s, req[s].m) /\ req[s].m \in Machine
    BY <2>1, <2>2 DEF Owns, IInv, TypeOK, Slot
  <2>4. req[s].m # m
    BY <1>2, <2>1, <2>3 DEF IInv, RequestOwnsAlone
  <2> QED BY <1>1, <2>1, <2>2, <2>4 DEF Running
<1>6. HandlesAreSpawned' /\ StoppedIsOver' /\ GoneIsOver'
  BY <1>1, <1>2, <1>3 DEF IInv, HandlesAreSpawned, StoppedIsOver, GoneIsOver, Machine
<1>7. MapIsInjective' /\ RegisteredIsLive'
  BY <1>1, <1>2 DEF IInv, MapIsInjective, RegisteredIsLive, MapOwnsAlone, Running
<1>8. MapOwnsAlone' /\ RequestOwnsAlone' /\ SomeOwner'
  BY <1>1, <1>4 DEF IInv, MapOwnsAlone, RequestOwnsAlone, SomeOwner, Running
<1> QED BY <1>5, <1>6, <1>7, <1>8 DEF Restored

-----------------------------------------------------------------------------
LEMMA NextIInv == IInv /\ [Next]_vars => IInv'
<1> SUFFICES ASSUME IInv, [Next]_vars PROVE Restored
  BY NextTypeOK DEF IInv, Restored
<1> USE DEF machineVars
<1>0. /\ req \in [Request -> Slot]
      /\ 200 \in Code /\ 404 \in Code /\ 409 \in Code /\ 410 \in Code /\ 0 \in Code
      /\ "sending" \in At /\ "reserved" \in At
      /\ HandlesAreSpawned
  BY DEF IInv, TypeOK, Code, At
<1>1. ASSUME NEW r \in Request, NEW i \in OrderId, Create(r, i) PROVE Restored
  BY <1>1, CreateStep
<1>2. ASSUME NEW r \in Request, NEW i \in OrderId, NEW op \in Op, Call(r, op, i) PROVE Restored
  <2>1. /\ req' \in [Request -> Slot] /\ req'[r].at = "lock" /\ req'[r].op # "create"
        /\ \A s \in Request : s # r => req'[s] = req[s]
    BY <1>0, <1>2, ArriveStep DEF Call
  <2>2. req[r].at \in {"idle", "done"} /\ UNCHANGED <<orders, spawned, over, closed, stopping, aborted>>
    BY <1>2 DEF Call, Arrive
  <2> QED BY <2>1, <2>2, BystanderStep
<1>3. ASSUME NEW r \in Request, Insert(r) PROVE Restored
  BY <1>3, InsertStep
<1>4. ASSUME NEW r \in Request, Conflict(r) PROVE Restored
  <2>1. /\ req[r].at = "lock" /\ req[r].op = "create" /\ aborted' = aborted \cup {req[r].m}
        /\ UNCHANGED <<orders, spawned, over, closed, stopping>>
    BY <1>4 DEF Conflict, Section
  <2>2. /\ req'[r].at = "done" /\ req'[r].reply = 409
        /\ \A s \in Request : s # r => req'[s] = req[s]
    BY <1>0, <1>4, ReplyStep DEF Conflict
  <2>3. \A m : Owns(r, m) <=> m = req[r].m
    BY <2>1 DEF Owns
  <2> QED BY <2>1, <2>2, <2>3, ReleasingStep
<1>5. ASSUME NEW r \in Request, NotFound(r) \/ Status(r) PROVE Restored
  <2>1. /\ req[r].at = "lock" /\ req[r].op \notin {"create"}
        /\ UNCHANGED <<orders, spawned, over, closed, stopping, aborted>>
    BY <1>5 DEF NotFound, Status, Section
  <2>2. PICK code \in {200, 404} : Reply(r, code) /\ (code = 200 => req[r].op = "status")
    BY <1>5 DEF NotFound, Status, Section
  <2>3. /\ req' \in [Request -> Slot] /\ req'[r].at = "done" /\ req'[r].op = req[r].op
        /\ req'[r].reply = code /\ \A s \in Request : s # r => req'[s] = req[s]
    BY <1>0, <2>2, ReplyStep
  <2> QED BY <2>1, <2>2, <2>3, BystanderStep
<1>6. ASSUME NEW r \in Request, CloneHandle(r) PROVE Restored
  <2>1. PICK op \in Route, m \in Machine : Section(r, op, m) /\ Goes(r, "sending", m, 0)
    BY <1>6 DEF CloneHandle
  <2>2. /\ req[r].at = "lock" /\ req[r].op = op /\ op # "create" /\ orders[req[r].id] = m
        /\ UNCHANGED <<orders, spawned, over, closed, stopping, aborted>>
    BY <1>6, <2>1, RoutesSend DEF CloneHandle, Section
  <2>3. /\ req' \in [Request -> Slot] /\ req'[r].at = "sending" /\ req'[r].op = op
        /\ req'[r].m = m /\ \A s \in Request : s # r => req'[s] = req[s]
    BY <1>0, <2>1, <2>2, SlotStep
  <2>4. m # 0 /\ m <= spawned
    BY <1>0, <2>2 DEF IInv, RegisteredIsLive, Running, Slot, Machine
  <2> QED BY <2>2, <2>3, <2>4, BystanderStep
<1>7. ASSUME NEW r \in Request, Remove(r) PROVE Restored
  BY <1>7, RemoveStep
<1>8. ASSUME NEW r \in Request, Shutdown(r) PROVE Restored
  BY <1>8, ShutdownStep
<1>9. ASSUME NEW r \in Request, Stopped(r) PROVE Restored
  <2>1. /\ req[r].at = "awaiting" /\ req[r].m \in over
        /\ UNCHANGED <<orders, spawned, over, closed, stopping, aborted>>
    BY <1>0, <1>9 DEF Stopped, HandlesAreSpawned
  <2>2. /\ req'[r].at = "done" /\ req'[r].m = req[r].m /\ req'[r].reply = 200
        /\ \A s \in Request : s # r => req'[s] = req[s]
    BY <1>0, <1>9, ReplyStep DEF Stopped
  <2>3. \A m : Owns(r, m) <=> m = req[r].m
    BY <2>1 DEF Owns
  <2> QED BY <2>1, <2>2, <2>3, ReleasingStep
<1>10. ASSUME NEW r \in Request, Push(r) \/ Gone(r) PROVE Restored
  <2>1. /\ req[r].at \in {"sending", "reserved"}
        /\ UNCHANGED <<orders, spawned, over, closed, stopping, aborted>>
    BY <1>10 DEF Push, Gone
  <2>2. req[r].op \in Route
    BY <1>0, <2>1 DEF HandlesAreSpawned
  <2>3. /\ req' \in [Request -> Slot] /\ req'[r].at = "done" /\ req'[r].op = req[r].op
        /\ req'[r].m = req[r].m /\ (req'[r].reply = 410 => req[r].m \in closed)
        /\ \A s \in Request : s # r => req'[s] = req[s]
    BY <1>0, <1>10, ReplyStep DEF Push, Gone
  <2>4. req'[r].reply = 410 => req'[r].m \in over
    BY <1>0, <2>3 DEF HandlesAreSpawned
  <2> QED BY <2>1, <2>2, <2>3, <2>4, RoutesSend, BystanderStep
<1>11. ASSUME NEW r \in Request, Reserve(r) PROVE Restored
  <2>1. /\ req[r].at = "sending" /\ UNCHANGED <<orders, spawned, over, closed, stopping, aborted>>
    BY <1>11 DEF Reserve
  <2>2. req[r].m # 0 /\ req[r].m <= spawned /\ req[r].op \in Route /\ req[r].m \in Machine \cup {0}
    BY <1>0, <2>1 DEF HandlesAreSpawned, Slot
  <2>3. /\ req' \in [Request -> Slot] /\ req'[r].at = "reserved" /\ req'[r].op = req[r].op
        /\ req'[r].m = req[r].m /\ \A s \in Request : s # r => req'[s] = req[s]
    BY <1>0, <1>11, <2>2, SlotStep DEF Reserve
  <2> QED BY <2>1, <2>2, <2>3, BystanderStep
<1>12. ASSUME NEW r \in Request, Disconnect(r) PROVE Restored
  <2>1. /\ req'[r].at = "idle" /\ \A s \in Request : s # r => req'[s] = req[s]
        /\ aborted' = aborted \cup {m \in Machine : Owns(r, m)}
        /\ UNCHANGED <<orders, spawned, over, closed, stopping>>
    BY <1>0, <1>12 DEF Disconnect, Free
  <2> QED BY <2>1, ReleasingStep
<1>13. ASSUME NEW m \in Machine, Take(m) \/ Finish(m) PROVE Restored
  BY <1>0, <1>13, MachineStep DEF Take, Finish, IInv, HandlesAreSpawned
<1>14. ASSUME NEW m \in Machine, End(m) PROVE Restored
  <2>1. /\ over' = over \cup {m} /\ m \in stopping \cup aborted
        /\ UNCHANGED <<orders, spawned, closed, stopping, aborted, req>>
    BY <1>14 DEF End
  <2>2. over' \subseteq 1..spawned /\ closed' \subseteq over'
    BY <1>0, <2>1 DEF HandlesAreSpawned
  <2> QED BY <2>1, <2>2, MachineStep
<1>15. ASSUME NEW m \in Machine, DropReceiver(m) PROVE Restored
  BY <1>0, <1>15, MachineStep DEF DropReceiver, HandlesAreSpawned
<1>16. CASE UNCHANGED vars
  BY <1>0, <1>16, MachineStep DEF vars, IInv, HandlesAreSpawned
<1> QED
  BY <1>1, <1>2, <1>3, <1>4, <1>5, <1>6, <1>7, <1>8, <1>9, <1>10, <1>11, <1>12, <1>13, <1>14,
     <1>15, <1>16 DEF Next

LEMMA Invariance == Spec => []IInv
BY InitIInv, NextIInv, PTL DEF Spec

\* No interleaving of requests leaks a machine or gives it two owners.
THEOREM MachinesAreOwned == Spec => []OneOwner
<1>1. IInv => OneOwner
  <2> SUFFICES ASSUME IInv, NEW m \in Machine, Running(m), m \notin aborted
               PROVE  \E o \in Owners(m) : Owners(m) = {o}
    BY DEF OneOwner
  <2>0. m # 0
    BY DEF Machine
  <2>1. CASE \E i \in OrderId : orders[i] = m
    <3>1. PICK i \in OrderId : orders[i] = m
      BY <2>1
    <3>2. \A j \in OrderId : orders[j] = m => j = i
      BY <2>0, <3>1 DEF IInv, MapIsInjective
    <3>3. \A r \in Request : ~Owns(r, m)
      BY <2>0, <3>1 DEF IInv, MapOwnsAlone
    <3>4. {j \in OrderId : orders[j] = m} = {i} /\ {r \in Request : Owns(r, m)} = {}
      BY <3>1, <3>2, <3>3
    <3>5. Owners(m) = {<<"map", i>>}
      BY <3>4 DEF Owners
    <3> QED BY <3>5
  <2>2. CASE \A i \in OrderId : orders[i] # m
    <3>1. PICK r \in Request : Owns(r, m)
      BY <2>2 DEF IInv, SomeOwner
    <3>2. \A s \in Request : Owns(s, m) => s = r
      BY <3>1 DEF IInv, RequestOwnsAlone
    <3>3. {j \in OrderId : orders[j] = m} = {} /\ {s \in Request : Owns(s, m)} = {r}
      BY <2>2, <3>1, <3>2
    <3>4. Owners(m) = {<<"request", r>>}
      BY <3>3 DEF Owners
    <3> QED BY <3>4
  <2> QED BY <2>1, <2>2
<1> QED BY <1>1, Invariance, PTL

\* The map holds only machines that run and that nobody has asked to stop.
THEOREM RegistryIsLive == Spec => []RegisteredIsLive
<1>1. IInv => RegisteredIsLive
  BY DEF IInv
<1> QED BY <1>1, Invariance, PTL

\* An answered stop means that the machine is over.
THEOREM StopIsComplete == Spec => []StoppedIsOver
<1>1. IInv => StoppedIsOver
  BY DEF IInv
<1> QED BY <1>1, Invariance, PTL

\* A send told that the order is closed met a machine the map has let go of.
THEOREM GoneOrdersAreFree == Spec => []GoneIsFree
<1>1. IInv => GoneIsFree
  <2> SUFFICES ASSUME IInv, NEW r \in Request, req[r].at = "done", req[r].reply = 410, NEW i \in OrderId
               PROVE  orders[i] # req[r].m
    BY DEF GoneIsFree
  <2>1. req[r].m \in over /\ req[r].m # 0
    BY DEF IInv, GoneIsOver, HandlesAreSpawned
  <2> QED BY <2>1 DEF IInv, RegisteredIsLive, Running
<1> QED BY <1>1, Invariance, PTL

\* No step but the stop that took an order out of the map ends its machine.
THEOREM RegistrySpares == Spec => RegisteredIsSpared
<1> DEFINE Spared == \A i \in OrderId : orders[i] # 0 => orders[i] \notin stopping' \cup aborted'
<1>1. ASSUME IInv, [Next]_vars PROVE Spared
  <2> SUFFICES ASSUME NEW i \in OrderId, orders[i] # 0 PROVE orders[i] \notin stopping' \cup aborted'
    OBVIOUS
  <2>0. orders[i] \notin stopping \cup aborted /\ \A r \in Request : ~Owns(r, orders[i])
    BY <1>1 DEF IInv, RegisteredIsLive, MapOwnsAlone
  <2>1. CASE UNCHANGED <<stopping, aborted>>
    BY <2>0, <2>1
  <2>2. ASSUME NEW r \in Request, Conflict(r) PROVE orders[i] \notin stopping' \cup aborted'
    <3>1. Owns(r, req[r].m)
      BY <2>2 DEF Conflict, Section, Owns
    <3> QED BY <2>0, <2>2, <3>1 DEF Conflict
  <2>3. ASSUME NEW r \in Request, Shutdown(r) PROVE orders[i] \notin stopping' \cup aborted'
    <3>1. Owns(r, req[r].m)
      BY <2>3 DEF Shutdown, Owns
    <3> QED BY <2>0, <2>3, <3>1 DEF Shutdown
  <2>4. ASSUME NEW r \in Request, Disconnect(r) PROVE orders[i] \notin stopping' \cup aborted'
    BY <2>0, <2>4 DEF Disconnect
  <2>5. ASSUME NEW r \in Request, NEW j \in OrderId, Create(r, j) \/ \E op \in Op : Call(r, op, j)
        PROVE  orders[i] \notin stopping' \cup aborted'
    BY <2>1, <2>5 DEF Create, Call, Arrive
  <2>6. ASSUME NEW r \in Request,
               \/ Insert(r) \/ NotFound(r) \/ CloneHandle(r) \/ Status(r) \/ Remove(r)
               \/ Stopped(r) \/ Reserve(r) \/ Push(r) \/ Gone(r)
        PROVE  orders[i] \notin stopping' \cup aborted'
    BY <2>1, <2>6 DEF Insert, NotFound, CloneHandle, Status, Remove, Stopped, Reserve, Push, Gone
  <2>7. ASSUME NEW m \in Machine, Take(m) \/ Finish(m) \/ End(m) \/ DropReceiver(m)
        PROVE  orders[i] \notin stopping' \cup aborted'
    BY <2>1, <2>7 DEF Take, Finish, End, DropReceiver
  <2>8. CASE UNCHANGED vars
    BY <2>1, <2>8 DEF vars
  <2> QED BY <1>1, <2>2, <2>3, <2>4, <2>5, <2>6, <2>7, <2>8 DEF Next
<1> QED BY <1>1, Invariance, PTL DEF Spec, RegisteredIsSpared
=============================================================================
