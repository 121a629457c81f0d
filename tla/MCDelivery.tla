----------------------------- MODULE MCDelivery -----------------------------
(* FsmDelivery with a bound on the sends that are ever begun. *)
EXTENDS FsmDelivery, RepositoryMachines

CONSTANT MaxSends   \* bound: sends that have returned Ok or may still

InFlight == {c \in Client : op[c] # "idle"}

\* The bound stops a client from beginning a send and nothing else: what is in
\* flight may end as it likes, so it takes nothing from the fairness.
BoundedNext == DeliveryNext /\ Len(sent') + Cardinality(InFlight') <= MaxSends

BoundedSpec == DeliveryInit /\ [][BoundedNext]_deliveryVars /\ Fairness

\* If handlers finish, every event sent is taken unless the machine ends:
\* neither timeouts that fire for ever nor other branches keep the loop from
\* its buffer.
SentIsTaken == HandlersFinish => \A n \in 1..MaxSends : NthIsTaken(n)
=============================================================================
