--------------------------- MODULE DeliveryQueue ---------------------------
(***************************************************************************)
(* What the knowledge resolver promises for its dead letter queue: an      *)
(* entry that cannot be delivered at once is queued, and from the queue it *)
(* goes nowhere but to the backend or into quarantine.                     *)
(***************************************************************************)
CONSTANT Entry

VARIABLE place     \* where every entry is

Init == place = [e \in Entry |-> "caller"]

Queue(e) == place[e] = "caller" /\ place' = [place EXCEPT ![e] = "queue"]

Deliver(e) ==
  /\ place[e] \in {"caller", "queue"}
  /\ place' = [place EXCEPT ![e] = "backend"]

\* One write quarantines everything that is past the TTL.
Quarantine(some) ==
  /\ \A e \in some : place[e] = "queue"
  /\ place' = [e \in Entry |-> IF e \in some THEN "quarantine" ELSE place[e]]

Next ==
  \/ \E e \in Entry : Queue(e) \/ Deliver(e)
  \/ \E some \in SUBSET Entry : Quarantine(some)

Spec == Init /\ [][Next]_place
=============================================================================
