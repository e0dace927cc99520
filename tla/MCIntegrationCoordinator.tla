---------------------- MODULE MCIntegrationCoordinator ----------------------
(* A small outbox: one source event requested with two effects or with none, two effect    *)
(* keys, two callers.                                                                       *)
EXTENDS IntegrationCoordinator, TLC

CONSTANTS e1, k1, k2, c1, c2

MCRequests == {[event |-> e1, keys |-> {k1, k2}], [event |-> e1, keys |-> {}]}
MCBackoff == [n \in 1 .. MAX_DELIVERY_ATTEMPTS - 1 |-> IF n = 1 THEN 1 ELSE 2]
=============================================================================
