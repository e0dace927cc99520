------------------------- MODULE MCStateEventCommit -------------------------
(* One operation, two realms: one requester and two losses, or two          *)
(* requesters that race and none.                                           *)
EXTENDS StateEventCommit
CONSTANTS r1, r2, c1, c2
commitSettings == {[requesters |-> {c1}, losses |-> 2, time |-> 1],
                   [requesters |-> {c1, c2}, losses |-> 0, time |-> 0]}
=============================================================================
