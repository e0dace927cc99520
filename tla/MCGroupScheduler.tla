-------------------------- MODULE MCGroupScheduler --------------------------
(* One job of two occurrences and two plans, or two jobs of two sources.   *)
EXTENDS GroupScheduler
CONSTANTS j1, j2, p1, p2, s1, s2
MCBackoff == [n \in 1 .. MAX_DELIVERY_ATTEMPTS - 1 |-> 1]
MCLoads == {[sources |-> {s1}, ids |-> {j1}, plans |-> {p1, p2},
             occurrences |-> 2, calcFailures |-> 3],
            [sources |-> {s1, s2}, ids |-> {j1, j2}, plans |-> {p1},
             occurrences |-> 1, calcFailures |-> 1]}
=============================================================================
