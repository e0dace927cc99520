---------------------------- MODULE MCStateEventRelay --------------------------
(* Local streams: one that is full and acknowledged; one that loses replies, ages or is
   reset, with a page for one operation and without it for two.  Shared streams whose
   binding moves. *)
EXTENDS StateEventRelay
Base == [shared |-> FALSE, ops |-> 2, capacity |-> 1, automatic |-> 2, total |-> 4, faults |-> 0,
         expires |-> FALSE, page |-> FALSE, resets |-> 0, sameGrant |-> TRUE]
WithPage == [Base EXCEPT !.page = TRUE]
Filling == {WithPage}
Losing == {[WithPage EXCEPT !.ops = 1, !.faults = 2], [Base EXCEPT !.faults = 1]}
Ageing == {[WithPage EXCEPT !.ops = 1, !.faults = 1, !.expires = TRUE], [Base EXCEPT !.expires = TRUE]}
Resetting == {[Base EXCEPT !.ops = 1, !.resets = 1, !.faults = 1], [Base EXCEPT !.resets = 1],
              [WithPage EXCEPT !.ops = 1, !.resets = 1],
              [Base EXCEPT !.ops = 1, !.resets = 1, !.faults = 1, !.sameGrant = FALSE]}
Sharing == {[WithPage EXCEPT !.shared = TRUE, !.ops = 1, !.faults = 1],
            [Base EXCEPT !.shared = TRUE, !.faults = 1],
            [WithPage EXCEPT !.shared = TRUE]}
relaySettings == Filling \cup Losing \cup Ageing \cup Resetting \cup Sharing
=============================================================================
