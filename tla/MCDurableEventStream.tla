------------------------ MODULE MCDurableEventStream ------------------------
(* One local stream with retention, or a group bound to one of two realms. *)
EXTENDS DurableEventStream
CONSTANTS realmA, realmB, e1, e2, c1, c2, g1, g2, s1, s2
Calm == [scope |-> "group_local", events |-> {e1, e2}, grants |-> {g1}, pages |-> {s1, s2},
         commands |-> {c1}, retained |-> 2, epochs |-> 2,
         revisions |-> 0, ages |-> FALSE, failures |-> 1, lapses |-> FALSE, unrest |-> TRUE]
Ageing == [Calm EXCEPT !.ages = TRUE, !.grants = {g1, g2}, !.pages = {s1}, !.retained = 1,
           !.failures = 0]
Moving == [Calm EXCEPT !.scope = "effective_shareable", !.events = {e1}, !.pages = {s1},
           !.revisions = 3, !.failures = 0]
Regranted == [Moving EXCEPT !.grants = {g1, g2}, !.revisions = 2]
Failing == [Moving EXCEPT !.failures = 1, !.revisions = 2]
Racing == [Moving EXCEPT !.commands = {c1, c2}, !.epochs = 1, !.unrest = FALSE]
Lapsing == [Moving EXCEPT !.lapses = TRUE, !.revisions = 2]
MCSettings == {Calm, Ageing, Moving, Regranted, Failing, Racing, Lapsing}
=============================================================================
