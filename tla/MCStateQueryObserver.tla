-------------------------- MODULE MCStateQueryObserver -------------------------
EXTENDS StateQueryObserver

observed(ps, ks, n, moving, revoking, lost, delayed) ==
  [pages |-> ps, keys |-> ks, commits |-> n, moves |-> moving, revokes |-> revoking,
   losses |-> lost, delays |-> delayed]

observerPages == {"left", "right"}
observerKeys == {"mine", "shared"}
observerSettings ==
  { observed({"left"}, {"mine", "shared"}, 1, FALSE, FALSE, 0, 0),
    observed({"left", "right"}, {"mine"}, 1, FALSE, FALSE, 0, 0),
    observed({"left"}, {"shared"}, 0, TRUE, FALSE, 0, 0),
    observed({"left"}, {"mine"}, 1, FALSE, FALSE, 1, 1),
    observed({"left"}, {"mine"}, 0, FALSE, TRUE, 1, 0),
    observed({"left"}, {"mine"}, 1, FALSE, TRUE, 0, 1) }
=============================================================================
