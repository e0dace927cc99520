------------------------- MODULE MCTwitchChannel -------------------------
EXTENDS TwitchChannel

none == [f \in Flows |-> "none"]
opened(one, other) == [f \in Flows |-> IF f = "f" THEN one ELSE other]
budgets(operator, failures, faults, crashes, disconnects, revokes, expiries) ==
  [operator |-> operator, failures |-> failures, faults |-> faults, crashes |-> crashes,
   disconnects |-> disconnects, revokes |-> revokes, expiries |-> expiries]
channel(ks, fs, managing, bs) == [kinds |-> ks, flows |-> fs, manages |-> managing, left |-> bs]

twitchFlows == {"f", "g"}
twitchTypes == {"chat", "online"}
twitchTokens == 1 .. 4
twitchSettings ==
  { channel(<<"chat", "online">>, none, TRUE, budgets(3, 1, 1, 1, 0, 0, 0)),
    channel(<<"chat">>, opened("linking", "none"), FALSE, budgets(0, 0, 1, 1, 1, 0, 1)),
    channel(<<"chat">>, opened("plain", "none"), FALSE, budgets(0, 0, 1, 0, 0, 0, 2)),
    channel(<<"chat">>, opened("plain", "linking"), FALSE, budgets(0, 0, 0, 0, 0, 1, 0)),
    channel(<<"chat">>, opened("linking", "plain"), FALSE, budgets(0, 0, 0, 0, 2, 0, 0)),
    channel(<<"chat">>, opened("linking", "none"), TRUE, budgets(0, 0, 0, 0, 1, 0, 0)),
    channel(<<"chat">>, opened("invited", "grant"), TRUE, budgets(0, 0, 0, 0, 0, 1, 0)),
    channel(<<"chat">>, none, TRUE, budgets(1, 2, 0, 0, 0, 0, 0)),
    channel(<<"chat">>, opened("grant", "none"), FALSE, budgets(0, 0, 1, 0, 0, 0, 0)) }
=============================================================================
