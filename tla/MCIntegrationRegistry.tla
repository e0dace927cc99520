------------------------- MODULE MCIntegrationRegistry -------------------------
EXTENDS IntegrationRegistry, TLC

CONSTANTS guild1, chan1, chan2, inv1, inv2

MCGuilds == {guild1}
MCChannels == {chan1, chan2}
MCChannel == {chan1}
MCInvitation == {inv1}
MCInvitations == {inv1, inv2}
MCContents == [g \in Groups |-> CASE g = guild1 -> 1 [] g = chan1 -> 2 [] OTHER -> 0]
MCWatched == {guild1}
MCSymmetry == Permutations({inv1, inv2})

=============================================================================
