SPECIFICATION Spec
CONSTANTS
  guild1 = guild1
  chan1 = chan1
  chan2 = chan2
  inv1 = inv1
  inv2 = inv2
  None = None
  Authority = Authority
  Guilds <- MCGuilds
  Channels <- MCChannel
  Invitations <- MCInvitation
  Contents <- MCContents
  Watched <- MCWatched
  BatchSize = 1
  MaxVersion = 2
  MaxDeadlines = 1
  MaxWrites = 1
  MaxChanges = 2
  MaxFailures = 1
  MaxEvictions = 1
PROPERTIES
  RevocationCompletes
CHECK_DEADLOCK FALSE
