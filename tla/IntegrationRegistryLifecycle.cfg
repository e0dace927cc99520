SPECIFICATION Spec
CONSTANTS
  guild1 = guild1
  chan1 = chan1
  chan2 = chan2
  inv1 = inv1
  inv2 = inv2
  None = None
  Authority = Authority
  Guilds <- MCGuilds
  Channels <- MCChannels
  Invitations <- MCInvitations
  Watched = {}
  BatchSize = 1
  MaxVersion = 2
  MaxDeadlines = 0
  MaxWrites = 1
  Contents <- MCContents
  MaxChanges = 1
  MaxFailures = 0
  MaxEvictions = 0
SYMMETRY MCSymmetry
INVARIANTS
  TypeOK LinksAgree
PROPERTIES
  StateCarriedOver GroupJobFinishes
CHECK_DEADLOCK FALSE
