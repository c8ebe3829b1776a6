SPECIFICATION CommunitySpec
CONSTANTS
  Owner = owner
  Users = {owner, alice, bob}
  Guest = alice
  Requests = {s1, s2, r3}
  MaxCodes = 1
  Space = space
  General = general
  Texts = {general, later}
  Nobody = nobody
  MaxActs = 2
  MaxFaults = 1
  Servers = {s1, s2}
  NoServer = noserver
  Channels = {c1, c2, c3}
  NoChannel = nochannel
  MaxChanges = 1
  MaxPresses = 2
  MaxLinks = 2
  MaxTroubles = 2
SYMMETRY Symmetry
INVARIANTS OwnerSafe LevelsFollow ShownIsOfServer OfferedIsAccepted InviteFollowed
PROPERTIES AdminsByOwner BanIsFinal ReturnsAsMember
CHECK_DEADLOCK FALSE
