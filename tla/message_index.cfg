SPECIFICATION ChannelSpec
CONSTANTS
  Users = {mod, carol}
  Locals = {mod}
  Moderators = {mod}
  Admins = {mod}
  Requests = {r1}
  Deliveries = {d1, d2}
  MaxEvents = 3
  MaxFaults = 1
  People = {p1, p2}
  Channels = {c1, c2}
  Cids = {f1, f2}
  Transfers = {t1, t2}
  MaxShares = 2
  Emojis = {e1, e2}
  MaxToggles = 3
SYMMETRY Symmetry
INVARIANTS  EncryptionNotLost HonestLock ContentBlind NoSilentLoss FreshBytesKept RefusedWereNotEntitled ReactionsStand
CHECK_DEADLOCK FALSE
