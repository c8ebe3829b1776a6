SPECIFICATION LiveSpec
CONSTANTS
  Users = {mod}
  Locals = {mod}
  Moderators = {mod}
  Admins = {mod}
  Requests = {r1}
  Deliveries = {d1, d2}
  MaxEvents = 2
  MaxFaults = 1
  Accounts = {alice, bob}
  NoAccount = none
  Polls = {p1, p2}
  Ballots = {b1, b2}
  Messages = {m1, m2}
  Limit = 1
PROPERTIES QueueDrains SingleUse StopsPolling FallbackShows
CHECK_DEADLOCK FALSE
