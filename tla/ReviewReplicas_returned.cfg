CONSTANTS
  h = h
  g1 = g1
  root = root
  reply = reply
  None = None
  Host = h
  Guests = {g1}
  Ids = {root, reply}
  Parent <- OneReply
  First = {root}
  Bodies = {1, 2}
  Kinds <- SharedKinds
  Ahead <- SameTime
  MaxPosts = 2
  MaxBreaks = 1
SPECIFICATION Spec
INVARIANT ReturnedGuestsAgree
CHECK_DEADLOCK FALSE
