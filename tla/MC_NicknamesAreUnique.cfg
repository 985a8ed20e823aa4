SPECIFICATION ClientsSpec
CONSTANTS
  alice = alice
  bob = bob
  aliceLong = aliceLong
  dot = dot
  Empty = Empty
  Fds = {4, 5, 6}
  Nicks <- MCNicks
  BadNicks = {dot}
  Short <- MCShort
  IrcOps = {bob}
  MaxClients = 2
  MaxOper = 2
  Verdicts = {TRUE, FALSE}
  Mentions = {TRUE, FALSE}
  UserModes = {"+i", "-i", "-o"}
INVARIANTS
  NicknamesAreUnique
