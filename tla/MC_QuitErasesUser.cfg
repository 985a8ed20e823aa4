SPECIFICATION NoKickSpec
CONSTANTS
  alice = alice
  bob = bob
  sesame = sesame
  news = news
  Empty = Empty
  NoFd = NoFd
  Fds = {4, 5}
  Nicks = {alice, bob}
  BadNicks = {}
  Short <- MCShort
  IrcOps = {}
  MaxClients = 2
  MaxOper = 0
  Verdicts = {TRUE}
  Mentions = {FALSE}
  UserModes = {}
  Chans = {1}
  Keys = {}
  Topics = {}
  Letters = {}
PROPERTIES
  QuitErasesUser
