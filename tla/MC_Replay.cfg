SPECIFICATION GreetFirstSpec
CONSTANTS
  alice = alice
  bob = bob
  Empty = Empty
  NoFd = NoFd
  Fds = {4, 5}
  Nicks = {alice, bob}
  BadNicks = {}
  Short <- MCShort
  IrcOps = {}
  MaxClients = 2
  MaxOper = 0
  Verdicts = {TRUE}
  Mentions = {FALSE}
  UserModes = {}
  Chans = {1}
  Keys = {}
  Topics = {}
  Letters = {}
  Cmds <- MCCmds
  Messages <- MCMessages
  MaxLog = 5
INVARIANTS
  ReplayTypeOK
PROPERTIES
  RunsEndUpToDate
