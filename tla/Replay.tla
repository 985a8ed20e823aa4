------------------------------- MODULE Replay -------------------------------
(***************************************************************************)
(* The server as its clients see it: the channels driven by the read       *)
(* buffers. Nothing empties a read buffer (handlePolloutEvent would, but   *)
(* addClient never asks for POLLOUT), and manageServerLoop hands the whole *)
(* buffer to parseMessage whenever anything is received. All the lines a   *)
(* client ever sent are therefore run again, from the first, with each of  *)
(* its messages, and with each fragment of a message.                      *)
(*                                                                         *)
(* Replay runs the actions of Channels in that order, for the lines PASS,  *)
(* NICK, USER, JOIN, PART, KICK, QUIT and BAD (one parseCommand cannot     *)
(* split).                                                                 *)
(***************************************************************************)
EXTENDS Channels, Sequences

CONSTANTS
  Cmds,     \* the lines clients may send: records with fields op, on, arg
  Messages, \* what one recv() may bring: sequences of lines, <<>> for a
            \* fragment that completes none
  MaxLog    \* bound on the lines of one connection

Ops == {"PASS", "NICK", "USER", "JOIN", "PART", "KICK", "QUIT", "BAD"}

ASSUME ReplayAssumption ==
  /\ Cmds \subseteq [op : Ops, on : Chans, arg : Names]
  /\ Messages \subseteq Seq(Cmds)
  /\ MaxLog \in Nat \ {0}
  /\ TRUE \in Verdicts /\ FALSE \in Mentions

VARIABLES
  log,      \* _readbuf, as a sequence of lines
  run       \* the parseMessage in progress: its client, its next line, and
            \* how many lines the buffer held before the last message

allVars == <<conn, client, chans, chan, line, log, run>>

NoRun == [fd |-> NoFd, next |-> 1, old |-> 0]

ReplayTypeOK ==
  /\ ChannelsTypeOK
  /\ log \in [Fds -> Seq(Cmds)]
  /\ run \in [fd : Fds \cup {NoFd}, next : 1 .. MaxLog, old : 0 .. MaxLog]
  /\ run # NoRun => run.fd \in conn /\ run.next <= Len(log[run.fd])

ReplayInit ==
  /\ ChannelsInit
  /\ log = [fd \in Fds |-> <<>>]
  /\ run = NoRun

----------------------------------------------------------------------------
(* Connections and reception, between two runs *)

ClientArrives ==
  /\ run = NoRun
  /\ \E fd \in Fds : AddClient(fd) /\ log' = [log EXCEPT ![fd] = <<>>]
  /\ UNCHANGED <<chans, chan, line, run>>

ClientLeaves ==
  /\ run = NoRun
  /\ \E fd \in Fds : DelClient(fd) /\ log' = [log EXCEPT ![fd] = <<>>]
  /\ UNCHANGED <<chans, chan, line, run>>

\* Mutant: the run starts behind the lines already handled, without looking
\* whether there is a new one.
MutantReceive(fd, lines) ==
  /\ run = NoRun
  /\ fd \in conn
  /\ Len(log[fd]) + Len(lines) <= MaxLog
  /\ log' = [log EXCEPT ![fd] = @ \o lines]
  /\ run' = [fd |-> fd, next |-> Len(log[fd]) + 1, old |-> Len(log[fd])]
  /\ UNCHANGED vars

\* A message is appended to the buffer and the whole buffer is parsed.
Receive(fd, lines) ==
  /\ run = NoRun
  /\ fd \in conn
  /\ Len(log[fd]) + Len(lines) <= MaxLog
  /\ log' = [log EXCEPT ![fd] = @ \o lines]
  /\ log'[fd] # <<>>
  /\ run' = [fd |-> fd, next |-> 1, old |-> Len(log[fd])]
  /\ UNCHANGED vars

----------------------------------------------------------------------------
(* parseMessage *)

\* Mutant: the last line is left for later.
MutantAdvance(throws) ==
  run' = IF throws \/ run.next + 1 >= Len(log[run.fd]) THEN NoRun
         ELSE [run EXCEPT !.next = @ + 1]

\* On to the next line, or out: after the last one, or with an exception.
Advance(throws) ==
  run' = IF throws \/ run.next = Len(log[run.fd]) THEN NoRun
         ELSE [run EXCEPT !.next = @ + 1]

RegistrationCommand(fd, cmd) ==
  /\ ~client[fd].done
  /\ IF client[fd].info
     THEN UNCHANGED clientVars
     ELSE \/ cmd.op = "PASS" /\ RegisterPass(fd, TRUE)
          \/ cmd.op = "NICK" /\ RegisterNick(fd, cmd.arg, FALSE)
          \/ cmd.op = "USER" /\ RegisterUser(fd, TRUE)
          \/ cmd.op = "BAD" /\ MalformedLine(fd)
          \/ cmd.op \in {"JOIN", "PART", "KICK", "QUIT"} /\ UNCHANGED clientVars
  /\ UNCHANGED channelVars
  /\ Advance(cmd.op = "BAD" \/ (client'[fd].info /\ ~client'[fd].done))

\* A command of a registered client on a channel, and its broadcast; or an
\* error reply.
Attempt(accepted, Command, c) ==
  IF accepted
  THEN Command /\ Advance(Throws(chan'[c], NoFd))
  ELSE UNCHANGED vars /\ Advance(FALSE)

ChannelCommand(fd, cmd) ==
  LET c == cmd.on
  IN \/ cmd.op = "JOIN" /\ Attempt(MayJoin(fd, c, Empty), Join(fd, c, Empty), c)
     \/ cmd.op = "PART" /\ Attempt(MayPart(fd, c), Part(fd, c), c)
     \/ cmd.op = "KICK" /\ Attempt(MayKick(fd, c, cmd.arg), Kick(fd, c, cmd.arg), c)

\* QUIT marks the client, and the run goes on.
QuitCommand(fd, cmd) ==
  /\ cmd.op = "QUIT"
  /\ Quit(fd)
  /\ Advance(\E c \in chans : QuitThrows(fd, c))

ClientCommand(fd, cmd) ==
  \/ /\ cmd.op = "NICK"
     /\ IF MayRename(fd, cmd.arg) THEN Nick(fd, cmd.arg) ELSE UNCHANGED clientVars
     /\ UNCHANGED channelVars
     /\ Advance(FALSE)
  \/ /\ cmd.op = "BAD"
     /\ MalformedLine(fd)
     /\ UNCHANGED channelVars
     /\ Advance(TRUE)
  \/ /\ cmd.op \in {"PASS", "USER"}
     /\ UNCHANGED vars
     /\ Advance(FALSE)

RunLine ==
  /\ run # NoRun
  /\ LET fd == run.fd
         cmd == log[fd][run.next]
     IN \/ RegistrationCommand(fd, cmd)
        \/ /\ client[fd].done
           /\ ClientCommand(fd, cmd) \/ ChannelCommand(fd, cmd) \/ QuitCommand(fd, cmd)
  /\ UNCHANGED log

ReplayNext ==
  \/ ClientArrives
  \/ ClientLeaves
  \/ \E fd \in Fds, lines \in Messages : Receive(fd, lines)
  \/ RunLine

ReplaySpec == ReplayInit /\ [][ReplayNext]_allVars

----------------------------------------------------------------------------
(* Properties *)

\* What NICK n leaves behind: the name, which may be cut to nine characters,
\* unless it is illegal or another client holds it.
Renamed(fd, n) ==
  client[fd].nick \in {n, Short[n]} \/ n \in BadNicks \/ IsAlreadyUsed(fd, n)

\* The first k lines of the buffer are carried out as far as the nickname is
\* concerned: the last NICK counts.
NameIsCurrent(fd, k) ==
  \E i \in 1 .. k :
    /\ log[fd][i].op = "NICK"
    /\ \A j \in i + 1 .. k : log[fd][j].op # "NICK"
    /\ Renamed(fd, log[fd][i].arg)

\* A line that is about being in channel c.
Moves(cmd, c) ==
  cmd.op = "QUIT" \/ (cmd.on = c /\ cmd.op \in {"JOIN", "PART", "KICK"})

\* What a line leaves behind in channel c; cut: it may have been cut short.
Reflects(fd, c, op, cut) ==
  LET n == client[fd].nick
  IN CASE op = "JOIN" -> IsMember(c, n)
       [] op = "PART" -> ~IsMember(c, n)
       [] op = "QUIT" -> chan[c].mem[n] # fd \/ cut
       [] OTHER -> TRUE

\* The first k lines are carried out as far as channel c is concerned: the
\* last line about it counts, when the client sent it as a registered client
\* and under its present nickname.
ChannelIsCurrent(fd, c, k, cut) ==
  \A i \in 1 .. k :
    /\ Moves(log[fd][i], c)
    /\ \A j \in i + 1 .. k : ~Moves(log[fd][j], c) /\ log[fd][j].op \notin {"NICK", "USER"}
    => Reflects(fd, c, log[fd][i].op, cut /\ i = k)

\* Replaying does not set a client back: a run that comes to the end of the
\* buffer, or is over without an exception that marks its client, leaves the
\* client with the nickname of its last NICK, and in or out of each channel as
\* the last JOIN, PART or QUIT it sent says. (A QUIT at the end of the buffer
\* may be cut short by a departed member.)
RunsEndUpToDate ==
  [][\A fd \in Fds :
       /\ run.fd = fd /\ run' = NoRun /\ client'[fd].done
       /\ run.next = Len(log[fd]) \/ ~client'[fd].closing
       => /\ NameIsCurrent(fd, Len(log[fd]))'
          /\ \A c \in Chans :
               ChannelIsCurrent(fd, c, Len(log[fd]), ~MembersAreConnected)']_allVars

----------------------------------------------------------------------------
(* What documentation says and the code does not do *)

\* KICK removes the user by force: who was kicked, never left the channel by
\* itself and shares its nickname with nobody comes back only by a JOIN it
\* sends afterwards.
KickedStaysOut ==
  [][\A fd \in Fds, c \in Chans :
       LET n == client[fd].nick
       IN /\ run.fd = fd
          /\ n \in chan[c].kicked /\ ~IsAlreadyUsed(fd, n)
          /\ ~IsMember(c, n) /\ IsMember(c, n)'
          /\ \A i \in DOMAIN log[fd] : log[fd][i].op \notin {"PART", "KICK"}
          => run.next > run.old]_allVars
=============================================================================
