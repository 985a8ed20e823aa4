---------------------------- MODULE ReplayProofs ----------------------------
(***************************************************************************)
(* Proofs about module Replay: whatever the buffers hold and however often *)
(* they are run again, the server takes steps of Channels only. The        *)
(* invariant of Channels is therefore one of the server as well, and every *)
(* theorem of ChannelsProofs applies to it.                                *)
(*                                                                         *)
(* The last section is about one run: which lines it has behind it, and    *)
(* what they have left of its client in the channels (RunsKeepUp).         *)
(***************************************************************************)
EXTENDS Replay, ChannelsProofs, NaturalsLemmas, SequenceTheorems

\* What is to be run is there: the run belongs to a connection, and its next
\* line is in the buffer.
RunOK ==
  /\ log \in [Fds -> Seq(Cmds)]
  /\ \A fd \in Fds : Len(log[fd]) <= MaxLog
  /\ run \in [fd : Fds \cup {NoFd}, next : 1 .. MaxLog, old : 0 .. MaxLog]
  /\ run # NoRun => run.fd \in conn /\ run.next <= Len(log[run.fd])

ReplayInv == ChannelsInv /\ line = NoLine /\ RunOK

LEMMA ReplayTypes == ReplayInv => ReplayTypeOK
  BY DEF ReplayInv, ChannelsInv, RunOK, ReplayTypeOK

LEMMA ReplayInitInv == ReplayInit => ReplayInv
<1> SUFFICES ASSUME ReplayInit PROVE ReplayInv
  OBVIOUS
<1>1. ChannelsInv /\ line = NoLine
  BY ChannelsInitInv DEF ReplayInit, ChannelsInit
<1>2. <<>> \in Seq(Cmds) /\ Len(<<>>) = 0
  BY EmptySeq
<1>3. RunOK
  BY <1>2, ReplayAssumption DEF ReplayInit, RunOK, NoRun
<1> QED
  BY <1>1, <1>3 DEF ReplayInv

\* The line a run comes to next.
LEMMA NextLine ==
  ASSUME ReplayInv, run # NoRun
  PROVE  /\ run.fd \in Fds /\ run.fd \in conn
         /\ log[run.fd][run.next] \in Cmds
         /\ log[run.fd][run.next].op \in Ops
         /\ log[run.fd][run.next].on \in Chans
         /\ log[run.fd][run.next].arg \in Names
<1>1. conn \subseteq Fds
  BY DEF ReplayInv, ChannelsInv, ChannelsTypeOK, ClientsTypeOK
<1>2. run.fd \in conn /\ run.next \in 1 .. Len(log[run.fd])
  <2>1. run.fd \in conn /\ run.next <= Len(log[run.fd]) /\ run.next \in 1 .. MaxLog
    BY DEF ReplayInv, RunOK
  <2>2. Len(log[run.fd]) \in Nat
    BY <1>1, <2>1, LenProperties DEF ReplayInv, RunOK
  <2> QED
    BY <2>1, <2>2, ReplayAssumption
<1>3. log[run.fd] \in Seq(Cmds)
  BY <1>1, <1>2 DEF ReplayInv, RunOK
<1>4. log[run.fd][run.next] \in Cmds
  BY <1>2, <1>3, ElementOfSeq
<1> QED
  BY <1>1, <1>2, <1>4, ReplayAssumption

\* A line of a run is a step of Channels that no MODE line interrupts.
LEMMA RunLineIsCommand ==
  ASSUME ReplayInv, RunLine
  PROVE  /\ [ChannelsNext]_vars
         /\ line' = NoLine /\ conn' = conn /\ log' = log
         /\ \E throws \in BOOLEAN : Advance(throws)
<1> DEFINE fd == run.fd
           cmd == log[fd][run.next]
<1>0. /\ run # NoRun /\ log' = log /\ line = NoLine
      /\ \/ RegistrationCommand(fd, cmd)
         \/ /\ client[fd].done
            /\ ClientCommand(fd, cmd) \/ ChannelCommand(fd, cmd) \/ QuitCommand(fd, cmd)
  BY DEF RunLine, ReplayInv
<1>1. /\ fd \in Fds /\ fd \in conn /\ cmd.op \in Ops
      /\ cmd.on \in Chans /\ cmd.arg \in Names
  BY <1>0, NextLine
<1> HIDE DEF fd, cmd
<1>2. ASSUME ClientsNext, UNCHANGED channelVars PROVE ChannelsNext
  BY <1>0, <1>2 DEF ChannelsNext, ClientLine
<1>3. CASE RegistrationCommand(fd, cmd)
  <2>1. Advance(cmd.op = "BAD" \/ (client'[fd].info /\ ~client'[fd].done))
        /\ UNCHANGED channelVars
    BY <1>3 DEF RegistrationCommand
  <2>2. ClientsNext \/ UNCHANGED clientVars
    <3>1. ASSUME RegisterPass(fd, TRUE) PROVE ClientsNext
      BY <1>1, <3>1, ReplayAssumption DEF ClientsNext
    <3>2. ASSUME RegisterNick(fd, cmd.arg, FALSE) PROVE ClientsNext
      BY <1>1, <3>2, ReplayAssumption DEF ClientsNext
    <3>3. ASSUME RegisterUser(fd, TRUE) PROVE ClientsNext
      BY <1>1, <3>3, ReplayAssumption DEF ClientsNext
    <3>4. ASSUME MalformedLine(fd) PROVE ClientsNext
      BY <1>1, <3>4 DEF ClientsNext
    <3> QED
      BY <1>3, <3>1, <3>2, <3>3, <3>4 DEF RegistrationCommand
  <2>3. conn' = conn
    BY <1>3 DEF RegistrationCommand, RegisterPass, RegisterNick, RegisterUser,
                RegistrationLine, MalformedLine, clientVars
  <2> QED
    BY <1>0, <1>2, <2>1, <2>2, <2>3 DEF vars, clientVars, channelVars
<1>4. CASE ClientCommand(fd, cmd)
  <2>1. ClientsNext \/ UNCHANGED clientVars
    <3>1. ASSUME Nick(fd, cmd.arg) PROVE ClientsNext
      BY <1>1, <3>1 DEF ClientsNext, Nick, MayRename
    <3>2. ASSUME MalformedLine(fd) PROVE ClientsNext
      BY <1>1, <3>2 DEF ClientsNext
    <3> QED
      BY <1>4, <3>1, <3>2 DEF ClientCommand, vars, clientVars
  <2>2. UNCHANGED channelVars /\ conn' = conn /\ (Advance(TRUE) \/ Advance(FALSE))
    BY <1>4 DEF ClientCommand, Nick, MalformedLine, vars, clientVars, channelVars
  <2> QED
    BY <1>0, <1>2, <2>1, <2>2 DEF vars, clientVars, channelVars
<1>5. CASE ChannelCommand(fd, cmd)
  <2> DEFINE Outcomes == \/ Join(fd, cmd.on, Empty)
                         \/ Part(fd, cmd.on)
                         \/ Kick(fd, cmd.on, cmd.arg)
                         \/ UNCHANGED vars
  <2>1. Outcomes /\ (Advance(Throws(chan'[cmd.on], NoFd)) \/ Advance(FALSE))
    BY <1>5 DEF ChannelCommand, Attempt
  <2>2. [ChannelsNext]_vars
    <3>1. ASSUME Join(fd, cmd.on, Empty) PROVE ChannelLine
      BY <1>1, <3>1 DEF ChannelLine
    <3>2. ASSUME Part(fd, cmd.on) PROVE ChannelLine
      BY <1>1, <3>2 DEF ChannelLine
    <3>3. ASSUME Kick(fd, cmd.on, cmd.arg) PROVE ChannelLine
      BY <1>1, <3>3 DEF ChannelLine
    <3> QED
      BY <2>1, <3>1, <3>2, <3>3 DEF ChannelsNext
  <2>3. UNCHANGED <<conn, line>>
    BY <2>1 DEF Join, Part, Kick, vars
  <2>4. Throws(chan'[cmd.on], NoFd) \in BOOLEAN
    BY DEF Throws
  <2> QED
    BY <1>0, <2>1, <2>2, <2>3, <2>4
<1>6. CASE QuitCommand(fd, cmd)
  <2>1. Quit(fd) /\ Advance(\E c \in chans : QuitThrows(fd, c))
    BY <1>6 DEF QuitCommand
  <2>2. ChannelsNext /\ UNCHANGED <<conn, line>>
    BY <1>1, <2>1 DEF ChannelsNext, ChannelLine, Quit
  <2> QED
    BY <1>0, <2>1, <2>2
<1> QED
  BY <1>0, <1>3, <1>4, <1>5, <1>6

\* Between two runs connections come and go; a run starts with the first line
\* and advances by one.
LEMMA ReplayStep ==
  ASSUME ReplayInv, [ReplayNext]_allVars
  PROVE  [ChannelsNext]_vars /\ line' = NoLine /\ RunOK'
<1>0. /\ line = NoLine /\ conn \subseteq Fds /\ RunOK
      /\ \A fd \in Fds : Len(log[fd]) \in Nat
  BY LenProperties DEF ReplayInv, RunOK, ChannelsInv, ChannelsTypeOK, ClientsTypeOK
<1>1. CASE ClientArrives \/ ClientLeaves
  <2>1. PICK fd \in Fds :
          /\ AddClient(fd) \/ DelClient(fd)
          /\ log' = [log EXCEPT ![fd] = <<>>]
    BY <1>1 DEF ClientArrives, ClientLeaves
  <2>2. run = NoRun /\ UNCHANGED <<chans, chan, line, run>>
    BY <1>1 DEF ClientArrives, ClientLeaves
  <2>3. ChannelsNext
    BY <1>0, <2>1, <2>2 DEF ChannelsNext, ClientLine, ClientsNext, channelVars
  <2>4. <<>> \in Seq(Cmds) /\ Len(<<>>) = 0
    BY EmptySeq
  <2>5. RunOK'
    BY <1>0, <2>1, <2>2, <2>4, ReplayAssumption DEF RunOK
  <2> QED
    BY <1>0, <2>2, <2>3, <2>5
<1>2. ASSUME NEW fd \in Fds, NEW lines \in Messages, Receive(fd, lines)
      PROVE  [ChannelsNext]_vars /\ line' = NoLine /\ RunOK'
  <2>1. /\ fd \in conn /\ Len(log[fd]) + Len(lines) <= MaxLog
        /\ log' = [log EXCEPT ![fd] = log[fd] \o lines] /\ log'[fd] # <<>>
        /\ run' = [fd |-> fd, next |-> 1, old |-> Len(log[fd])]
        /\ UNCHANGED vars
    BY <1>2 DEF Receive
  <2>2. log[fd] \in Seq(Cmds) /\ lines \in Seq(Cmds)
    BY <1>0, ReplayAssumption DEF RunOK
  <2>3. /\ log[fd] \o lines \in Seq(Cmds)
        /\ Len(log[fd] \o lines) = Len(log[fd]) + Len(lines)
        /\ Len(log[fd]) \in Nat /\ Len(lines) \in Nat
    BY <2>2, ConcatProperties, LenProperties
  <2>4. log'[fd] = log[fd] \o lines /\ \A g \in Fds \ {fd} : log'[g] = log[g]
    BY <1>0, <2>1 DEF RunOK
  <2>5. Len(log'[fd]) >= 1 /\ Len(log'[fd]) <= MaxLog
    BY <2>1, <2>3, <2>4, EmptySeq
  <2>6. log' \in [Fds -> Seq(Cmds)] /\ \A g \in Fds : Len(log'[g]) <= MaxLog
    BY <1>0, <2>1, <2>3, <2>4, <2>5 DEF RunOK
  <2>7. run' \in [fd : Fds \cup {NoFd}, next : 1 .. MaxLog, old : 0 .. MaxLog]
    BY <1>0, <2>1, <2>3, ReplayAssumption DEF RunOK
  <2>8. run'.fd \in conn' /\ run'.next <= Len(log'[run'.fd])
    BY <2>1, <2>5 DEF vars
  <2> QED
    BY <1>0, <2>1, <2>6, <2>7, <2>8 DEF RunOK, vars
<1>3. CASE RunLine
  <2>1. PICK throws \in BOOLEAN : Advance(throws)
    BY <1>3, RunLineIsCommand
  <2>2. run # NoRun /\ log' = log /\ conn' = conn
    BY <1>3, RunLineIsCommand DEF RunLine
  <2>3. \/ run' = NoRun
        \/ run.next # Len(log[run.fd]) /\ run' = [run EXCEPT !.next = @ + 1]
    BY <2>1 DEF Advance
  <2>4. RunOK'
    <3>1. CASE run' = NoRun
      BY <1>0, <2>2, <3>1, ReplayAssumption DEF RunOK, NoRun
    <3>2. CASE run.next # Len(log[run.fd]) /\ run' = [run EXCEPT !.next = @ + 1]
      <4>1. /\ run.fd \in conn /\ run.fd \in Fds /\ run.next <= Len(log[run.fd])
            /\ run.next \in 1 .. MaxLog /\ Len(log[run.fd]) <= MaxLog
        BY <1>0, <2>2 DEF RunOK
      <4>2. run.next + 1 <= Len(log[run.fd]) /\ run.next + 1 \in 1 .. MaxLog
        BY <1>0, <3>2, <4>1, ReplayAssumption
      <4>3. /\ run'.fd = run.fd /\ run'.next = run.next + 1
            /\ run' \in [fd : Fds \cup {NoFd}, next : 1 .. MaxLog, old : 0 .. MaxLog]
        BY <1>0, <3>2, <4>2 DEF RunOK
      <4> QED
        BY <1>0, <2>2, <4>1, <4>2, <4>3 DEF RunOK
    <3> QED
      BY <2>3, <3>1, <3>2
  <2> QED
    BY <1>3, <2>4, RunLineIsCommand
<1>4. CASE UNCHANGED allVars
  BY <1>0, <1>4 DEF allVars, vars, RunOK
<1> QED
  BY <1>1, <1>2, <1>3, <1>4 DEF ReplayNext

LEMMA ReplayInvHolds == ReplaySpec => []ReplayInv
<1>1. ReplayInv /\ [ReplayNext]_allVars => ReplayInv'
  BY ReplayStep, ChannelsNextInv DEF ReplayInv
<1> QED
  BY <1>1, ReplayInitInv, PTL DEF ReplaySpec

\* For every set of lines, messages and connections, buffers hold lines, and a
\* run is on its way through the buffer of a connection.
THEOREM ReplayTypeCorrect == ReplaySpec => []ReplayTypeOK
  BY ReplayInvHolds, ReplayTypes, PTL

\* The server implements Channels, and the invariants of its channels are
\* those of Channels.
THEOREM ServerImplementsChannels == ReplaySpec => ChannelsSpec /\ []ChannelsInv
<1>1. ReplayInit => ChannelsInit
  BY DEF ReplayInit
<1>2. ReplayInv /\ [ReplayNext]_allVars => [ChannelsNext]_vars
  BY ReplayStep
<1> QED
  BY <1>1, <1>2, ReplayInvHolds, PTL DEF ReplaySpec, ChannelsSpec, ReplayInv

----------------------------------------------------------------------------
(* A run leaves its client up to date *)

\* Without MODE lines no channel has a mode.
NoFlags == \A c \in Chans : chan[c].mode = {}

\* A nickname comes from a line of the buffer.
NickIsLogged ==
  \A fd \in Fds : client[fd].nick # Empty =>
    \E i \in 1 .. Len(log[fd]) : log[fd][i].op = "NICK"

LastNickHolds(fd, k) ==
  \A i \in 1 .. k :
    /\ log[fd][i].op = "NICK"
    /\ \A j \in i + 1 .. k : log[fd][j].op # "NICK"
    => Renamed(fd, log[fd][i].arg)

\* The lines that a run has behind it are carried out.
RunIsCurrent ==
  run # NoRun =>
    /\ LastNickHolds(run.fd, run.next - 1)
    /\ client[run.fd].done =>
         \A c \in Chans : ChannelIsCurrent(run.fd, c, run.next - 1, FALSE)

CurrentInv == NoFlags /\ NamesAreBlank /\ NickIsLogged /\ RunIsCurrent

\* What a line may change, and what it must.
LineResult(fd, cmd) ==
  /\ \A g \in Fds \ {fd} : client'[g] = client[g]
  /\ cmd.op # "NICK" => client'[fd].nick = client[fd].nick
  /\ cmd.op = "NICK" => Renamed(fd, cmd.arg)' \/ (run' = NoRun /\ ~client'[fd].done)
  /\ client'[fd].done => client[fd].done \/ cmd.op = "USER"
  /\ \A c \in Chans : chan'[c].mode = chan[c].mode
  /\ \A c \in Chans : ~Moves(cmd, c) => chan'[c] = chan[c]
  /\ client[fd].done => \A c \in Chans : Moves(cmd, c) =>
       /\ Reflects(fd, c, cmd.op, ~MembersAreConnected)'
       /\ run' # NoRun => Reflects(fd, c, cmd.op, FALSE)'
  /\ run' = NoRun => run.next = Len(log[fd]) \/ client'[fd].closing \/ ~client'[fd].done

\* A run is over after its last line or with an exception only.
LEMMA AdvanceLemma ==
  ASSUME ReplayInv, run # NoRun, NEW throws \in BOOLEAN, Advance(throws)
  PROVE  /\ run' = NoRun <=> throws \/ run.next = Len(log[run.fd])
         /\ run' # NoRun => run'.fd = run.fd /\ run'.next = run.next + 1
<1>1. /\ run \in [fd : Fds \cup {NoFd}, next : 1 .. MaxLog, old : 0 .. MaxLog]
      /\ run.fd \in conn /\ conn \subseteq Fds /\ NoFd \notin Fds
  BY ChannelsAssumption
  DEF ReplayInv, RunOK, ChannelsInv, ChannelsTypeOK, ClientsTypeOK
<1>2. ASSUME run' = [run EXCEPT !.next = @ + 1]
      PROVE  run'.fd = run.fd /\ run'.next = run.next + 1 /\ run' # NoRun
  BY <1>1, <1>2 DEF NoRun
<1> QED
  BY <1>2 DEF Advance

\* A line of a registration touches no channel. A nickname that is not taken
\* ends the run without a registered client.
LEMMA RegistrationResult ==
  ASSUME ReplayInv, NEW fd \in Fds, NEW cmd \in [op : Ops, on : Chans, arg : Names],
         fd = run.fd, run # NoRun, RegistrationCommand(fd, cmd)
  PROVE  LineResult(fd, cmd)
<1>0. /\ client \in [Fds -> ClientRec] /\ ~client[fd].done /\ UNCHANGED channelVars
      /\ Advance(cmd.op = "BAD" \/ (client'[fd].info /\ ~client'[fd].done))
  BY DEF RegistrationCommand, ReplayInv, ChannelsInv, ChannelsTypeOK, ClientsTypeOK
<1>1. \A c \in Chans : chan'[c] = chan[c]
  BY <1>0 DEF channelVars
<1>2. CASE client[fd].info /\ UNCHANGED clientVars
  BY <1>0, <1>1, <1>2 DEF clientVars, LineResult, Advance
<1>3. ASSUME ~client[fd].info, NEW r \in ClientRec, NEW b \in BOOLEAN,
             RegistrationLine(fd, r, b), ~r.done,
             cmd.op # "NICK" => r.nick = client[fd].nick,
             cmd.op = "NICK" => r.nick \in {cmd.arg, Short[cmd.arg]},
             b => cmd.op = "USER", cmd.op # "BAD"
      PROVE  LineResult(fd, cmd)
  <2>1. client' = [client EXCEPT ![fd] = Welcome([r EXCEPT !.info = b])]
    BY <1>3 DEF RegistrationLine
  <2>2. /\ Welcome([r EXCEPT !.info = b]).nick = r.nick
        /\ Welcome([r EXCEPT !.info = b]).done => b
    BY <1>3 DEF Welcome, IsValid, ClientRec
  <2>3. client'[fd].nick = r.nick /\ (client'[fd].done => b)
        /\ \A g \in Fds \ {fd} : client'[g] = client[g]
    BY <1>0, <2>1, <2>2
  <2>4. cmd.op = "NICK" => Renamed(fd, cmd.arg)'
    BY <1>3, <2>3 DEF Renamed
  <2>5. run' = NoRun => run.next = Len(log[fd]) \/ ~client'[fd].done
    BY <1>0, <1>3, AdvanceLemma
  <2> QED
    BY <1>0, <1>1, <1>3, <2>3, <2>4, <2>5 DEF LineResult
<1>4. CASE ~client[fd].info /\ cmd.op = "PASS" /\ RegisterPass(fd, TRUE)
  <2> DEFINE r == [client[fd] EXCEPT !.pass = TRUE]
  <2>1. r \in ClientRec /\ ~r.done /\ r.nick = client[fd].nick
    BY <1>0, ZenonT(40) DEF ClientRec
  <2> QED
    BY <1>3, <1>4, <2>1 DEF RegisterPass
<1>5. CASE ~client[fd].info /\ cmd.op = "NICK" /\ RegisterNick(fd, cmd.arg, FALSE)
  <2> DEFINE r == SetNickname(client[fd], cmd.arg)
  <2>1. r \in ClientRec /\ ~r.done /\ r.nick \in {cmd.arg, Short[cmd.arg]}
    BY <1>0, ClientsAssumption DEF ClientRec, SetNickname
  <2> QED
    BY <1>3, <1>5, <2>1 DEF RegisterNick
<1>6. CASE ~client[fd].info /\ cmd.op = "USER" /\ RegisterUser(fd, TRUE)
  <2> DEFINE r == [client[fd] EXCEPT !.user = @ \/ TRUE]
  <2>1. r \in ClientRec /\ ~r.done /\ r.nick = client[fd].nick
    BY <1>0, ZenonT(40) DEF ClientRec
  <2> QED
    BY <1>3, <1>6, <2>1 DEF RegisterUser
<1>7. CASE cmd.op = "BAD" /\ MalformedLine(fd)
  <2>1. client' = [client EXCEPT ![fd].closing = TRUE]
    BY <1>7 DEF MalformedLine
  <2>2. /\ client'[fd].nick = client[fd].nick /\ client'[fd].closing
        /\ client'[fd].done = client[fd].done
        /\ \A g \in Fds \ {fd} : client'[g] = client[g]
    BY <1>0, <2>1 DEF ClientRec
  <2> QED
    BY <1>0, <1>1, <1>7, <2>2 DEF LineResult
<1>8. CASE cmd.op \in {"JOIN", "PART", "KICK", "QUIT"} /\ UNCHANGED clientVars
  <2>1. run' = NoRun => run.next = Len(log[fd]) \/ ~client'[fd].done
    BY <1>0, <1>8, AdvanceLemma
  <2> QED
    BY <1>0, <1>1, <1>8, <2>1 DEF clientVars, LineResult
<1> QED
  BY <1>2, <1>4, <1>5, <1>6, <1>7, <1>8 DEF RegistrationCommand

\* NICK of a registered client stores the nickname when its checks pass, and
\* otherwise leaves a client that has it or cannot have it.
LEMMA ClientCommandResult ==
  ASSUME ReplayInv, NEW fd \in Fds, NEW cmd \in [op : Ops, on : Chans, arg : Names],
         fd = run.fd, run # NoRun, client[fd].done, ClientCommand(fd, cmd)
  PROVE  LineResult(fd, cmd)
<1>0. client \in [Fds -> ClientRec] /\ fd \in conn
  BY DEF ReplayInv, RunOK, ChannelsInv, ChannelsTypeOK, ClientsTypeOK
<1>1. UNCHANGED channelVars /\ \A c \in Chans : ~Moves(cmd, c)
  BY DEF ClientCommand, Moves, vars, channelVars
<1>2. CASE /\ cmd.op = "NICK" /\ Advance(FALSE)
           /\ IF MayRename(fd, cmd.arg) THEN Nick(fd, cmd.arg) ELSE UNCHANGED clientVars
  <2>1. /\ Renamed(fd, cmd.arg)' /\ client'[fd].done
        /\ \A g \in Fds \ {fd} : client'[g] = client[g]
    <3>1. CASE Nick(fd, cmd.arg)
      <4>1. client' = [client EXCEPT ![fd] = SetNickname(client[fd], cmd.arg)]
        BY <3>1 DEF Nick
      <4>2. /\ SetNickname(client[fd], cmd.arg).nick \in {cmd.arg, Short[cmd.arg]}
            /\ SetNickname(client[fd], cmd.arg).done
        BY <1>0 DEF SetNickname, ClientRec
      <4> QED
        BY <1>0, <4>1, <4>2 DEF Renamed
    <3>2. CASE ~MayRename(fd, cmd.arg) /\ UNCHANGED clientVars
      BY <1>0, <3>2 DEF MayRename, Registered, Renamed, Names, IsAlreadyUsed, clientVars
    <3> QED
      BY <1>2, <3>1, <3>2
  <2>2. run' = NoRun => run.next = Len(log[fd])
    BY <1>2, AdvanceLemma
  <2> QED
    BY <1>1, <1>2, <2>1, <2>2 DEF LineResult, channelVars
<1>3. CASE cmd.op = "BAD" /\ MalformedLine(fd)
  <2>1. client' = [client EXCEPT ![fd].closing = TRUE]
    BY <1>3 DEF MalformedLine
  <2>2. /\ client'[fd].nick = client[fd].nick /\ client'[fd].closing
        /\ \A g \in Fds \ {fd} : client'[g] = client[g]
    BY <1>0, <2>1 DEF ClientRec
  <2> QED
    BY <1>1, <1>3, <2>2 DEF LineResult, channelVars
<1>4. CASE cmd.op \in {"PASS", "USER"} /\ UNCHANGED vars /\ Advance(FALSE)
  <2>1. run' = NoRun => run.next = Len(log[fd])
    BY <1>4, AdvanceLemma
  <2> QED
    BY <1>1, <1>4, <2>1 DEF LineResult, channelVars, vars
<1> QED
  BY <1>2, <1>3, <1>4 DEF ClientCommand

\* A command on a channel changes that channel only, keeps its modes, and
\* marks its client when it ends the run.
LEMMA CommandResult ==
  ASSUME ReplayInv, NEW fd \in Fds, NEW cmd \in [op : Ops, on : Chans, arg : Names],
         fd = run.fd, run # NoRun, client[fd].done,
         cmd.op \in {"JOIN", "PART", "KICK"}, NEW ch \in ChannelRec,
         ch.mode = chan[cmd.on].mode, Update(fd, cmd.on, ch),
         Advance(Throws(chan'[cmd.on], NoFd)), conn' = conn,
         cmd.op = "JOIN" => ch.mem[client[fd].nick] # NoFd,
         cmd.op = "PART" => ch.mem[client[fd].nick] = NoFd
  PROVE  LineResult(fd, cmd)
<1>0. client \in [Fds -> ClientRec] /\ chan \in [Chans -> ChannelRec]
  BY DEF ReplayInv, ChannelsInv, ChannelsTypeOK, ClientsTypeOK
<1>1. /\ chan'[cmd.on] = ch
      /\ \A c \in Chans \ {cmd.on} : chan'[c] = chan[c]
  BY <1>0 DEF Update
<1>2. client' = IF Throws(ch, NoFd) THEN [client EXCEPT ![fd].closing = TRUE] ELSE client
  BY DEF Update, Outcome
<1>3. /\ client'[fd].nick = client[fd].nick
      /\ Throws(ch, NoFd) => client'[fd].closing
      /\ \A g \in Fds \ {fd} : client'[g] = client[g]
  BY <1>0, <1>2 DEF ClientRec
<1>4. run' = NoRun => run.next = Len(log[fd]) \/ client'[fd].closing
  <2>1. Throws(ch, NoFd) \in BOOLEAN
    BY DEF Throws
  <2> QED
    BY <1>1, <1>3, <2>1, AdvanceLemma
<1>5. \A c \in Chans : Moves(cmd, c) <=> c = cmd.on
  BY DEF Moves
<1>6. \A cut \in BOOLEAN : Reflects(fd, cmd.on, cmd.op, cut)'
  BY <1>1, <1>3 DEF Reflects, IsMember
<1> QED
  BY <1>1, <1>3, <1>4, <1>5, <1>6 DEF LineResult, MembersAreConnected

\* JOIN, PART and KICK leave their client in or out of the channel as they
\* say, with or without their effect.
LEMMA ChannelCommandResult ==
  ASSUME ReplayInv, NoFlags, NamesAreBlank,
         NEW fd \in Fds, NEW cmd \in [op : Ops, on : Chans, arg : Names],
         fd = run.fd, run # NoRun, client[fd].done, ChannelCommand(fd, cmd)
  PROVE  LineResult(fd, cmd)
<1> DEFINE c == cmd.on
           n == client[fd].nick
<1>0. /\ c \in Chans /\ cmd.arg \in Names /\ n \in Names
      /\ chan[c] \in ChannelRec /\ line = NoLine /\ Registered(fd)
      /\ chan[c].mem \in [Names -> Fds \cup {NoFd}] /\ NoFd \notin Fds
  BY GoodClients, ChannelsAssumption
  DEF ReplayInv, RunOK, ChannelsInv, ChannelsTypeOK, ChannelRec, GoodClient, ClientRec,
      IInv, ClientsTypeOK, Registered
<1> HIDE DEF c, n
<1>1. ASSUME cmd.op \in {"JOIN", "PART", "KICK"}, UNCHANGED vars, Advance(FALSE),
             cmd.op = "JOIN" => FALSE, cmd.op = "PART" => ~IsMember(c, n)
      PROVE  LineResult(fd, cmd)
  <2>1. \A d \in Chans : Moves(cmd, d) <=> d = c
    BY <1>1 DEF Moves, c
  <2>2. \A cut \in BOOLEAN : Reflects(fd, c, cmd.op, cut)'
    BY <1>1 DEF Reflects, IsMember, vars, n
  <2>3. run' = NoRun => run.next = Len(log[fd])
    BY <1>1, AdvanceLemma
  <2> QED
    BY <1>1, <2>1, <2>2, <2>3 DEF LineResult, vars, MembersAreConnected
<1>2. CASE cmd.op = "JOIN" /\ Attempt(MayJoin(fd, c, Empty), Join(fd, c, Empty), c)
  <2>1. MayJoin(fd, c, Empty)
    BY <1>0 DEF MayJoin, NoFlags
  <2>2. Join(fd, c, Empty) /\ Advance(Throws(chan'[c], NoFd))
    BY <1>2, <2>1 DEF Attempt
  <2> DEFINE entered == Insert(chan[c], n, fd)
             ch == [entered EXCEPT !.ops = IF @ = {} THEN {n} ELSE @]
  <2>3. entered \in ChannelRec /\ entered.mode = chan[c].mode /\ entered.mem[n] # NoFd
    <3>1. entered \in ChannelRec /\ entered.mode = chan[c].mode
      BY <1>0, InsertLemma
    <3>2. entered.mem[n] # NoFd
      BY <1>0 DEF Insert, ChannelRec
    <3> QED
      BY <3>1, <3>2
  <2>4. Update(fd, c, ch) /\ conn' = conn
    BY <2>2 DEF Join, n
  <2> HIDE DEF entered
  <2>5. ch \in ChannelRec /\ ch.mode = chan[c].mode /\ ch.mem = entered.mem
    BY <1>0, <2>3 DEF ChannelRec
  <2>6. ch.mem[n] # NoFd
    BY <1>0, <2>3, <2>5
  <2> QED
    BY <1>2, <2>2, <2>4, <2>5, <2>6, CommandResult DEF c, n
<1>3. CASE cmd.op = "PART" /\ Attempt(MayPart(fd, c), Part(fd, c), c)
  <2>1. CASE ~MayPart(fd, c)
    <3>1. IsMember(c, n) => c \in chans
      BY <1>0 DEF NamesAreBlank, Recipients, IsMember
    <3>2. ~IsMember(c, n)
      BY <1>0, <2>1, <3>1 DEF MayPart, Commands, n
    <3> QED
      BY <1>1, <1>3, <2>1, <3>2 DEF Attempt
  <2>2. CASE Part(fd, c) /\ Advance(Throws(chan'[c], NoFd))
    <3>1. /\ Erase(chan[c], n) \in ChannelRec /\ Erase(chan[c], n).mode = chan[c].mode
          /\ Erase(chan[c], n).mem = [chan[c].mem EXCEPT ![n] = NoFd]
      BY <1>0, EraseLemma, EraseMemLemma
    <3>2. Update(fd, c, Erase(chan[c], n)) /\ conn' = conn
      BY <2>2 DEF Part, n
    <3>3. Erase(chan[c], n).mem[n] = NoFd
      BY <1>0, <3>1
    <3> QED
      BY <1>3, <2>2, <3>1, <3>2, <3>3, CommandResult DEF c, n
  <2> QED
    BY <1>3, <2>1, <2>2 DEF Attempt
<1>4. CASE cmd.op = "KICK" /\ Attempt(MayKick(fd, c, cmd.arg), Kick(fd, c, cmd.arg), c)
  <2>1. CASE ~MayKick(fd, c, cmd.arg)
    BY <1>1, <1>4, <2>1 DEF Attempt
  <2>2. CASE Kick(fd, c, cmd.arg) /\ Advance(Throws(chan'[c], NoFd))
    <3> DEFINE out == Erase(chan[c], cmd.arg)
               ch == [out EXCEPT !.kicked = @ \cup {cmd.arg}]
    <3>1. out \in ChannelRec /\ out.mode = chan[c].mode
      BY <1>0, EraseLemma
    <3>2. Update(fd, c, ch) /\ conn' = conn
      BY <2>2 DEF Kick
    <3> HIDE DEF out
    <3>3. ch \in ChannelRec /\ ch.mode = chan[c].mode
      BY <1>0, <3>1 DEF ChannelRec
    <3> QED
      BY <1>4, <2>2, <3>2, <3>3, CommandResult DEF c
  <2> QED
    BY <1>4, <2>1, <2>2 DEF Attempt
<1> QED
  BY <1>2, <1>3, <1>4 DEF ChannelCommand, c

\* A QUIT that is cut short leaves a departed member behind.
LEMMA CutQuitMeetsDeparted ==
  ASSUME ReplayInv, NEW fd \in Fds, Quit(fd), NEW e \in chans, QuitThrows(fd, e)
  PROVE  ~MembersAreConnected'
<1>1. chan \in [Chans -> ChannelRec] /\ chans \subseteq Chans /\ Chans \subseteq Nat
  BY ChannelsAssumption DEF ReplayInv, ChannelsInv, ChannelsTypeOK
<1>2. PICK d \in chans : QuitThrows(fd, d) /\ \A b \in chans : QuitThrows(fd, b) => d <= b
  <2> DEFINE T == {b \in chans : QuitThrows(fd, b)}
  <2>1. PICK d \in T : \A b \in T : d <= b
    BY <1>1, LeastElement
  <2> QED
    BY <2>1
<1>3. chan'[d] = Erase(chan[d], client[fd].nick) /\ conn' = conn
  <2>1. \A b \in chans : b < d => ~QuitThrows(fd, b)
    BY <1>1, <1>2
  <2>2. HasEntry(fd, d)
    BY <1>2 DEF QuitThrows
  <2> QED
    BY <1>1, <2>1, <2>2 DEF Quit
<1>4. ~(Recipients(chan'[d]) \subseteq conn')
  BY <1>2, <1>3 DEF QuitThrows, Throws
<1> QED
  BY <1>1, <1>4 DEF MembersAreConnected

\* A QUIT that no broadcast cuts short leaves nobody of its client under the
\* present nickname.
LEMMA UncutQuitErases ==
  ASSUME ChannelsInv, NamesAreBlank, NEW fd \in Fds, Quit(fd),
         \A d \in chans : ~QuitThrows(fd, d),
         NEW c \in Chans
  PROVE  chan'[c].mem[client[fd].nick] # fd
<1> DEFINE n == client[fd].nick
<1>0. /\ n \in Names /\ chan \in [Chans -> ChannelRec] /\ chans \subseteq Chans
      /\ NoFd \notin Fds
  BY GoodClients, ChannelsAssumption
  DEF ChannelsInv, ChannelsTypeOK, GoodClient, Quit, Registered, ClientRec
<1> HIDE DEF n
<1>1. chan'[c] = IF c \in chans /\ HasEntry(fd, c) THEN Erase(chan[c], n) ELSE chan[c]
  BY DEF Quit, n
<1>2. CASE c \in chans /\ HasEntry(fd, c)
  <2>1. chan[c] \in ChannelRec /\ chan[c].mem \in [Names -> Fds \cup {NoFd}]
    BY <1>0 DEF ChannelRec
  <2>2. Erase(chan[c], n).mem = [chan[c].mem EXCEPT ![n] = NoFd]
    BY <1>0, <2>1, EraseMemLemma
  <2>3. chan'[c].mem[n] = NoFd
    BY <1>0, <1>1, <1>2, <2>1, <2>2
  <2> QED
    BY <1>0, <2>3 DEF n
<1>3. CASE c \in chans /\ ~HasEntry(fd, c)
  BY <1>0, <1>1, <1>3 DEF HasEntry, n
<1>4. CASE c \notin chans
  BY <1>0, <1>1, <1>4 DEF NamesAreBlank, Recipients, n
<1> QED
  BY <1>2, <1>3, <1>4

\* What Reflects asks of QUIT: the present nickname is out of every channel,
\* unless a broadcast cut the command short.
LEMMA QuitResult ==
  ASSUME ReplayInv, NamesAreBlank,
         NEW fd \in Fds, NEW cmd \in [op : Ops, on : Chans, arg : Names],
         fd = run.fd, run # NoRun, QuitCommand(fd, cmd)
  PROVE  LineResult(fd, cmd)
<1>0. /\ client \in [Fds -> ClientRec] /\ chan \in [Chans -> ChannelRec]
      /\ chans \subseteq Chans /\ ChannelsInv
  BY DEF ReplayInv, ChannelsInv, ChannelsTypeOK, ClientsTypeOK
<1>1. /\ cmd.op = "QUIT" /\ Quit(fd) /\ Advance(\E c \in chans : QuitThrows(fd, c))
      /\ client' = [client EXCEPT ![fd].closing = TRUE]
  BY DEF QuitCommand, Quit
<1>2. /\ client'[fd].nick = client[fd].nick /\ client'[fd].closing
      /\ client'[fd].done = client[fd].done
      /\ \A g \in Fds \ {fd} : client'[g] = client[g]
  BY <1>0, <1>1 DEF ClientRec
<1>3. client[fd].nick \in Names
  BY <1>1, GoodClients DEF ReplayInv, ChannelsInv, GoodClient, Quit, Registered, ClientRec
<1>4. \A c \in Chans : chan'[c].mode = chan[c].mode /\ Moves(cmd, c)
  <2> TAKE c \in Chans
  <2>1. Erase(chan[c], client[fd].nick).mode = chan[c].mode
    BY <1>0, <1>3, EraseLemma
  <2> QED
    BY <1>0, <1>1, <2>1 DEF Quit, Moves
<1>5. CASE \A c \in chans : ~QuitThrows(fd, c)
  <2>1. \A c \in Chans : chan'[c].mem[client'[fd].nick] # fd
    BY <1>0, <1>1, <1>2, <1>5, UncutQuitErases
  <2>2. \A c \in Chans, cut \in BOOLEAN : Reflects(fd, c, cmd.op, cut)'
    BY <1>1, <2>1 DEF Reflects
  <2> QED
    BY <1>1, <1>2, <1>4, <2>2 DEF LineResult, MembersAreConnected
<1>6. CASE \E c \in chans : QuitThrows(fd, c)
  <2>1. ~MembersAreConnected'
    BY <1>1, <1>6, CutQuitMeetsDeparted
  <2>2. run' = NoRun
    BY <1>1, <1>6 DEF Advance
  <2>3. \A c \in Chans : Reflects(fd, c, cmd.op, ~MembersAreConnected)'
    BY <1>1, <2>1 DEF Reflects
  <2> QED
    BY <1>1, <1>2, <1>4, <2>2, <2>3 DEF LineResult
<1> QED
  BY <1>5, <1>6

\* Every line of a run, in one statement.
LEMMA RunLineResult ==
  ASSUME ReplayInv, NoFlags, NamesAreBlank, RunLine,
         NEW fd, fd = run.fd, NEW k, k = run.next, NEW cmd, cmd = log[fd][k]
  PROVE  /\ fd \in Fds /\ fd \in conn
         /\ k \in Nat /\ k >= 1
         /\ log' = log /\ conn' = conn
         /\ LineResult(fd, cmd)
         /\ run' # NoRun => run'.fd = fd /\ run'.next = k + 1
<1>0. /\ run # NoRun
      /\ \/ RegistrationCommand(fd, cmd)
         \/ /\ client[fd].done
            /\ ClientCommand(fd, cmd) \/ ChannelCommand(fd, cmd) \/ QuitCommand(fd, cmd)
  BY DEF RunLine
<1>1. /\ fd \in Fds /\ fd \in conn /\ cmd \in [op : Ops, on : Chans, arg : Names]
  BY <1>0, NextLine, ReplayAssumption
<1>2. k \in Nat /\ k >= 1
  BY ReplayAssumption DEF ReplayInv, RunOK
<1>3. PICK throws \in BOOLEAN : Advance(throws)
  BY RunLineIsCommand
<1>4. LineResult(fd, cmd)
  BY <1>0, <1>1, RegistrationResult, ClientCommandResult, ChannelCommandResult, QuitResult
<1> QED
  BY <1>0, <1>1, <1>2, <1>3, <1>4, AdvanceLemma, RunLineIsCommand

\* The line that a run carries out joins the ones behind it.
LEMMA LineIsCarriedOut ==
  ASSUME ReplayInv, CurrentInv, RunLine,
         NEW fd, fd = run.fd, NEW k, k = run.next
  PROVE  /\ client'[fd].done \/ run' # NoRun => LastNickHolds(fd, k)'
         /\ client'[fd].done => \A c \in Chans :
              /\ ChannelIsCurrent(fd, c, k, ~MembersAreConnected)'
              /\ run' # NoRun => ChannelIsCurrent(fd, c, k, FALSE)'
<1>0. PICK s : s = log[fd]
  OBVIOUS
<1>1. /\ run # NoRun /\ fd \in Fds /\ k \in Nat /\ k >= 1 /\ s = log'[fd]
      /\ conn' = conn /\ conn \subseteq Fds
      /\ LineResult(fd, s[k])
  BY <1>0, RunLineResult
  DEF CurrentInv, ReplayInv, ChannelsInv, ChannelsTypeOK, ClientsTypeOK, RunLine
<1>2. /\ LastNickHolds(fd, k - 1)
      /\ client[fd].done => \A c \in Chans : ChannelIsCurrent(fd, c, k - 1, FALSE)
  BY <1>1 DEF CurrentInv, RunIsCurrent
<1>3. ASSUME client'[fd].done \/ run' # NoRun, NEW i \in 1 .. k,
             s[i].op = "NICK", \A j \in i + 1 .. k : s[j].op # "NICK"
      PROVE  Renamed(fd, s[i].arg)'
  <2>1. CASE i = k
    BY <1>1, <1>3, <2>1 DEF LineResult
  <2>2. CASE i # k
    <3>1. i \in 1 .. k - 1 /\ k \in i + 1 .. k /\ \A j \in i + 1 .. k - 1 : j \in i + 1 .. k
      BY <1>1, <2>2
    <3>2. Renamed(fd, s[i].arg)
      BY <1>0, <1>2, <1>3, <3>1 DEF LastNickHolds
    <3>3. /\ client'[fd].nick = client[fd].nick
          /\ \A g \in conn \ {fd} : client'[g] = client[g]
      BY <1>1, <1>3, <3>1 DEF LineResult
    <3> QED
      BY <1>1, <3>2, <3>3 DEF Renamed, IsAlreadyUsed
  <2> QED
    BY <2>1, <2>2
<1>4. ASSUME client'[fd].done, NEW c \in Chans, NEW i \in 1 .. k, Moves(s[i], c),
             \A j \in i + 1 .. k : ~Moves(s[j], c) /\ s[j].op \notin {"NICK", "USER"}
      PROVE  /\ Reflects(fd, c, s[i].op, ~MembersAreConnected /\ i = k)'
             /\ run' # NoRun => Reflects(fd, c, s[i].op, FALSE)'
  <2>1. CASE i = k
    <3>1. s[k].op \notin {"NICK", "USER"}
      BY <1>4, <2>1 DEF Moves
    <3>2. client[fd].done
      BY <1>1, <1>4, <3>1 DEF LineResult
    <3> QED
      BY <1>1, <1>4, <2>1, <3>2 DEF LineResult, Reflects
  <2>2. CASE i # k
    <3>1. i \in 1 .. k - 1 /\ k \in i + 1 .. k /\ \A j \in i + 1 .. k - 1 : j \in i + 1 .. k
      BY <1>1, <2>2
    <3>2. client[fd].done /\ client'[fd].nick = client[fd].nick /\ chan'[c] = chan[c]
      BY <1>1, <1>4, <3>1 DEF LineResult
    <3>3. Reflects(fd, c, s[i].op, FALSE)
      BY <1>0, <1>2, <1>4, <3>1, <3>2 DEF ChannelIsCurrent
    <3> QED
      BY <3>2, <3>3 DEF Reflects, IsMember
  <2> QED
    BY <2>1, <2>2
<1>5. client'[fd].done \/ run' # NoRun => LastNickHolds(fd, k)'
  BY <1>1, <1>3 DEF LastNickHolds
<1>6. ASSUME client'[fd].done, NEW c \in Chans
      PROVE  /\ ChannelIsCurrent(fd, c, k, ~MembersAreConnected)'
             /\ run' # NoRun => ChannelIsCurrent(fd, c, k, FALSE)'
  BY <1>1, <1>4, <1>6 DEF ChannelIsCurrent
<1> QED
  BY <1>5, <1>6

\* The action of RunsEndUpToDate.
RunEndsUpToDate(fd) ==
  /\ run.fd = fd /\ run' = NoRun /\ client'[fd].done
  /\ run.next = Len(log[fd]) \/ ~client'[fd].closing
  => /\ NameIsCurrent(fd, Len(log[fd]))'
     /\ \A c \in Chans :
          ChannelIsCurrent(fd, c, Len(log[fd]), ~MembersAreConnected)'

\* A nickname is stored by a line NICK, and buffers only grow.
LEMMA NickLogStep ==
  ASSUME ReplayInv, CurrentInv, [ReplayNext]_allVars
  PROVE  NickIsLogged'
<1>0. /\ client \in [Fds -> ClientRec] /\ log \in [Fds -> Seq(Cmds)] /\ NickIsLogged
      /\ \A fd \in Fds : Len(log[fd]) \in Nat
  BY LenProperties
  DEF CurrentInv, ReplayInv, RunOK, ChannelsInv, ChannelsTypeOK, ClientsTypeOK
<1>1. CASE ClientArrives \/ ClientLeaves
  <2>1. PICK fd \in Fds :
          /\ client' = [client EXCEPT ![fd] = NewClient]
          /\ log' = [log EXCEPT ![fd] = <<>>]
    BY <1>1 DEF ClientArrives, ClientLeaves, AddClient, DelClient
  <2>2. client'[fd].nick = Empty
    BY <1>0, <2>1 DEF NewClient
  <2>3. \A g \in Fds \ {fd} : client'[g] = client[g] /\ log'[g] = log[g]
    BY <1>0, <2>1
  <2> QED
    BY <1>0, <2>2, <2>3 DEF NickIsLogged
<1>2. ASSUME NEW fd \in Fds, NEW lines \in Messages, Receive(fd, lines)
      PROVE  NickIsLogged'
  <2>1. log' = [log EXCEPT ![fd] = log[fd] \o lines] /\ client' = client
    BY <1>2 DEF Receive, vars
  <2>2. log[fd] \in Seq(Cmds) /\ lines \in Seq(Cmds)
    BY <1>0, ReplayAssumption
  <2>3. /\ Len(log'[fd]) >= Len(log[fd]) /\ Len(log'[fd]) \in Nat
        /\ \A i \in 1 .. Len(log[fd]) : log'[fd][i] = log[fd][i]
    BY <1>0, <2>1, <2>2, ConcatProperties, LenProperties
  <2>4. \A g \in Fds \ {fd} : log'[g] = log[g]
    BY <1>0, <2>1
  <2>5. ASSUME NEW g \in Fds, client[g].nick # Empty
        PROVE  \E i \in 1 .. Len(log'[g]) : log'[g][i].op = "NICK"
    <3>1. PICK i \in 1 .. Len(log[g]) : log[g][i].op = "NICK"
      BY <1>0, <2>5 DEF NickIsLogged
    <3>2. i \in 1 .. Len(log'[g]) /\ log'[g][i] = log[g][i]
      BY <1>0, <2>3, <2>4
    <3> QED
      BY <3>1, <3>2
  <2> QED
    BY <2>1, <2>5 DEF NickIsLogged
<1>3. CASE RunLine
  <2>1. PICK fd, k, cmd : fd = run.fd /\ k = run.next /\ cmd = log[fd][k]
    OBVIOUS
  <2>2. /\ fd \in Fds /\ k \in Nat /\ k >= 1 /\ log' = log /\ LineResult(fd, cmd)
    BY <1>3, <2>1, RunLineResult DEF CurrentInv
  <2>3. k \in 1 .. Len(log[fd])
    BY <1>0, <1>3, <2>1, <2>2 DEF RunLine, ReplayInv, RunOK
  <2> QED
    BY <1>0, <2>1, <2>2, <2>3 DEF LineResult, NickIsLogged
<1>4. CASE UNCHANGED allVars
  BY <1>0, <1>4 DEF allVars, NickIsLogged
<1> QED
  BY <1>1, <1>2, <1>3, <1>4 DEF ReplayNext

\* CurrentInv is inductive: what a line carries out joins what the lines
\* before it have carried out, and a new run has none behind it.
LEMMA CurrentStep ==
  ASSUME ReplayInv, CurrentInv, [ReplayNext]_allVars
  PROVE  CurrentInv'
<1>1. NamesAreBlank' /\ NickIsLogged'
  BY BlankStep, ReplayStep, NickLogStep DEF ReplayInv, CurrentInv
<1>2. CASE ClientArrives \/ ClientLeaves
  BY <1>1, <1>2
  DEF ClientArrives, ClientLeaves, CurrentInv, NoFlags, RunIsCurrent
<1>3. ASSUME NEW fd \in Fds, NEW lines \in Messages, Receive(fd, lines)
      PROVE  CurrentInv'
  <2>1. run'.next - 1 = 0 /\ UNCHANGED vars
    BY <1>3 DEF Receive
  <2>2. RunIsCurrent'
    BY <2>1 DEF RunIsCurrent, LastNickHolds, ChannelIsCurrent
  <2> QED
    BY <1>1, <2>1, <2>2 DEF CurrentInv, NoFlags, vars
<1>4. CASE RunLine
  <2>1. PICK fd, k, cmd : fd = run.fd /\ k = run.next /\ cmd = log[fd][k]
    OBVIOUS
  <2>2. /\ fd \in Fds /\ k \in Nat /\ LineResult(fd, cmd)
        /\ run' # NoRun => run'.fd = fd /\ run'.next = k + 1
    BY <1>4, <2>1, RunLineResult DEF CurrentInv
  <2>3. NoFlags'
    BY <2>2 DEF LineResult, CurrentInv, NoFlags
  <2>4. ASSUME run' # NoRun PROVE RunIsCurrent'
    <3>1. run'.fd = fd /\ run'.next - 1 = k
      BY <2>2, <2>4
    <3>2. /\ LastNickHolds(fd, k)'
          /\ client'[fd].done => \A c \in Chans : ChannelIsCurrent(fd, c, k, FALSE)'
      BY <1>4, <2>1, <2>4, LineIsCarriedOut
    <3> QED
      BY <3>1, <3>2 DEF RunIsCurrent
  <2>5. RunIsCurrent'
    BY <2>4 DEF RunIsCurrent, NoRun
  <2> QED
    BY <1>1, <2>3, <2>5 DEF CurrentInv
<1>5. CASE UNCHANGED allVars
  <2>1. UNCHANGED vars /\ log' = log /\ run' = run
    BY <1>5 DEF allVars, vars
  <2> QED
    BY <1>1, <2>1, ZenonT(40)
    DEF vars, CurrentInv, NoFlags, RunIsCurrent, LastNickHolds, Renamed, IsAlreadyUsed,
        ChannelIsCurrent, Reflects, IsMember
<1> QED
  BY <1>2, <1>3, <1>4, <1>5 DEF ReplayNext

\* The last line of a run, when those before it are carried out.
LEMMA RunEndLemma ==
  ASSUME ReplayInv, ReplayInv', CurrentInv, CurrentInv', ReplayNext, NEW fd \in Fds
  PROVE  RunEndsUpToDate(fd)
<1> SUFFICES ASSUME run.fd = fd, run' = NoRun, client'[fd].done,
                    run.next = Len(log[fd]) \/ ~client'[fd].closing
             PROVE  /\ NameIsCurrent(fd, Len(log[fd]))'
                    /\ \A c \in Chans :
                         ChannelIsCurrent(fd, c, Len(log[fd]), ~MembersAreConnected)'
  BY DEF RunEndsUpToDate
<1>1. RunLine
  <2>1. run # NoRun
    BY ChannelsAssumption DEF NoRun
  <2> QED
    BY <2>1 DEF ReplayNext, ClientArrives, ClientLeaves, Receive
<1>2. PICK k, cmd : k = run.next /\ cmd = log[fd][k]
  OBVIOUS
<1>3. /\ fd \in conn' /\ k \in Nat /\ log' = log /\ LineResult(fd, cmd)
  BY <1>1, <1>2, RunLineResult DEF CurrentInv
<1>4. k = Len(log'[fd])
  BY <1>2, <1>3 DEF LineResult
<1>5. LastNickHolds(fd, k)' /\ \A c \in Chans :
        ChannelIsCurrent(fd, c, k, ~MembersAreConnected)'
  BY <1>1, <1>2, LineIsCarriedOut
<1>6. PICK i \in 1 .. k : /\ log'[fd][i].op = "NICK"
                          /\ \A j \in i + 1 .. k : log'[fd][j].op # "NICK"
  <2> DEFINE T == {i \in 1 .. k : log'[fd][i].op = "NICK"}
  <2>1. client'[fd].nick # Empty
    BY <1>3 DEF ReplayInv, ChannelsInv, IInv, RegisteredIsValid
  <2>2. T # {} /\ T \in SUBSET (0 .. k)
    BY <1>3, <1>4, <2>1 DEF CurrentInv, NickIsLogged
  <2>3. PICK i \in T : \A j \in T : j <= i
    BY <1>3, <2>2, GreatestElement
  <2>4. \A j \in i + 1 .. k : j \in 1 .. k /\ ~(j <= i)
    BY <1>3, <2>3
  <2> QED
    BY <2>3, <2>4
<1>7. Renamed(fd, log[fd][i].arg)'
  BY <1>5, <1>6 DEF LastNickHolds
<1>8. NameIsCurrent(fd, k)'
  BY <1>6, <1>7 DEF NameIsCurrent
<1> QED
  BY <1>4, <1>5, <1>8

\* CurrentInv in every state of the server.
LEMMA CurrentInvHolds == ReplaySpec => []CurrentInv
<1>1. ReplayInit => CurrentInv
  <2> SUFFICES ASSUME ReplayInit PROVE CurrentInv
    OBVIOUS
  <2>1. /\ \A c \in Chans : chan[c] = NewChannel
        /\ \A fd \in Fds : client[fd] = NewClient
        /\ run = NoRun
    BY DEF ReplayInit, ChannelsInit, ClientsInit
  <2>2. NamesAreBlank
    BY <2>1, NewChannelIsBlank DEF NamesAreBlank
  <2> QED
    BY <2>1, <2>2 DEF CurrentInv, NoFlags, NickIsLogged, RunIsCurrent, NewChannel, NewClient
<1>2. ReplayInv /\ CurrentInv /\ [ReplayNext]_allVars => CurrentInv'
  BY CurrentStep
<1> QED
  BY <1>1, <1>2, ReplayInvHolds, PTL DEF ReplaySpec

\* Running all lines of a client again, with every message and whatever the
\* others did since, does not set it back: after a run that was not cut short
\* it has the nickname of its last NICK, and is in or out of every channel as
\* its last line about that channel says.
THEOREM RunsKeepUp == ReplaySpec => RunsEndUpToDate
<1>1. ReplayInv /\ ReplayInv' /\ CurrentInv /\ CurrentInv' /\ [ReplayNext]_allVars
        => [\A fd \in Fds : RunEndsUpToDate(fd)]_allVars
  BY RunEndLemma
<1> QED
  BY <1>1, ReplayInvHolds, CurrentInvHolds, PTL
  DEF ReplaySpec, RunsEndUpToDate, RunEndsUpToDate
=============================================================================
