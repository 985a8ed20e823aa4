------------------------------ MODULE Channels ------------------------------
(***************************************************************************)
(* The channels of the IRC server (class Channel, the map _channels) and   *)
(* the commands that change them, on top of the clients: JOIN, PART, KICK, *)
(* MODE <channel>, TOPIC, QUIT, and INVITE, PRIVMSG and NOTICE for the     *)
(* exceptions they may raise.                                              *)
(*                                                                         *)
(* A channel stores copies of Client objects under the nickname of the     *)
(* JOIN. Replies to a member go to the descriptor of its copy; when no     *)
(* client has that descriptor any more, retrieveClient dereferences end()  *)
(* of _clients. The build then raises std::bad_alloc out of setSendBuffer, *)
(* which manageServerLoop catches as any exception: the rest of the line   *)
(* is lost and its sender marked for disconnection.                        *)
(*                                                                         *)
(* A command with a list of channels is as many commands with one; a MODE  *)
(* line is one step for each letter (see OpenLine).                        *)
(***************************************************************************)
EXTENDS Clients

CONSTANTS
  Chans,    \* channels, numbered in the order of the map _channels
  Keys,     \* alphabetic words: the keys +k accepts
  Topics,   \* topics other than the empty one
  Letters,  \* mode letters explored
  NoFd      \* not a descriptor

ASSUME ChannelsAssumption ==
  /\ Chans \subseteq Nat
  /\ Empty \notin Keys \cup Topics
  /\ Letters \subseteq {"o", "t", "s", "k"}
  /\ NoFd \notin Fds

VARIABLES
  chans,    \* keys of _channels
  chan,     \* the Channel objects; a blank one for a name not in chans
  line      \* the MODE line being executed, NoLine between lines

channelVars == <<chans, chan, line>>
vars == <<conn, client, chans, chan, line>>

(***************************************************************************)
(* mem: the descriptors of the copies in _clientList, by nickname. hidden: *)
(* the nicknames whose copy has the user mode i. ops: _operators. kicked:  *)
(* _kicked_users. mode: the letters of _mode (at most once each, as are    *)
(* the entries of the two vectors). key: _channel_password.                *)
(* _banned_users is not modelled: nothing ever adds to it.                 *)
(***************************************************************************)
ChannelRec ==
  [mem : [Names -> Fds \cup {NoFd}], hidden : SUBSET Names,
   ops : SUBSET Names, kicked : SUBSET Names,
   mode : SUBSET {"t", "s", "k"}, key : Keys \cup {Empty},
   topic : Topics \cup {Empty}]

NewChannel ==
  [mem |-> [n \in Names |-> NoFd], hidden |-> {}, ops |-> {}, kicked |-> {},
   mode |-> {}, key |-> Empty, topic |-> Empty]

Params == Names \cup Keys \cup {Empty}
NoLine == [fd |-> NoFd, on |-> 0, param |-> Empty]
Lines == [fd : Fds, on : Chans, param : Params]

ChannelsTypeOK ==
  /\ ClientsTypeOK
  /\ chans \subseteq Chans
  /\ chan \in [Chans -> ChannelRec]
  /\ line \in Lines \cup {NoLine}

ChannelsInit ==
  /\ ClientsInit
  /\ chans = {}
  /\ chan = [c \in Chans |-> NewChannel]
  /\ line = NoLine

----------------------------------------------------------------------------
(* Members and broadcasts *)

IsMember(c, n) == chan[c].mem[n] # NoFd

Recipients(ch) == {ch.mem[n] : n \in Names} \ {NoFd}

\* A broadcast to the members of ch, except those with descriptor fd, meets
\* a member whose client is gone.
Throws(ch, fd) == ~(Recipients(ch) \ {fd} \subseteq conn)

\* What the line of fd leaves on its client.
Outcome(fd, throws) ==
  client' = IF throws THEN [client EXCEPT ![fd].closing = TRUE] ELSE client

Erase(ch, n) ==
  [ch EXCEPT !.mem[n] = NoFd, !.hidden = @ \ {n}]

\* A command line of a registered client on an existing channel, outside of
\* a MODE line.
Commands(fd, c) ==
  /\ line = NoLine
  /\ Registered(fd)
  /\ c \in chans

\* The channel is updated first, then the change is broadcast.
Update(fd, c, ch) ==
  /\ chan' = [chan EXCEPT ![c] = ch]
  /\ Outcome(fd, Throws(ch, NoFd))

----------------------------------------------------------------------------
(* JOIN, PART, KICK *)

\* insert() in std::map leaves the entry of a nickname already present.
Insert(ch, n, fd) ==
  IF ch.mem[n] # NoFd THEN ch
  ELSE [ch EXCEPT !.mem[n] = fd,
                  !.hidden = IF client[fd].inv THEN @ \cup {n} ELSE @]

MayJoin(fd, c, k) ==
  /\ line = NoLine
  /\ Registered(fd)
  /\ "k" \in chan[c].mode => k = chan[c].key

\* Operator status is for the first to join a channel that has no operator.
Join(fd, c, k) ==
  LET n == client[fd].nick
      entered == Insert(chan[c], n, fd)
  IN /\ MayJoin(fd, c, k)
     /\ chans' = chans \cup {c}
     /\ Update(fd, c, [entered EXCEPT !.ops = IF @ = {} THEN {n} ELSE @])
     /\ UNCHANGED <<conn, line>>

MayPart(fd, c) == Commands(fd, c) /\ IsMember(c, client[fd].nick)

Part(fd, c) ==
  /\ MayPart(fd, c)
  /\ Update(fd, c, Erase(chan[c], client[fd].nick))
  /\ UNCHANGED <<conn, chans, line>>

\* Mutant: any member may kick.
MutantKick(fd, c, n) ==
  /\ Commands(fd, c)
  /\ IsMember(c, client[fd].nick)
  /\ IsMember(c, n)
  /\ Update(fd, c, [Erase(chan[c], n) EXCEPT !.kicked = @ \cup {n}])
  /\ UNCHANGED <<conn, chans, line>>

MayKick(fd, c, n) ==
  /\ Commands(fd, c)
  /\ IsMember(c, client[fd].nick)
  /\ IsMember(c, n)
  /\ client[fd].nick \in chan[c].ops

Kick(fd, c, n) ==
  /\ MayKick(fd, c, n)
  /\ Update(fd, c, [Erase(chan[c], n) EXCEPT !.kicked = @ \cup {n}])
  /\ UNCHANGED <<conn, chans, line>>

----------------------------------------------------------------------------
(* QUIT *)

HasEntry(fd, c) == \E n \in Names : chan[c].mem[n] = fd

QuitThrows(fd, c) ==
  /\ HasEntry(fd, c)
  /\ Throws(Erase(chan[c], client[fd].nick), fd)

\* Mutant: the search stops at the first channel of the client.
MutantQuit(fd) ==
  LET left(c) == /\ c \in chans /\ HasEntry(fd, c)
                 /\ \A d \in chans : HasEntry(fd, d) => c <= d
  IN /\ line = NoLine
     /\ Registered(fd)
     /\ chan' = [c \in Chans |-> IF left(c) THEN Erase(chan[c], client[fd].nick)
                                 ELSE chan[c]]
     /\ client' = [client EXCEPT ![fd].closing = TRUE]
     /\ UNCHANGED <<conn, chans, line>>

\* The channels are visited in order until a broadcast throws. In a channel
\* with an entry of its descriptor, the client erases the entry of its
\* current nickname. Thrown or not, the client is marked; its connection
\* stays open.
Quit(fd) ==
  LET reached(c) == \A d \in chans : d < c => ~QuitThrows(fd, d)
      left(c) == c \in chans /\ HasEntry(fd, c) /\ reached(c)
  IN /\ line = NoLine
     /\ Registered(fd)
     /\ chan' = [c \in Chans |-> IF left(c) THEN Erase(chan[c], client[fd].nick)
                                 ELSE chan[c]]
     /\ client' = [client EXCEPT ![fd].closing = TRUE]
     /\ UNCHANGED <<conn, chans, line>>

----------------------------------------------------------------------------
(* TOPIC, INVITE, PRIVMSG, NOTICE *)

MayTopic(fd, c) ==
  /\ Commands(fd, c)
  /\ IsMember(c, client[fd].nick)
  /\ "t" \in chan[c].mode => client[fd].nick \in chan[c].ops

Topic(fd, c, t) ==
  /\ MayTopic(fd, c)
  /\ Update(fd, c, [chan[c] EXCEPT !.topic = t])
  /\ UNCHANGED <<conn, chans, line>>

\* After its reply, invite() looks the invited nickname up among the members,
\* where it just found it missing, and dereferences end() of their map: the
\* line ends with or without an exception (here: with one).
Invite(fd, c, n) ==
  /\ Commands(fd, c)
  /\ IsMember(c, client[fd].nick)
  /\ ~IsMember(c, n)
  /\ Outcome(fd, TRUE)
  /\ UNCHANGED <<conn, chans, chan, line>>

\* A message to a channel, of which its sender need not be a member. It
\* changes the state only if its broadcast throws.
Notice(fd, c) ==
  /\ Commands(fd, c)
  /\ Throws(chan[c], fd)
  /\ Outcome(fd, TRUE)
  /\ UNCHANGED <<conn, chans, chan, line>>

\* The same, for a sender whose nickname was never kicked.
Privmsg(fd, c) == client[fd].nick \notin chan[c].kicked /\ Notice(fd, c)

----------------------------------------------------------------------------
(* MODE <channel> <modestring> [<parameter>] *)

\* Mutant: membership is enough to change modes.
MutantOpenLine(fd, c, p) ==
  /\ Commands(fd, c)
  /\ IsMember(c, client[fd].nick)
  /\ line' = [fd |-> fd, on |-> c, param |-> p]
  /\ UNCHANGED <<conn, client, chans, chan>>

\* The right to change modes is checked once, before the first letter. All
\* letters of the line share its parameter. Until CloseLine, or until a
\* broadcast throws, no other line is executed.
OpenLine(fd, c, p) ==
  /\ Commands(fd, c)
  /\ client[fd].nick \in chan[c].ops
  /\ line' = [fd |-> fd, on |-> c, param |-> p]
  /\ UNCHANGED <<conn, client, chans, chan>>

CloseLine ==
  /\ line # NoLine
  /\ line' = NoLine
  /\ UNCHANGED <<conn, client, chans, chan>>

\* A letter that changes the channel: the change is broadcast.
Change(ch) ==
  /\ Update(line.fd, line.on, ch)
  /\ line' = IF Throws(ch, NoFd) THEN NoLine ELSE line
  /\ UNCHANGED <<conn, chans>>

OperatorLetter(sign) ==
  LET ch == chan[line.on]
      n == line.param
  IN /\ line # NoLine
     /\ n \in Names
     /\ \E g \in conn : client[g].nick = n
     /\ IsMember(line.on, n)
     /\ \/ /\ sign = "+" /\ n \notin ch.ops
           /\ Change([ch EXCEPT !.ops = @ \cup {n}])
        \/ /\ sign = "-" /\ n \in ch.ops
           /\ Change([ch EXCEPT !.ops = @ \ {n}])

FlagLetter(sign, f) ==
  LET ch == chan[line.on]
  IN /\ line # NoLine
     /\ \/ /\ sign = "+" /\ f \notin ch.mode
           /\ Change([ch EXCEPT !.mode = @ \cup {f}])
        \/ /\ sign = "-" /\ f \in ch.mode
           /\ Change([ch EXCEPT !.mode = @ \ {f}])

\* Mutant: any parameter is taken as the key.
MutantKeyLetter(sign) ==
  /\ line # NoLine
  /\ sign = "+"
  /\ "k" \notin chan[line.on].mode
  /\ Change([chan[line.on] EXCEPT !.mode = @ \cup {"k"}, !.key = line.param])

\* Mutant: the letter is broadcast before the key is stored.
MutantKeyOrder(sign) ==
  LET lettered == [chan[line.on] EXCEPT !.mode = @ \cup {"k"}]
  IN /\ line # NoLine
     /\ sign = "+"
     /\ "k" \notin chan[line.on].mode
     /\ line.param \in Keys
     /\ Change(IF Throws(lettered, NoFd) THEN lettered
               ELSE [lettered EXCEPT !.key = line.param])

KeyLetter(sign) ==
  LET ch == chan[line.on]
  IN /\ line # NoLine
     /\ line.param # Empty
     /\ \/ /\ sign = "+" /\ "k" \notin ch.mode
           /\ line.param \in Keys
           /\ Change([ch EXCEPT !.mode = @ \cup {"k"}, !.key = line.param])
        \/ /\ sign = "-" /\ "k" \in ch.mode
           /\ Change([ch EXCEPT !.mode = @ \ {"k"}, !.key = Empty])

ModeLine ==
  \/ \E fd \in Fds, c \in Chans, p \in Params : OpenLine(fd, c, p)
  \/ CloseLine
  \/ \E sign \in {"+", "-"} :
       \/ "o" \in Letters /\ OperatorLetter(sign)
       \/ \E f \in {"t", "s"} \cap Letters : FlagLetter(sign, f)
       \/ "k" \in Letters /\ KeyLetter(sign)

----------------------------------------------------------------------------

ClientLine == line = NoLine /\ ClientsNext /\ UNCHANGED channelVars

ChannelLine ==
  \E fd \in Fds :
    \/ \E c \in Chans :
         \/ \E k \in Keys \cup {Empty} : Join(fd, c, k)
         \/ Part(fd, c)
         \/ \E n \in Names : Kick(fd, c, n) \/ Invite(fd, c, n)
         \/ \E t \in Topics \cup {Empty} : Topic(fd, c, t)
         \/ Notice(fd, c)
         \/ Privmsg(fd, c)
    \/ Quit(fd)

ChannelsNext == ClientLine \/ ChannelLine \/ ModeLine

ChannelsSpec == ChannelsInit /\ [][ChannelsNext]_vars

----------------------------------------------------------------------------
(* Properties *)

\* The key and its letter agree, also when the broadcast that follows a
\* change of both is interrupted by an exception.
KeyConsistent ==
  \A c \in Chans : chan[c].key # Empty <=> "k" \in chan[c].mode

\* The rest of a MODE line is executed for a connected client that is an
\* operator, or was one until this line took it away.
LineIsAuthorised ==
  line # NoLine =>
    /\ Registered(line.fd)
    /\ line.on \in chans
    /\ client[line.fd].nick \in chan[line.on].ops \cup {line.param}

\* Every channel behaves as a Room: whatever connections break and commands
\* fail, members enter with the key, authority passes from operator to
\* operator, and protected settings only change in their hands.
Chair(c) ==
  IF line # NoLine /\ line.on = c THEN client[line.fd].nick ELSE Empty

Rooms(c) ==
  INSTANCE Room WITH
    members <- {n \in Names : chan[c].mem[n] # NoFd},
    ops <- chan[c].ops, outcasts <- chan[c].kicked, flags <- chan[c].mode, key <- chan[c].key,
    topic <- chan[c].topic, chair <- Chair(c)

\* (\A c \in Chans : Rooms(c)!Spec, in the form TLC accepts.)
ChannelsAreRooms ==
  /\ \A c \in Chans : Rooms(c)!Init
  /\ [][\A c \in Chans : [Rooms(c)!Next]_(Rooms(c)!vars)]_vars

\* A client that kept its nickname since its joins quits no channel but its
\* own, and all of them: with no departed member anywhere, QUIT takes out its
\* entries and nobody else's. (A broadcast to a departed member cuts it short.)
KeptName(fd) ==
  \A c \in Chans, n \in Names : chan[c].mem[n] = fd => n = client[fd].nick

QuitIsComplete ==
  [][\A fd \in Fds :
       /\ Quit(fd)
       /\ KeptName(fd)
       /\ \A c \in Chans : Recipients(chan[c]) \subseteq conn
       => \A c \in Chans, n \in Names :
            chan'[c].mem[n] = IF chan[c].mem[n] = fd THEN NoFd ELSE chan[c].mem[n]]_vars

----------------------------------------------------------------------------
(* What documentation says and the code does not do *)

\* The members of a channel are clients of the server, and receive what is
\* said in it.
MembersAreConnected == \A c \in Chans : Recipients(chan[c]) \subseteq conn

\* "erase user from the chan": a QUIT that meets no departed member leaves no
\* entry of its client in a channel, whatever its nickname was at the JOIN.
QuitErasesUser ==
  [][\A fd \in Fds :
       Quit(fd) /\ (\A c \in Chans : Recipients(chan[c]) \subseteq conn)
       => \A c \in Chans : fd \notin Recipients(chan'[c])]_vars
=============================================================================
