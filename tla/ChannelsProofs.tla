--------------------------- MODULE ChannelsProofs ---------------------------
(***************************************************************************)
(* Proofs about module Channels. The inductive invariant adds to the one   *)
(* of the clients the types, the agreement of key and letter k, and the    *)
(* authority behind the MODE line in progress; none of the three needs     *)
(* the others, but all need the types.                                     *)
(* The last section is about QUIT, which leaves every channel at once.     *)
(***************************************************************************)
EXTENDS Channels, ClientsProofs

ChannelsInv == IInv /\ ChannelsTypeOK /\ KeyConsistent /\ LineIsAuthorised

----------------------------------------------------------------------------
(* Lemmas on the operators *)

\* A channel just created is well formed.
LEMMA NewChannelType == NewChannel \in ChannelRec
  BY DEF NewChannel, ChannelRec

\* A join adds at most one entry, and takes none away.
LEMMA InsertLemma ==
  ASSUME NEW ch \in ChannelRec, NEW n \in Names, NEW fd \in Fds
  PROVE  /\ Insert(ch, n, fd) \in ChannelRec
         /\ Insert(ch, n, fd).ops = ch.ops
         /\ Insert(ch, n, fd).kicked = ch.kicked
         /\ Insert(ch, n, fd).mode = ch.mode
         /\ Insert(ch, n, fd).key = ch.key
         /\ Insert(ch, n, fd).topic = ch.topic
  BY DEF Insert, ChannelRec

\* A JOIN leaves the copies of all other nicknames alone, and its own once it is there.
LEMMA InsertMemLemma ==
  ASSUME NEW ch \in ChannelRec, NEW n \in Names, NEW fd \in Fds
  PROVE  Insert(ch, n, fd).mem =
           [ch.mem EXCEPT ![n] = IF ch.mem[n] # NoFd THEN ch.mem[n] ELSE fd]
  BY DEF Insert, ChannelRec

\* Taking a member out of a well-formed channel leaves it well formed.
LEMMA EraseLemma ==
  ASSUME NEW ch \in ChannelRec, NEW n \in Names
  PROVE  /\ Erase(ch, n) \in ChannelRec
         /\ Erase(ch, n).ops = ch.ops
         /\ Erase(ch, n).kicked = ch.kicked
         /\ Erase(ch, n).mode = ch.mode
         /\ Erase(ch, n).key = ch.key
         /\ Erase(ch, n).topic = ch.topic
  BY DEF Erase, ChannelRec

\* PART, KICK and QUIT take out one nickname and leave the other copies alone.
LEMMA EraseMemLemma ==
  ASSUME NEW ch \in ChannelRec, NEW n \in Names
  PROVE  Erase(ch, n).mem = [ch.mem EXCEPT ![n] = NoFd]
  BY DEF Erase, ChannelRec

\* The key and its letter agree in ch.
Consistent(ch) == ch.key # Empty <=> "k" \in ch.mode

\* Members, operators and kicked users do not matter to the key.
LEMMA ConsistentLemma ==
  ASSUME NEW ch \in ChannelRec, Consistent(ch), NEW n \in Names, NEW fd \in Fds
  PROVE  /\ Erase(ch, n) \in ChannelRec /\ Consistent(Erase(ch, n))
         /\ Insert(ch, n, fd) \in ChannelRec /\ Consistent(Insert(ch, n, fd))
         /\ \A x \in SUBSET Names :
              /\ [ch EXCEPT !.ops = x] \in ChannelRec
              /\ Consistent([ch EXCEPT !.ops = x])
              /\ [ch EXCEPT !.kicked = x] \in ChannelRec
              /\ Consistent([ch EXCEPT !.kicked = x])
<1>1. /\ Erase(ch, n) \in ChannelRec /\ Consistent(Erase(ch, n))
  BY EraseLemma DEF Consistent
<1>2. /\ Insert(ch, n, fd) \in ChannelRec /\ Consistent(Insert(ch, n, fd))
  <2>1. /\ Insert(ch, n, fd) \in ChannelRec
        /\ Insert(ch, n, fd).key = ch.key /\ Insert(ch, n, fd).mode = ch.mode
    BY InsertLemma
  <2> QED
    BY <2>1 DEF Consistent
<1>3. ASSUME NEW x \in SUBSET Names
      PROVE  /\ [ch EXCEPT !.ops = x] \in ChannelRec
             /\ Consistent([ch EXCEPT !.ops = x])
             /\ [ch EXCEPT !.kicked = x] \in ChannelRec
             /\ Consistent([ch EXCEPT !.kicked = x])
  <2>1. [ch EXCEPT !.ops = x] \in ChannelRec /\ [ch EXCEPT !.kicked = x] \in ChannelRec
    BY DEF ChannelRec
  <2>2. /\ [ch EXCEPT !.ops = x].key = ch.key /\ [ch EXCEPT !.kicked = x].key = ch.key
        /\ [ch EXCEPT !.ops = x].mode = ch.mode /\ [ch EXCEPT !.kicked = x].mode = ch.mode
    BY DEF ChannelRec
  <2> QED
    BY <2>1, <2>2 DEF Consistent
<1> QED
  BY <1>1, <1>2, <1>3

\* A broadcast, thrown or not, changes no nickname and no registration.
LEMMA OutcomeLemma ==
  ASSUME IInv, NEW fd \in conn, NEW throws \in BOOLEAN,
         Outcome(fd, throws), conn' = conn
  PROVE  /\ IInv'
         /\ \A g \in Fds : /\ client'[g].nick = client[g].nick
                           /\ client'[g].done = client[g].done
<1>0. client \in [Fds -> ClientRec] /\ conn \subseteq Fds
  BY DEF IInv, ClientsTypeOK
<1>1. CASE throws
  <2>1. client' = [client EXCEPT ![fd] = [client[fd] EXCEPT !.closing = TRUE]]
    BY <1>1 DEF Outcome
  <2>2. IInv'
    BY <2>1, GoodClients, CommandKeepsGood, OneClientChanges
  <2>3. \A g \in Fds : /\ client'[g].nick = client[g].nick
                       /\ client'[g].done = client[g].done
    BY <1>0, <2>1 DEF ClientRec
  <2> QED
    BY <2>2, <2>3
<1>2. CASE ~throws
  BY <1>2 DEF Outcome, IInv, ClientsTypeOK, RegisteredIsValid, RefusedIsMarked
<1> QED
  BY <1>1, <1>2

\* A channel is replaced and the change broadcast.
LEMMA UpdateLemma ==
  ASSUME ChannelsInv, NEW fd \in conn, NEW c \in Chans, NEW ch \in ChannelRec,
         Consistent(ch), Update(fd, c, ch), conn' = conn
  PROVE  /\ IInv'
         /\ \A g \in Fds : /\ client'[g].nick = client[g].nick
                           /\ client'[g].done = client[g].done
         /\ chan' \in [Chans -> ChannelRec]
         /\ KeyConsistent'
         /\ chan'[c] = ch
<1>1. Throws(ch, NoFd) \in BOOLEAN
  BY DEF Throws
<1>2. /\ IInv'
      /\ \A g \in Fds : /\ client'[g].nick = client[g].nick
                        /\ client'[g].done = client[g].done
  BY <1>1, OutcomeLemma DEF Update, ChannelsInv
<1>3. chan \in [Chans -> ChannelRec] /\ chan' = [chan EXCEPT ![c] = ch]
  BY DEF ChannelsInv, ChannelsTypeOK, Update
<1>4. chan' \in [Chans -> ChannelRec] /\ chan'[c] = ch
  BY <1>3
<1>5. KeyConsistent'
  BY <1>3 DEF ChannelsInv, KeyConsistent, Consistent
<1> QED
  BY <1>2, <1>4, <1>5

\* A command that is one update of one channel, between two MODE lines.
LEMMA CommandKeepsInv ==
  ASSUME ChannelsInv, NEW fd \in Fds, Registered(fd), NEW c \in Chans,
         NEW ch \in ChannelRec, Consistent(ch), Update(fd, c, ch),
         conn' = conn, chans' \subseteq Chans, line = NoLine, line' = line
  PROVE  ChannelsInv'
<1>1. fd \in conn
  BY DEF Registered
<1> QED
  BY <1>1, UpdateLemma
  DEF ChannelsInv, ChannelsTypeOK, IInv, LineIsAuthorised

\* A letter of a MODE line: it leaves its sender an operator, unless the
\* sender is the parameter.
LEMMA LetterKeepsInv ==
  ASSUME ChannelsInv, line # NoLine, NEW ch \in ChannelRec, Consistent(ch),
         chan[line.on].ops \subseteq ch.ops \cup {line.param}, Change(ch)
  PROVE  ChannelsInv'
<1>1. /\ line \in Lines /\ line.fd \in conn /\ line.fd \in Fds /\ line.on \in Chans
      /\ line.on \in chans
      /\ client[line.fd].nick \in chan[line.on].ops \cup {line.param}
      /\ client[line.fd].done
  BY DEF ChannelsInv, ChannelsTypeOK, LineIsAuthorised, Lines, Registered
<1>2. conn' = conn /\ chans' = chans /\ Update(line.fd, line.on, ch)
  BY DEF Change
<1>3. /\ IInv'
      /\ \A g \in Fds : /\ client'[g].nick = client[g].nick
                        /\ client'[g].done = client[g].done
      /\ chan' \in [Chans -> ChannelRec]
      /\ KeyConsistent'
      /\ chan'[line.on] = ch
  BY <1>1, <1>2, UpdateLemma
<1>4. line' = NoLine \/ line' = line
  BY DEF Change
<1>5. ChannelsTypeOK'
  BY <1>1, <1>2, <1>3, <1>4 DEF ChannelsInv, ChannelsTypeOK, IInv
<1>6. LineIsAuthorised'
  BY <1>1, <1>2, <1>3, <1>4 DEF LineIsAuthorised, Registered
<1> QED
  BY <1>3, <1>5, <1>6 DEF ChannelsInv

\* The invariant holds of a server without clients and channels.
LEMMA ChannelsInitInv == ChannelsInit => ChannelsInv
<1> SUFFICES ASSUME ChannelsInit PROVE ChannelsInv
  OBVIOUS
<1>1. IInv
  BY InitIInv DEF ChannelsInit
<1>2. ChannelsTypeOK
  BY <1>1, NewChannelType DEF ChannelsInit, ChannelsTypeOK, IInv
<1>3. KeyConsistent /\ LineIsAuthorised
  BY DEF ChannelsInit, KeyConsistent, LineIsAuthorised, NewChannel
<1> QED
  BY <1>1, <1>2, <1>3 DEF ChannelsInv

\* Every channel command, broken off by an exception or not, keeps the invariant.
LEMMA ChannelLineKeepsInv ==
  ASSUME ChannelsInv, ChannelLine
  PROVE  ChannelsInv'
<1> USE ChannelsAssumption, ClientsAssumption
<1>0. /\ client \in [Fds -> ClientRec] /\ conn \subseteq Fds
      /\ chan \in [Chans -> ChannelRec] /\ chans \subseteq Chans
      /\ \A c \in Chans : Consistent(chan[c])
  BY DEF ChannelsInv, ChannelsTypeOK, ClientsTypeOK, KeyConsistent, Consistent
<1>n. ASSUME NEW fd \in Fds, Registered(fd) PROVE client[fd].nick \in Names
  BY <1>0, <1>n, GoodClients DEF ChannelsInv, GoodClient, Registered, ClientRec
<1>1. ASSUME NEW fd \in Fds, NEW c \in Chans, NEW k \in Keys \cup {Empty}, Join(fd, c, k)
      PROVE  ChannelsInv'
  <2> DEFINE n == client[fd].nick
             entered == Insert(chan[c], n, fd)
             ch == [entered EXCEPT !.ops = IF entered.ops = {} THEN {n} ELSE entered.ops]
  <2>1. n \in Names
    BY <1>1, <1>n DEF Join, MayJoin
  <2>a. chan[c] \in ChannelRec /\ Consistent(chan[c])
    BY <1>0
  <2>b. entered \in ChannelRec /\ Consistent(entered)
    BY <2>1, <2>a, ConsistentLemma
  <2>2. ch \in ChannelRec /\ Consistent(ch)
    <3>1. (IF entered.ops = {} THEN {n} ELSE entered.ops) \in SUBSET Names
      BY <2>1, <2>b DEF ChannelRec
    <3> HIDE DEF entered
    <3> QED
      BY <2>1, <2>b, <3>1, ConsistentLemma
  <2>3. Update(fd, c, ch)
    BY <1>1 DEF Join, MayJoin
  <2>4. /\ Registered(fd) /\ conn' = conn /\ chans' \subseteq Chans
        /\ line = NoLine /\ line' = line
    BY <1>0, <1>1 DEF Join, MayJoin
  <2> QED
    BY <2>2, <2>3, <2>4, CommandKeepsInv
<1>2. ASSUME NEW fd \in Fds, NEW c \in Chans, Part(fd, c) PROVE ChannelsInv'
  <2> DEFINE ch == Erase(chan[c], client[fd].nick)
  <2>a. chan[c] \in ChannelRec /\ Consistent(chan[c]) /\ client[fd].nick \in Names
    BY <1>0, <1>2, <1>n DEF Part, MayPart, Commands
  <2>1. ch \in ChannelRec /\ Consistent(ch)
    BY <2>a, ConsistentLemma
  <2> QED
    BY <1>0, <1>2, <2>1, CommandKeepsInv DEF Part, MayPart, Commands
<1>3. ASSUME NEW fd \in Fds, NEW c \in Chans, NEW n \in Names, Kick(fd, c, n)
      PROVE  ChannelsInv'
  <2> DEFINE gone == Erase(chan[c], n)
             ch == [gone EXCEPT !.kicked = gone.kicked \cup {n}]
  <2>a. chan[c] \in ChannelRec /\ Consistent(chan[c])
    BY <1>0
  <2>b. gone \in ChannelRec /\ Consistent(gone)
    BY <2>a, ConsistentLemma
  <2>1. ch \in ChannelRec /\ Consistent(ch)
    <3>1. gone.kicked \cup {n} \in SUBSET Names
      BY <2>b DEF ChannelRec
    <3> HIDE DEF gone
    <3> QED
      BY <2>b, <3>1, ConsistentLemma
  <2>2. Update(fd, c, ch)
    BY <1>3 DEF Kick, MayKick
  <2> QED
    BY <1>0, <1>3, <2>1, <2>2, CommandKeepsInv DEF Kick, MayKick, Commands
<1>4. ASSUME NEW fd \in Fds, NEW c \in Chans, NEW t \in Topics \cup {Empty},
             Topic(fd, c, t)
      PROVE  ChannelsInv'
  <2> DEFINE ch == [chan[c] EXCEPT !.topic = t]
  <2>1. ch \in ChannelRec /\ Consistent(ch)
    BY <1>0 DEF ChannelRec, Consistent
  <2>2. Update(fd, c, ch)
    BY <1>4 DEF Topic, MayTopic
  <2> QED
    BY <1>0, <1>4, <2>1, <2>2, CommandKeepsInv DEF Topic, MayTopic, Commands
<1>5. ASSUME NEW fd \in Fds, NEW c \in Chans, line = NoLine, Registered(fd),
             Outcome(fd, TRUE), UNCHANGED <<conn, chans, chan, line>>
      PROVE  ChannelsInv'
  <2>1. IInv'
    BY <1>5, OutcomeLemma DEF ChannelsInv, Registered
  <2> QED
    BY <1>5, <2>1
    DEF ChannelsInv, ChannelsTypeOK, IInv, KeyConsistent, LineIsAuthorised
<1>6. ASSUME NEW fd \in Fds, Quit(fd) PROVE ChannelsInv'
  <2>1. Registered(fd) /\ fd \in conn /\ client[fd].nick \in Names
    BY <1>6, <1>n DEF Quit, Registered
  <2>2. client' = [client EXCEPT ![fd] = [client[fd] EXCEPT !.closing = TRUE]]
    BY <1>6 DEF Quit
  <2>3. IInv'
    BY <1>6, <2>1, <2>2, GoodClients, CommandKeepsGood, OneClientChanges
    DEF Quit, ChannelsInv
  <2>4. \A c \in Chans : chan'[c] \in {chan[c], Erase(chan[c], client[fd].nick)}
    BY <1>6 DEF Quit
  <2>5. \A c \in Chans : chan'[c] \in ChannelRec /\ Consistent(chan'[c])
    <3> TAKE c \in Chans
    <3>1. chan[c] \in ChannelRec /\ Consistent(chan[c])
      BY <1>0
    <3>2. /\ Erase(chan[c], client[fd].nick) \in ChannelRec
          /\ Consistent(Erase(chan[c], client[fd].nick))
      BY <2>1, <3>1, ConsistentLemma
    <3> QED
      BY <2>4, <3>1, <3>2
  <2>6. chan' \in [Chans -> ChannelRec]
    BY <1>6, <2>5 DEF Quit
  <2>7. KeyConsistent'
    BY <2>5 DEF KeyConsistent, Consistent
  <2> QED
    BY <1>6, <2>3, <2>6, <2>7
    DEF Quit, ChannelsInv, ChannelsTypeOK, IInv, LineIsAuthorised
<1>7. ASSUME NEW fd \in Fds, NEW c \in Chans,
             (\E n \in Names : Invite(fd, c, n)) \/ Notice(fd, c) \/ Privmsg(fd, c)
      PROVE  ChannelsInv'
  BY <1>5, <1>7 DEF Invite, Notice, Privmsg, Commands
<1> QED
  BY <1>1, <1>2, <1>3, <1>4, <1>6, <1>7 DEF ChannelLine

\* Every letter of a MODE line keeps the invariant, as do its beginning and end.
LEMMA ModeLineKeepsInv ==
  ASSUME ChannelsInv, ModeLine
  PROVE  ChannelsInv'
<1> USE ChannelsAssumption
<1>1. CASE \E fd \in Fds, c \in Chans, p \in Params : OpenLine(fd, c, p)
  <2> PICK fd \in Fds, c \in Chans, p \in Params : OpenLine(fd, c, p)
    BY <1>1
  <2>1. line' = [fd |-> fd, on |-> c, param |-> p] /\ line' \in Lines
    BY DEF OpenLine, Lines
  <2>2. /\ Registered(fd) /\ c \in chans
        /\ client[fd].nick \in chan[c].ops
        /\ UNCHANGED <<conn, client, chans, chan>>
    BY DEF OpenLine, Commands
  <2>3. LineIsAuthorised'
    BY <2>1, <2>2 DEF LineIsAuthorised, Registered
  <2> QED
    BY <2>1, <2>2, <2>3
    DEF ChannelsInv, ChannelsTypeOK, ClientsTypeOK, IInv, KeyConsistent,
        RegisteredIsValid, RefusedIsMarked
<1>2. CASE CloseLine
  BY <1>2
  DEF CloseLine, ChannelsInv, ChannelsTypeOK, ClientsTypeOK, IInv, KeyConsistent,
      RegisteredIsValid, RefusedIsMarked, LineIsAuthorised
<1>3. ASSUME line # NoLine
      PROVE  /\ line.on \in Chans /\ chan[line.on] \in ChannelRec
             /\ Consistent(chan[line.on])
  BY <1>3 DEF ChannelsInv, ChannelsTypeOK, KeyConsistent, Consistent, Lines
<1>4. ASSUME NEW sign \in {"+", "-"}, OperatorLetter(sign) PROVE ChannelsInv'
  <2> PICK ch : /\ ch = [chan[line.on] EXCEPT !.ops = chan[line.on].ops \cup {line.param}]
                    \/ ch = [chan[line.on] EXCEPT !.ops = chan[line.on].ops \ {line.param}]
                /\ Change(ch)
    BY <1>4 DEF OperatorLetter
  <2>1. line # NoLine /\ line.param \in Names
    BY <1>4 DEF OperatorLetter
  <2>2. ch \in ChannelRec /\ Consistent(ch)
    BY <1>3, <2>1 DEF ChannelRec, Consistent
  <2>3. chan[line.on].ops \subseteq ch.ops \cup {line.param}
    BY <1>3, <2>1 DEF ChannelRec
  <2> QED
    BY <2>1, <2>2, <2>3, LetterKeepsInv
<1>5. ASSUME NEW sign \in {"+", "-"}, NEW f \in {"t", "s"}, FlagLetter(sign, f)
      PROVE  ChannelsInv'
  <2> PICK ch : /\ ch = [chan[line.on] EXCEPT !.mode = chan[line.on].mode \cup {f}]
                    \/ ch = [chan[line.on] EXCEPT !.mode = chan[line.on].mode \ {f}]
                /\ Change(ch)
    BY <1>5 DEF FlagLetter
  <2>1. line # NoLine
    BY <1>5 DEF FlagLetter
  <2>2. ch \in ChannelRec /\ Consistent(ch) /\ ch.ops = chan[line.on].ops
    BY <1>3, <2>1 DEF ChannelRec, Consistent
  <2> QED
    BY <2>1, <2>2, LetterKeepsInv
<1>6. ASSUME NEW sign \in {"+", "-"}, KeyLetter(sign) PROVE ChannelsInv'
  <2>1. line # NoLine
    BY <1>6 DEF KeyLetter
  <2>2. CASE sign = "+"
    <3> DEFINE ch == [chan[line.on] EXCEPT !.mode = chan[line.on].mode \cup {"k"},
                                           !.key = line.param]
    <3>1. line.param \in Keys /\ line.param # Empty /\ Change(ch)
      BY <1>6, <2>2 DEF KeyLetter
    <3>2. ch \in ChannelRec /\ ch.key = line.param /\ "k" \in ch.mode
          /\ ch.ops = chan[line.on].ops
      BY <1>3, <2>1, <3>1 DEF ChannelRec
    <3> HIDE DEF ch
    <3> QED
      BY <2>1, <3>1, <3>2, LetterKeepsInv DEF Consistent
  <2>3. CASE sign = "-"
    <3> DEFINE ch == [chan[line.on] EXCEPT !.mode = chan[line.on].mode \ {"k"},
                                           !.key = Empty]
    <3>1. Change(ch)
      BY <1>6, <2>3 DEF KeyLetter
    <3>2. ch \in ChannelRec /\ ch.key = Empty /\ "k" \notin ch.mode
          /\ ch.ops = chan[line.on].ops
      BY <1>3, <2>1 DEF ChannelRec
    <3> HIDE DEF ch
    <3> QED
      BY <2>1, <3>1, <3>2, LetterKeepsInv DEF Consistent
  <2> QED
    BY <2>2, <2>3
<1> QED
  BY <1>1, <1>2, <1>4, <1>5, <1>6 DEF ModeLine

\* The invariant is inductive.
LEMMA ChannelsNextInv == ChannelsInv /\ [ChannelsNext]_vars => ChannelsInv'
<1> SUFFICES ASSUME ChannelsInv, [ChannelsNext]_vars PROVE ChannelsInv'
  OBVIOUS
<1>1. CASE ClientLine
  <2>1. IInv'
    BY <1>1, NextIInv DEF ClientLine, ChannelsInv
  <2> QED
    BY <1>1, <2>1
    DEF ClientLine, channelVars, ChannelsInv, ChannelsTypeOK, IInv, KeyConsistent,
        LineIsAuthorised
<1>2. CASE ChannelLine
  BY <1>2, ChannelLineKeepsInv
<1>3. CASE ModeLine
  BY <1>3, ModeLineKeepsInv
<1>4. CASE UNCHANGED vars
  BY <1>4
  DEF vars, ChannelsInv, ChannelsTypeOK, ClientsTypeOK, IInv, KeyConsistent,
      RegisteredIsValid, RefusedIsMarked, LineIsAuthorised, Registered
<1> QED
  BY <1>1, <1>2, <1>3, <1>4 DEF ChannelsNext

\* The invariant holds in every reachable state.
LEMMA ChannelsInvHolds == ChannelsSpec => []ChannelsInv
  BY ChannelsInitInv, ChannelsNextInv, PTL DEF ChannelsSpec

\* The types of the clients and channels.
THEOREM ChannelsTypeCorrect == ChannelsSpec => []ChannelsTypeOK
  BY ChannelsInvHolds, PTL DEF ChannelsInv

\* A channel has a key exactly when it has the letter k, wherever an
\* exception cuts a line.
THEOREM KeysAreConsistent == ChannelsSpec => []KeyConsistent
  BY ChannelsInvHolds, PTL DEF ChannelsInv

\* Behind every letter of a MODE line that is executed there is a connected
\* operator, or one that this line deposed.
THEOREM LinesAreAuthorised == ChannelsSpec => []LineIsAuthorised
  BY ChannelsInvHolds, PTL DEF ChannelsInv

----------------------------------------------------------------------------
(* Every channel is a Room *)

\* A step that changes neither a channel nor its chair is not seen there.
LEMMA SameRoom ==
  ASSUME NEW c \in Chans, chan'[c] = chan[c], Chair(c)' = Chair(c)
  PROVE  [Rooms(c)!Next]_(Rooms(c)!vars)
  BY DEF Rooms!vars

\* Between two MODE lines no room has a chair.
LEMMA NoChair ==
  ASSUME NEW c \in Chans, line = NoLine PROVE Chair(c) = Empty
  BY DEF Chair

\* The nicknames inside, before and after an entry comes or goes.
Inside(ch) == {n \in Names : ch.mem[n] # NoFd}

\* In terms of nicknames, a JOIN adds its own to the members.
LEMMA InsideLemma ==
  ASSUME NEW ch \in ChannelRec, NEW n \in Names, NEW fd \in Fds
  PROVE  Inside(Insert(ch, n, fd)) = Inside(ch) \cup {n}
<1> USE ChannelsAssumption
<1>1. ch.mem \in [Names -> Fds \cup {NoFd}]
  BY DEF ChannelRec
<1> DEFINE mem == Insert(ch, n, fd).mem
<1>2. mem = [ch.mem EXCEPT ![n] = IF ch.mem[n] # NoFd THEN ch.mem[n] ELSE fd]
  BY InsertMemLemma
<1>3. \A m \in Names : mem[m] # NoFd <=> ch.mem[m] # NoFd \/ m = n
  BY <1>1, <1>2
<1> QED
  BY <1>3 DEF Inside

\* In terms of nicknames, an erasure removes one from the members.
LEMMA InsideLemmaErase ==
  ASSUME NEW ch \in ChannelRec, NEW n \in Names
  PROVE  Inside(Erase(ch, n)) = Inside(ch) \ {n}
<1>1. ch.mem \in [Names -> Fds \cup {NoFd}]
  BY DEF ChannelRec
<1> DEFINE mem == Erase(ch, n).mem
<1>2. mem = [ch.mem EXCEPT ![n] = NoFd]
  BY EraseMemLemma
<1>3. \A m \in Names : mem[m] # NoFd <=> ch.mem[m] # NoFd /\ m # n
  BY <1>1, <1>2
<1> QED
  BY <1>3 DEF Inside

\* A command of one channel is seen in no other.
LEMMA OtherRooms ==
  ASSUME ChannelsInv, NEW c \in Chans, NEW d \in Chans, d # c, NEW fd, NEW ch,
         Update(fd, d, ch), line = NoLine, line' = NoLine
  PROVE  [Rooms(c)!Next]_(Rooms(c)!vars)
<1>1. chan'[c] = chan[c]
  BY DEF Update, ChannelsInv, ChannelsTypeOK
<1>2. Chair(c) = Empty /\ Chair(c)' = Empty
  BY DEF Chair
<1> QED
  BY <1>1, <1>2, SameRoom

\* JOIN lets a nickname enter the room.
LEMMA JoinIsEnter ==
  ASSUME ChannelsInv, NEW fd \in Fds, NEW c \in Chans, NEW k \in Keys \cup {Empty},
         Join(fd, c, k)
  PROVE  Rooms(c)!Next
<1> DEFINE n == client[fd].nick
           entered == Insert(chan[c], n, fd)
<1>0. n \in Names /\ chan[c] \in ChannelRec /\ chan \in [Chans -> ChannelRec]
  BY GoodClients
  DEF ChannelsInv, ChannelsTypeOK, GoodClient, Join, MayJoin, Registered, ClientRec
<1>1. /\ entered.ops = chan[c].ops /\ entered.kicked = chan[c].kicked
      /\ entered.mode = chan[c].mode /\ entered.key = chan[c].key
      /\ entered.topic = chan[c].topic
      /\ Inside(entered) = Inside(chan[c]) \cup {n}
      /\ entered \in ChannelRec
  <2> HIDE DEF n
  <2>1. Inside(entered) = Inside(chan[c]) \cup {n}
    BY <1>0, InsideLemma
  <2> QED
    BY <1>0, <2>1, InsertLemma
<1>2. chan'[c] = [entered EXCEPT !.ops = IF entered.ops = {} THEN {n} ELSE entered.ops]
  BY <1>0 DEF Join, MayJoin, Update
<1>3. line = NoLine /\ line' = NoLine /\ ("k" \in chan[c].mode => k = chan[c].key)
  BY DEF Join, MayJoin
<1> HIDE DEF entered
<1>4. /\ chan'[c].mem = entered.mem
      /\ chan'[c].ops = IF chan[c].ops = {} THEN {n} ELSE chan[c].ops
      /\ chan'[c].kicked = chan[c].kicked /\ chan'[c].mode = chan[c].mode
      /\ chan'[c].key = chan[c].key /\ chan'[c].topic = chan[c].topic
  BY <1>1, <1>2 DEF ChannelRec
<1>5. {m \in Names : chan'[c].mem[m] # NoFd} = {m \in Names : chan[c].mem[m] # NoFd} \cup {n}
  BY <1>1, <1>4 DEF Inside
<1>6. Chair(c) = Empty /\ Chair(c)' = Empty
  BY <1>3 DEF Chair
<1>7. Rooms(c)!Enter(n, k)
  BY <1>3, <1>4, <1>5, <1>6 DEF Rooms!Enter
<1> QED
  BY <1>0, <1>7 DEF Rooms!Next

\* PART, and QUIT in one of its channels.
LEMMA EraseIsLeave ==
  ASSUME NEW c \in Chans, chan[c] \in ChannelRec, NEW n \in Names,
         chan'[c] = Erase(chan[c], n), line = NoLine, line' = NoLine
  PROVE  Rooms(c)!Next
<1>1. Inside(chan'[c]) = Inside(chan[c]) \ {n}
  BY InsideLemmaErase
<1>2. /\ chan'[c].ops = chan[c].ops /\ chan'[c].kicked = chan[c].kicked
      /\ chan'[c].mode = chan[c].mode /\ chan'[c].key = chan[c].key
      /\ chan'[c].topic = chan[c].topic
  BY EraseLemma
<1>3. {m \in Names : chan'[c].mem[m] # NoFd} = {m \in Names : chan[c].mem[m] # NoFd} \ {n}
  BY <1>1 DEF Inside
<1>4. Chair(c) = Empty /\ Chair(c)' = Empty
  BY DEF Chair
<1>5. Rooms(c)!Leave(n)
  BY <1>2, <1>3, <1>4 DEF Rooms!Leave
<1> QED
  BY <1>5 DEF Rooms!Next

\* KICK is an ejection by an operator inside the room.
LEMMA KickIsEject ==
  ASSUME ChannelsInv, NEW fd \in Fds, NEW c \in Chans, NEW n \in Names, Kick(fd, c, n)
  PROVE  Rooms(c)!Next
<1> DEFINE by == client[fd].nick
           gone == Erase(chan[c], n)
<1>0. by \in Names /\ chan[c] \in ChannelRec /\ chan \in [Chans -> ChannelRec]
  BY GoodClients
  DEF ChannelsInv, ChannelsTypeOK, GoodClient, Kick, MayKick, Commands, Registered, ClientRec
<1>1. /\ gone.ops = chan[c].ops /\ gone.kicked = chan[c].kicked
      /\ gone.mode = chan[c].mode /\ gone.key = chan[c].key
      /\ gone.topic = chan[c].topic
      /\ gone \in ChannelRec
  BY <1>0, EraseLemma
<1>2. Inside(gone) = Inside(chan[c]) \ {n}
  BY <1>0, InsideLemmaErase
<1>3. chan'[c] = [gone EXCEPT !.kicked = gone.kicked \cup {n}]
  BY <1>0 DEF Kick, MayKick, Update
<1>4. /\ line = NoLine /\ line' = NoLine
      /\ by \in chan[c].ops
      /\ by \in {m \in Names : chan[c].mem[m] # NoFd}
      /\ n \in {m \in Names : chan[c].mem[m] # NoFd}
  BY <1>0 DEF Kick, MayKick, Commands, IsMember
<1> HIDE DEF gone, by
<1>5. /\ chan'[c].mem = gone.mem /\ chan'[c].ops = chan[c].ops
      /\ chan'[c].kicked = chan[c].kicked \cup {n}
      /\ chan'[c].mode = chan[c].mode /\ chan'[c].key = chan[c].key
      /\ chan'[c].topic = chan[c].topic
  BY <1>1, <1>3 DEF ChannelRec
<1>6. {m \in Names : chan'[c].mem[m] # NoFd} = {m \in Names : chan[c].mem[m] # NoFd} \ {n}
  BY <1>2, <1>5 DEF Inside
<1>7. Chair(c) = Empty /\ Chair(c)' = Empty
  BY <1>4 DEF Chair
<1>8. Rooms(c)!Eject(by, n)
  BY <1>4, <1>5, <1>6, <1>7 DEF Rooms!Eject
<1> QED
  BY <1>0, <1>8 DEF Rooms!Next

\* TOPIC sets the topic of the room in the hands of who may set it.
LEMMA TopicIsSetTopic ==
  ASSUME ChannelsInv, NEW fd \in Fds, NEW c \in Chans, NEW t \in Topics \cup {Empty},
         Topic(fd, c, t)
  PROVE  Rooms(c)!Next
<1> DEFINE by == client[fd].nick
<1>0. by \in Names /\ chan[c] \in ChannelRec /\ chan \in [Chans -> ChannelRec]
  BY GoodClients
  DEF ChannelsInv, ChannelsTypeOK, GoodClient, Topic, MayTopic, Commands, Registered, ClientRec
<1>1. chan'[c] = [chan[c] EXCEPT !.topic = t]
  BY <1>0 DEF Topic, MayTopic, Update
<1>2. /\ line = NoLine /\ line' = NoLine
      /\ by \in {m \in Names : chan[c].mem[m] # NoFd}
      /\ "t" \in chan[c].mode => by \in chan[c].ops
  BY <1>0 DEF Topic, MayTopic, Commands, IsMember
<1> HIDE DEF by
<1>3. /\ chan'[c].mem = chan[c].mem /\ chan'[c].ops = chan[c].ops
      /\ chan'[c].kicked = chan[c].kicked
      /\ chan'[c].mode = chan[c].mode /\ chan'[c].key = chan[c].key
      /\ chan'[c].topic = t
  BY <1>0, <1>1 DEF ChannelRec
<1>4. Chair(c) = Empty /\ Chair(c)' = Empty
  BY <1>2 DEF Chair
<1>5. Rooms(c)!SetTopic(by, t)
  BY <1>2, <1>3, <1>4 DEF Rooms!SetTopic
<1> QED
  BY <1>0, <1>5 DEF Rooms!Next

\* A letter that makes ch of the channel of the line is a change of its Room,
\* seen in no other.
LEMMA LetterIsChange ==
  ASSUME ChannelsInv, line # NoLine, NEW ch \in ChannelRec, Change(ch),
         ch.mem = chan[line.on].mem, ch.kicked = chan[line.on].kicked,
         ch.topic = chan[line.on].topic, NEW c \in Chans
  PROVE  IF c = line.on THEN Rooms(c)!Change(ch.ops, ch.mode, ch.key)
         ELSE [Rooms(c)!Next]_(Rooms(c)!vars)
<1>1. /\ line \in Lines /\ line.fd \in conn /\ line.fd \in Fds /\ line.on \in Chans
      /\ chan \in [Chans -> ChannelRec]
  BY DEF ChannelsInv, ChannelsTypeOK, LineIsAuthorised, Lines, Registered
<1>2. conn' = conn /\ chan' = [chan EXCEPT ![line.on] = ch]
      /\ Outcome(line.fd, Throws(ch, NoFd))
      /\ line' \in {NoLine, line}
  BY DEF Change, Update
<1>3. client'[line.fd].nick = client[line.fd].nick
  <2>1. Throws(ch, NoFd) \in BOOLEAN
    BY DEF Throws
  <2> QED
    BY <1>1, <1>2, <2>1, OutcomeLemma DEF ChannelsInv
<1>4. client[line.fd].nick # Empty
  BY <1>1, GoodClients DEF ChannelsInv, GoodClient, LineIsAuthorised, Registered
<1>5. CASE c = line.on
  <2>1. /\ Chair(c) = client[line.fd].nick
        /\ Chair(c)' \in {client[line.fd].nick, Empty}
    BY <1>2, <1>3, <1>5 DEF Chair
  <2>2. chan'[c] = ch
    BY <1>1, <1>2, <1>5
  <2>3. Rooms(c)!Change(ch.ops, ch.mode, ch.key)
    BY <1>4, <1>5, <2>1, <2>2 DEF Rooms!Change
  <2> QED
    BY <1>5, <2>3
<1>6. CASE c # line.on
  <2>1. chan'[c] = chan[c]
    BY <1>1, <1>2, <1>6
  <2>2. Chair(c) = Empty /\ Chair(c)' = Empty
    BY <1>2, <1>6 DEF Chair
  <2> QED
    BY <1>6, <2>1, <2>2, SameRoom
<1> QED
  BY <1>5, <1>6

\* A step of a MODE line is a change by the chair of the room, or none.
LEMMA ModeLineInRooms ==
  ASSUME ChannelsInv, ModeLine, NEW c \in Chans
  PROVE  [Rooms(c)!Next]_(Rooms(c)!vars)
<1> USE ChannelsAssumption
<1>1. CASE \E fd \in Fds, d \in Chans, p \in Params : OpenLine(fd, d, p)
  <2> PICK fd \in Fds, d \in Chans, p \in Params : OpenLine(fd, d, p)
    BY <1>1
  <2>1. /\ line = NoLine /\ line' = [fd |-> fd, on |-> d, param |-> p]
        /\ UNCHANGED <<client, chan>> /\ client[fd].nick \in chan[d].ops
        /\ client[fd].nick \in Names /\ fd # NoFd
    BY GoodClients
    DEF OpenLine, Commands, Registered, ChannelsInv, GoodClient, ClientRec
  <2>2. Chair(c) = Empty
    BY <2>1 DEF Chair
  <2>3. CASE c = d
    <3>1. Chair(c)' = client[fd].nick
      BY <2>1, <2>3 DEF Chair, NoLine
    <3>2. Rooms(c)!Open(client[fd].nick)
      BY <2>1, <2>2, <2>3, <3>1 DEF Rooms!Open
    <3> QED
      BY <2>1, <3>2 DEF Rooms!Next
  <2>4. CASE c # d
    <3>1. Chair(c)' = Empty
      BY <2>1, <2>4 DEF Chair
    <3> QED
      BY <2>1, <2>2, <3>1, SameRoom
  <2> QED
    BY <2>3, <2>4
<1>2. CASE CloseLine
  <2>1. Chair(c)' = Empty /\ chan' = chan
    BY <1>2 DEF CloseLine, Chair
  <2>2. Rooms(c)!Close
    BY <2>1 DEF Rooms!Close
  <2> QED
    BY <2>2 DEF Rooms!Next
<1>3. ASSUME line # NoLine PROVE line.on \in Chans /\ chan[line.on] \in ChannelRec
  BY <1>3 DEF ChannelsInv, ChannelsTypeOK, Lines
<1>4. ASSUME NEW sign \in {"+", "-"}, OperatorLetter(sign)
      PROVE  [Rooms(c)!Next]_(Rooms(c)!vars)
  <2> DEFINE n == line.param
             old == chan[line.on]
  <2> PICK ch : /\ ch = [old EXCEPT !.ops = old.ops \cup {n}]
                    \/ ch = [old EXCEPT !.ops = old.ops \ {n}]
                /\ Change(ch)
    BY <1>4 DEF OperatorLetter
  <2>1. line # NoLine /\ n \in Names /\ n \in {m \in Names : old.mem[m] # NoFd}
    BY <1>4 DEF OperatorLetter, IsMember
  <2>2. /\ ch \in ChannelRec /\ ch.ops \in {old.ops \cup {n}, old.ops \ {n}}
        /\ ch.mem = old.mem /\ ch.kicked = old.kicked /\ ch.topic = old.topic
        /\ ch.mode = old.mode /\ ch.key = old.key
    BY <1>3, <2>1 DEF ChannelRec
  <2>3. IF c = line.on THEN Rooms(c)!Change(ch.ops, old.mode, old.key)
        ELSE [Rooms(c)!Next]_(Rooms(c)!vars)
    BY <2>1, <2>2, LetterIsChange
  <2>4. ASSUME c = line.on PROVE Rooms(c)!Grant(n) \/ Rooms(c)!Revoke(n)
    BY <2>1, <2>2, <2>3, <2>4 DEF Rooms!Grant, Rooms!Revoke
  <2> QED
    BY <2>1, <2>3, <2>4 DEF Rooms!Next
<1>5. ASSUME NEW sign \in {"+", "-"}, NEW f \in {"t", "s"}, FlagLetter(sign, f)
      PROVE  [Rooms(c)!Next]_(Rooms(c)!vars)
  <2> DEFINE old == chan[line.on]
  <2> PICK ch : /\ ch = [old EXCEPT !.mode = old.mode \cup {f}]
                    \/ ch = [old EXCEPT !.mode = old.mode \ {f}]
                /\ Change(ch)
    BY <1>5 DEF FlagLetter
  <2>1. line # NoLine
    BY <1>5 DEF FlagLetter
  <2>2. /\ ch \in ChannelRec /\ ch.mode \in {old.mode \cup {f}, old.mode \ {f}}
        /\ ch.mem = old.mem /\ ch.kicked = old.kicked /\ ch.topic = old.topic
        /\ ch.ops = old.ops /\ ch.key = old.key
    BY <1>3, <2>1 DEF ChannelRec
  <2>3. IF c = line.on THEN Rooms(c)!Change(old.ops, ch.mode, old.key)
        ELSE [Rooms(c)!Next]_(Rooms(c)!vars)
    BY <2>1, <2>2, LetterIsChange
  <2>4. ASSUME c = line.on PROVE Rooms(c)!Raise(f) \/ Rooms(c)!Lower(f)
    BY <2>2, <2>3, <2>4 DEF Rooms!Raise, Rooms!Lower
  <2> QED
    BY <2>1, <2>3, <2>4 DEF Rooms!Next
<1>6. ASSUME NEW sign \in {"+", "-"}, KeyLetter(sign)
      PROVE  [Rooms(c)!Next]_(Rooms(c)!vars)
  <2> DEFINE old == chan[line.on]
  <2>1. line # NoLine
    BY <1>6 DEF KeyLetter
  <2>2. CASE sign = "+"
    <3> DEFINE ch == [old EXCEPT !.mode = old.mode \cup {"k"}, !.key = line.param]
    <3>1. line.param \in Keys /\ "k" \notin old.mode /\ Change(ch)
      BY <1>6, <2>2 DEF KeyLetter
    <3>2. /\ ch \in ChannelRec /\ ch.mode = old.mode \cup {"k"} /\ ch.key = line.param
          /\ ch.mem = old.mem /\ ch.kicked = old.kicked /\ ch.topic = old.topic
          /\ ch.ops = old.ops
      BY <1>3, <2>1, <3>1 DEF ChannelRec
    <3> HIDE DEF ch
    <3>3. IF c = line.on THEN Rooms(c)!Change(old.ops, old.mode \cup {"k"}, line.param)
          ELSE [Rooms(c)!Next]_(Rooms(c)!vars)
      BY <2>1, <3>1, <3>2, LetterIsChange
    <3>4. ASSUME c = line.on, NEW k \in Keys, k = line.param PROVE Rooms(c)!Lock(k)
      BY <3>1, <3>3, <3>4 DEF Rooms!Lock
    <3> QED
      BY <2>1, <3>1, <3>3, <3>4 DEF Rooms!Next
  <2>3. CASE sign = "-"
    <3> DEFINE ch == [old EXCEPT !.mode = old.mode \ {"k"}, !.key = Empty]
    <3>1. Change(ch)
      BY <1>6, <2>3 DEF KeyLetter
    <3>2. /\ ch \in ChannelRec /\ ch.mode = old.mode \ {"k"} /\ ch.key = Empty
          /\ ch.mem = old.mem /\ ch.kicked = old.kicked /\ ch.topic = old.topic
          /\ ch.ops = old.ops
      BY <1>3, <2>1 DEF ChannelRec
    <3> HIDE DEF ch
    <3>3. IF c = line.on THEN Rooms(c)!Change(old.ops, old.mode \ {"k"}, Empty)
          ELSE [Rooms(c)!Next]_(Rooms(c)!vars)
      BY <2>1, <3>1, <3>2, LetterIsChange
    <3>4. ASSUME c = line.on PROVE Rooms(c)!Unlock
      BY <3>3, <3>4 DEF Rooms!Unlock
    <3> QED
      BY <2>1, <3>3, <3>4 DEF Rooms!Next
  <2> QED
    BY <2>2, <2>3
<1> QED
  BY <1>1, <1>2, <1>4, <1>5, <1>6 DEF ModeLine

\* A channel command is a step of the room, or none.
LEMMA ChannelLineInRooms ==
  ASSUME ChannelsInv, ChannelLine, NEW c \in Chans
  PROVE  [Rooms(c)!Next]_(Rooms(c)!vars)
<1> USE ChannelsAssumption
<1>0. chan \in [Chans -> ChannelRec] /\ chan[c] \in ChannelRec
  BY DEF ChannelsInv, ChannelsTypeOK
<1>n. ASSUME NEW fd \in Fds, Registered(fd) PROVE client[fd].nick \in Names
  BY <1>n, GoodClients DEF ChannelsInv, GoodClient, Registered, ClientRec
<1>1. ASSUME NEW fd \in Fds, NEW d \in Chans, NEW k \in Keys \cup {Empty}, Join(fd, d, k)
      PROVE  [Rooms(c)!Next]_(Rooms(c)!vars)
  <2>1. \E ch : Update(fd, d, ch) /\ line = NoLine /\ line' = NoLine
    BY <1>1 DEF Join, MayJoin
  <2> QED
    BY <1>1, <2>1, JoinIsEnter, OtherRooms
<1>2. ASSUME NEW fd \in Fds, NEW d \in Chans, Part(fd, d)
      PROVE  [Rooms(c)!Next]_(Rooms(c)!vars)
  <2> DEFINE n == client[fd].nick
  <2>1. /\ n \in Names /\ Update(fd, d, Erase(chan[d], n))
        /\ line = NoLine /\ line' = NoLine
    BY <1>2, <1>n DEF Part, MayPart, Commands
  <2>2. CASE c = d
    <3>1. chan'[c] = Erase(chan[c], n)
      BY <1>0, <2>1, <2>2 DEF Update
    <3> QED
      BY <1>0, <2>1, <3>1, EraseIsLeave
  <2> QED
    BY <2>1, <2>2, OtherRooms
<1>3. ASSUME NEW fd \in Fds, NEW d \in Chans, NEW n \in Names, Kick(fd, d, n)
      PROVE  [Rooms(c)!Next]_(Rooms(c)!vars)
  <2>1. \E ch : Update(fd, d, ch) /\ line = NoLine /\ line' = NoLine
    BY <1>3 DEF Kick, MayKick, Commands
  <2> QED
    BY <1>3, <2>1, KickIsEject, OtherRooms
<1>4. ASSUME NEW fd \in Fds, NEW d \in Chans, NEW t \in Topics \cup {Empty},
             Topic(fd, d, t)
      PROVE  [Rooms(c)!Next]_(Rooms(c)!vars)
  <2>1. \E ch : Update(fd, d, ch) /\ line = NoLine /\ line' = NoLine
    BY <1>4 DEF Topic, MayTopic, Commands
  <2> QED
    BY <1>4, <2>1, TopicIsSetTopic, OtherRooms
<1>5. ASSUME line = NoLine, UNCHANGED <<chan, line>>
      PROVE  [Rooms(c)!Next]_(Rooms(c)!vars)
  BY <1>5, NoChair, SameRoom DEF Chair
<1>6. ASSUME NEW fd \in Fds, Quit(fd) PROVE [Rooms(c)!Next]_(Rooms(c)!vars)
  <2>1. /\ client[fd].nick \in Names /\ line = NoLine /\ line' = NoLine
        /\ chan'[c] \in {chan[c], Erase(chan[c], client[fd].nick)}
    BY <1>6, <1>n DEF Quit
  <2>2. Chair(c) = Empty /\ Chair(c)' = Empty
    BY <2>1 DEF Chair
  <2> QED
    BY <1>0, <2>1, <2>2, EraseIsLeave, SameRoom
<1>7. ASSUME NEW fd \in Fds, NEW d \in Chans,
             (\E n \in Names : Invite(fd, d, n)) \/ Notice(fd, d) \/ Privmsg(fd, d)
      PROVE  line = NoLine /\ UNCHANGED <<chan, line>>
  BY <1>7 DEF Invite, Notice, Privmsg, Commands
<1> QED
  BY <1>1, <1>2, <1>3, <1>4, <1>5, <1>6, <1>7 DEF ChannelLine

\* Every step of the server is a step of each room, or none.
LEMMA StepIsRoomStep ==
  ASSUME ChannelsInv, [ChannelsNext]_vars
  PROVE  \A c \in Chans : [Rooms(c)!Next]_(Rooms(c)!vars)
<1> TAKE c \in Chans
<1>1. CASE ClientLine
  <2>1. chan' = chan /\ Chair(c) = Empty /\ Chair(c)' = Empty
    BY <1>1 DEF ClientLine, channelVars, Chair
  <2> QED
    BY <2>1, SameRoom
<1>2. CASE ChannelLine
  BY <1>2, ChannelLineInRooms
<1>3. CASE ModeLine
  BY <1>3, ModeLineInRooms
<1>4. CASE UNCHANGED vars
  <2>1. chan' = chan /\ Chair(c)' = Chair(c)
    BY <1>4 DEF vars, Chair
  <2> QED
    BY <2>1, SameRoom
<1> QED
  BY <1>1, <1>2, <1>3, <1>4 DEF ChannelsNext

\* Whatever the clients, names, keys and channels, and however many channels
\* there are, each of them implements Room.
THEOREM ChannelsImplementRoom == ChannelsSpec => ChannelsAreRooms
<1>1. ChannelsInit => \A c \in Chans : Rooms(c)!Init
  <2> SUFFICES ASSUME ChannelsInit, NEW c \in Chans PROVE Rooms(c)!Init
    OBVIOUS
  <2>1. chan[c] = NewChannel /\ Chair(c) = Empty
    BY DEF ChannelsInit, Chair
  <2> QED
    BY <2>1 DEF Rooms!Init, NewChannel
<1> QED
  BY <1>1, ChannelsInvHolds, StepIsRoomStep, PTL DEF ChannelsSpec, ChannelsAreRooms

----------------------------------------------------------------------------
(* What QUIT leaves *)

\* A name that is not in the map of channels has no members.
NamesAreBlank == \A c \in Chans \ chans : Recipients(chan[c]) = {}

LEMMA NewChannelIsBlank == Recipients(NewChannel) = {}
  BY DEF Recipients, NewChannel

\* Only channels of the map change.
LEMMA BlankStep ==
  ASSUME ChannelsInv, NamesAreBlank, [ChannelsNext]_vars
  PROVE  NamesAreBlank'
<1>0. chan \in [Chans -> ChannelRec] /\ chans \subseteq Chans
  BY DEF ChannelsInv, ChannelsTypeOK
<1>1. ASSUME chans \subseteq chans', \A c \in Chans \ chans' : chan'[c] = chan[c]
      PROVE  NamesAreBlank'
  BY <1>1 DEF NamesAreBlank, Recipients
<1>2. CASE UNCHANGED <<chans, chan>>
  BY <1>1, <1>2
<1>3. ASSUME NEW c \in Chans, NEW ch, chan' = [chan EXCEPT ![c] = ch],
             chans \subseteq chans', c \in chans'
      PROVE  NamesAreBlank'
  BY <1>0, <1>1, <1>3
<1>4. ASSUME NEW fd \in Fds, NEW c \in Chans, NEW k, Join(fd, c, k)
      PROVE  NamesAreBlank'
  BY <1>3, <1>4 DEF Join, Update
<1>5. ASSUME NEW fd \in Fds, NEW c \in Chans,
             \/ Part(fd, c)
             \/ \E n \in Names : Kick(fd, c, n)
             \/ \E t \in Topics \cup {Empty} : Topic(fd, c, t)
      PROVE  NamesAreBlank'
  BY <1>3, <1>5
  DEF Part, MayPart, Kick, MayKick, Topic, MayTopic, Commands, Update
<1>6. ASSUME NEW fd \in Fds, Quit(fd) PROVE NamesAreBlank'
  BY <1>0, <1>1, <1>6 DEF Quit
<1>7. ASSUME line # NoLine, NEW ch, Change(ch) PROVE NamesAreBlank'
  <2>1. line.on \in Chans /\ line.on \in chans
    BY <1>0, <1>7 DEF ChannelsInv, LineIsAuthorised
  <2> QED
    BY <1>3, <1>7, <2>1 DEF Change, Update
<1>8. CASE ModeLine
  <2>1. ASSUME NEW sign, OperatorLetter(sign) PROVE NamesAreBlank'
    BY <1>7, <2>1 DEF OperatorLetter
  <2>2. ASSUME NEW sign, NEW f, FlagLetter(sign, f) PROVE NamesAreBlank'
    BY <1>7, <2>2 DEF FlagLetter
  <2>3. ASSUME NEW sign, KeyLetter(sign) PROVE NamesAreBlank'
    BY <1>7, <2>3 DEF KeyLetter
  <2> QED
    BY <1>2, <1>8, <2>1, <2>2, <2>3 DEF ModeLine, OpenLine, CloseLine
<1>9. CASE ChannelLine
  BY <1>2, <1>4, <1>5, <1>6, <1>9 DEF ChannelLine, Invite, Notice, Privmsg
<1> QED
  BY <1>2, <1>8, <1>9 DEF ChannelsNext, ClientLine, channelVars, vars

\* The entries of a client, and nobody else's, are gone from channel c.
OnlyGone(fd, c) ==
  \A n \in Names :
    chan'[c].mem[n] = IF chan[c].mem[n] = fd THEN NoFd ELSE chan[c].mem[n]

\* A QUIT that no broadcast cuts short comes to every channel.
LEMMA UncutQuitLeaves ==
  ASSUME ChannelsInv, NamesAreBlank, NEW fd \in Fds, Quit(fd), KeptName(fd),
         \A d \in chans : ~QuitThrows(fd, d),
         NEW c \in Chans
  PROVE  OnlyGone(fd, c)
<1> DEFINE n == client[fd].nick
<1>0. /\ n \in Names /\ chan \in [Chans -> ChannelRec] /\ chans \subseteq Chans
      /\ NoFd \notin Fds
  BY GoodClients, ChannelsAssumption
  DEF ChannelsInv, ChannelsTypeOK, GoodClient, Quit, Registered, ClientRec
<1> HIDE DEF n
<1>1. chan'[c] = IF c \in chans /\ HasEntry(fd, c) THEN Erase(chan[c], n) ELSE chan[c]
  BY DEF Quit, n
<1>2. CASE c \in chans /\ HasEntry(fd, c)
  <2>1. chan[c] \in ChannelRec /\ chan[c].mem \in [Names -> Fds \cup {NoFd}]
    BY <1>0 DEF ChannelRec
  <2>2. chan'[c].mem = [chan[c].mem EXCEPT ![n] = NoFd]
    <3>1. Erase(chan[c], n).mem = [chan[c].mem EXCEPT ![n] = NoFd]
      BY <1>0, <2>1, EraseMemLemma
    <3> QED
      BY <1>1, <1>2, <3>1
  <2>3. \A m \in Names : chan[c].mem[m] = fd <=> m = n
    BY <1>2 DEF HasEntry, KeptName, n
  <2> QED
    BY <1>0, <2>1, <2>2, <2>3 DEF OnlyGone
<1>3. CASE c \in chans /\ ~HasEntry(fd, c)
  BY <1>1, <1>3 DEF HasEntry, OnlyGone
<1>4. CASE c \notin chans
  BY <1>0, <1>1, <1>4 DEF NamesAreBlank, Recipients, OnlyGone
<1> QED
  BY <1>2, <1>3, <1>4

\* A broadcast to members that are all connected does not throw.
LEMMA QuitLeaves ==
  ASSUME ChannelsInv, NamesAreBlank, NEW fd \in Fds, Quit(fd), KeptName(fd),
         \A c \in Chans : Recipients(chan[c]) \subseteq conn,
         NEW c \in Chans
  PROVE  OnlyGone(fd, c)
<1> DEFINE n == client[fd].nick
<1>0. /\ n \in Names /\ chan \in [Chans -> ChannelRec] /\ chans \subseteq Chans
      /\ NoFd \notin Fds
  BY GoodClients, ChannelsAssumption
  DEF ChannelsInv, ChannelsTypeOK, GoodClient, Quit, Registered, ClientRec
<1> HIDE DEF n
<1>1. \A d \in Chans : Recipients(Erase(chan[d], n)) \subseteq Recipients(chan[d])
  <2> TAKE d \in Chans
  <2>1. chan[d] \in ChannelRec /\ chan[d].mem \in [Names -> Fds \cup {NoFd}]
    BY <1>0 DEF ChannelRec
  <2>2. Erase(chan[d], n).mem = [chan[d].mem EXCEPT ![n] = NoFd]
    BY <1>0, <2>1, EraseMemLemma
  <2> QED
    BY <1>0, <2>1, <2>2 DEF Recipients
<1>2. \A d \in chans : ~QuitThrows(fd, d)
  BY <1>0, <1>1 DEF QuitThrows, Throws, n
<1> QED
  BY <1>2, UncutQuitLeaves

\* However many channels and clients there are, a client that kept its
\* nickname since its joins quits all its channels and takes nobody with it,
\* unless it meets a departed member.
THEOREM QuitsAreComplete == ChannelsSpec => QuitIsComplete
<1>1. ChannelsInit => NamesAreBlank
  BY NewChannelIsBlank DEF ChannelsInit, NamesAreBlank
<1>2. ChannelsInv /\ NamesAreBlank /\ [ChannelsNext]_vars => NamesAreBlank'
  BY BlankStep
<1>3. ChannelsInv /\ NamesAreBlank /\ [ChannelsNext]_vars =>
        [\A fd \in Fds :
           /\ Quit(fd)
           /\ KeptName(fd)
           /\ \A c \in Chans : Recipients(chan[c]) \subseteq conn
           => \A c \in Chans, n \in Names :
                chan'[c].mem[n] = IF chan[c].mem[n] = fd THEN NoFd ELSE chan[c].mem[n]]_vars
  BY QuitLeaves DEF OnlyGone
<1> QED
  BY <1>1, <1>2, <1>3, ChannelsInvHolds, PTL DEF ChannelsSpec, QuitIsComplete
=============================================================================
