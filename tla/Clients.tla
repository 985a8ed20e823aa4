------------------------------ MODULE Clients ------------------------------
(***************************************************************************)
(* The clients of the IRC server: the map _clients of class Server, the    *)
(* registration performed by Server::parseMessage / Server::fillClients    *)
(* with NICK, USER and PASS, and the commands a registered client uses on  *)
(* client records only: NICK, MODE <nick>, OPER and KILL.                  *)
(*                                                                         *)
(* One step is the treatment of one complete line of one client (the       *)
(* server has one thread), or a connection being accepted or dropped.      *)
(* Lines whose treatment changes no client record (PING, NAMES, LIST, an   *)
(* error reply...) are stuttering steps.                                   *)
(***************************************************************************)
EXTENDS Naturals, FiniteSets

CONSTANTS
  Fds,        \* descriptors accept() may return
  Nicks,      \* nicknames that pass containsInvalidCharacters
  BadNicks,   \* nicknames that do not
  Empty,      \* the empty string
  Short,      \* substr(0, 9) of every nickname
  IrcOps,     \* operator names read from ManageServOperators.config
  MaxClients, \* MAX_CLIENT_NB
  MaxOper,    \* bound on the number of OPER commands a client repeats
  Verdicts,   \* outcomes explored for the checks of a USER or PASS line
  Mentions,   \* explored: does a NICK line also contain the word USER?
  UserModes   \* changes explored in MODE <nickname>

Names == Nicks \cup BadNicks

ASSUME ClientsAssumption ==
  /\ Fds \subseteq Nat
  /\ Nicks \cap BadNicks = {}
  /\ Empty \notin Names
  /\ Short \in [Names -> Names]
  /\ \A n \in Names : Short[Short[n]] = Short[n]
  /\ IrcOps \subseteq Nicks
  /\ MaxClients \in Nat
  /\ MaxOper \in Nat
  /\ Verdicts \subseteq BOOLEAN /\ Mentions \subseteq BOOLEAN
  /\ UserModes \subseteq {"+i", "-i", "-o"}

VARIABLES
  conn,       \* keys of _clients
  client      \* the Client objects; a blank one for a descriptor not in conn

clientVars == <<conn, client>>

(***************************************************************************)
(* nick: _nickname. pass: _connexion_password. user: USER stored a         *)
(* username and a realname (it stores both or neither). info: _hasAllInfo. *)
(* done: _registrationDone, always written together with _welcomeSent.     *)
(* inv, oper: number of letters i (0 or 1) and o in _mode.                 *)
(* closing: _to_deconnect.                                                 *)
(***************************************************************************)
ClientRec ==
  [nick : Names \cup {Empty}, pass : BOOLEAN, user : BOOLEAN,
   info : BOOLEAN, done : BOOLEAN, inv : BOOLEAN, oper : Nat,
   closing : BOOLEAN]

NewClient ==
  [nick |-> Empty, pass |-> FALSE, user |-> FALSE, info |-> FALSE,
   done |-> FALSE, inv |-> FALSE, oper |-> 0, closing |-> FALSE]

ClientsTypeOK ==
  /\ conn \subseteq Fds
  /\ client \in [Fds -> ClientRec]

ClientsInit ==
  /\ conn = {}
  /\ client = [fd \in Fds |-> NewClient]

----------------------------------------------------------------------------
(* Connections *)

\* Accepting while poll_fds holds fewer than MAX_CLIENT_NB clients. accept()
\* returns the lowest descriptor that is not open.
AddClient(fd) ==
  /\ fd \in Fds \ conn
  /\ \A g \in Fds \ conn : fd <= g
  /\ Cardinality(conn) < MaxClients
  /\ conn' = conn \cup {fd}
  /\ client' = [client EXCEPT ![fd] = NewClient]

\* recv() returned 0 or an error: the client is erased from _clients.
DelClient(fd) ==
  /\ fd \in conn
  /\ conn' = conn \ {fd}
  /\ client' = [client EXCEPT ![fd] = NewClient]

----------------------------------------------------------------------------
(* Registration *)

IsLong(n) == n \in Names /\ Short[n] # n

\* Client::setNickname truncates the new nickname when the one it replaces
\* is longer than nine characters.
SetNickname(r, n) ==
  [r EXCEPT !.nick = IF IsLong(r.nick) /\ IsLong(n) THEN Short[n] ELSE n]

MutantIsValid(r) == r.nick # Empty /\ r.user \* the password is not checked

IsValid(r) == r.nick # Empty /\ r.user /\ r.pass

\* Mutant: the exception is not answered by a mark.
MutantWelcome(r) ==
  IF r.info /\ IsValid(r) THEN [r EXCEPT !.done = TRUE] ELSE r

\* The end of a turn of the loop of parseMessage: once USER was seen, the
\* client is either welcomed or refused with InvalidClientException, which
\* manageServerLoop answers by marking it for disconnection.
Welcome(r) ==
  IF ~r.info THEN r
  ELSE IF IsValid(r) THEN [r EXCEPT !.done = TRUE]
  ELSE [r EXCEPT !.closing = TRUE]

\* Mutant: a refused client may try again.
MutantRegistrationLine(fd, r, containsUSER) ==
  /\ fd \in conn
  /\ ~client[fd].done
  /\ client' = [client EXCEPT ![fd] =
                  Welcome([r EXCEPT !.info = containsUSER])]
  /\ UNCHANGED conn

\* One line of a client that is not registered and has not yet sent a line
\* containing "USER"; r is the client once fillClients handled the line.
RegistrationLine(fd, r, containsUSER) ==
  /\ fd \in conn
  /\ ~client[fd].done
  /\ ~client[fd].info
  /\ client' = [client EXCEPT ![fd] =
                  Welcome([r EXCEPT !.info = containsUSER])]
  /\ UNCHANGED conn

\* nick() stores the name before any of its checks, and keeps it whatever
\* they say, also when it is empty. A line that contains both words is taken
\* as NICK.
RegisterNick(fd, n, containsUSER) ==
  RegistrationLine(fd, SetNickname(client[fd], n), containsUSER)

\* complete: both a username and a realname were found; otherwise user()
\* stores neither.
RegisterUser(fd, complete) ==
  RegistrationLine(fd, [client[fd] EXCEPT !.user = @ \/ complete], TRUE)

RegisterPass(fd, matches) ==
  RegistrationLine(fd, [client[fd] EXCEPT !.pass = matches], FALSE)

\* A line without a space (or without a carriage return) makes parseCommand
\* erase at npos: std::out_of_range reaches manageServerLoop. Lines of a
\* client refused by Welcome never reach parseCommand.
MalformedLine(fd) ==
  /\ fd \in conn
  /\ client[fd].done \/ ~client[fd].info
  /\ client' = [client EXCEPT ![fd].closing = TRUE]
  /\ UNCHANGED conn

----------------------------------------------------------------------------
(* Commands of registered clients *)

Registered(fd) == fd \in conn /\ client[fd].done

\* The client a search by nickname stops at: _clients is ordered by fd.
FirstWithNick(fd, n) ==
  /\ fd \in conn
  /\ client[fd].nick = n
  /\ \A g \in conn : client[g].nick = n => fd <= g

\* Mutant: only registered clients hold their nickname.
MutantIsAlreadyUsed(fd, n) ==
  \E g \in conn \ {fd} : client[g].done /\ client[g].nick = n

IsAlreadyUsed(fd, n) == \E g \in conn \ {fd} : client[g].nick = n

MayRename(fd, n) == Registered(fd) /\ n \in Nicks /\ ~IsAlreadyUsed(fd, n)

Nick(fd, n) ==
  /\ MayRename(fd, n)
  /\ client' = [client EXCEPT ![fd] = SetNickname(@, n)]
  /\ UNCHANGED conn

\* OPER with a name and password of the configuration file. Every success
\* appends one more letter o to _mode.
Oper(fd) ==
  /\ Registered(fd)
  /\ IrcOps # {}
  /\ client[fd].oper < MaxOper
  /\ client' = [client EXCEPT ![fd].oper = @ + 1]
  /\ UNCHANGED conn

\* Mutant: -o without looking for the letter first.
MutantUserMode(fd, change) ==
  /\ Registered(fd)
  /\ change = "-o"
  /\ \E t \in conn :
       /\ FirstWithNick(t, client[fd].nick)
       /\ client' = [client EXCEPT ![t].oper = @ - 1]
  /\ UNCHANGED conn

\* MODE <own nickname> <change>; the target is looked up by nickname.
UserMode(fd, change) ==
  /\ Registered(fd)
  /\ \E t \in conn :
       /\ FirstWithNick(t, client[fd].nick)
       /\ \/ /\ change = "+i"
             /\ client' = [client EXCEPT ![t].inv = TRUE]
          \/ /\ change = "-i"
             /\ client' = [client EXCEPT ![t].inv = FALSE]
          \/ /\ change = "-o"
             /\ client[t].oper > 0
             /\ client' = [client EXCEPT ![t].oper = @ - 1]
  /\ UNCHANGED conn

\* KILL <n> <comment> by a client with user mode o, or whose nickname is an
\* operator name.
Kill(fd, n) ==
  /\ Registered(fd)
  /\ n # Empty
  /\ client[fd].oper > 0 \/ client[fd].nick \in IrcOps
  /\ \E t \in conn :
       /\ FirstWithNick(t, n)
       /\ client' = [client EXCEPT ![t].closing = TRUE]
  /\ UNCHANGED conn

ClientsNext ==
  \E fd \in Fds :
    \/ AddClient(fd)
    \/ DelClient(fd)
    \/ \E n \in Names \cup {Empty}, b \in Mentions : RegisterNick(fd, n, b)
    \/ \E b \in Verdicts : RegisterUser(fd, b)
    \/ \E b \in Verdicts : RegisterPass(fd, b)
    \/ MalformedLine(fd)
    \/ \E n \in Nicks : Nick(fd, n)
    \/ Oper(fd)
    \/ \E ch \in UserModes : UserMode(fd, ch)
    \/ \E n \in Names : Kill(fd, n)

ClientsSpec == ClientsInit /\ [][ClientsNext]_clientVars

----------------------------------------------------------------------------
(* Properties *)

\* A registered client has given a nickname, a USER line and the password,
\* and keeps a nickname for as long as it is registered.
RegisteredIsValid ==
  \A fd \in conn : client[fd].done =>
    client[fd].nick # Empty /\ client[fd].user /\ client[fd].pass

\* A client that sent USER is registered or marked for disconnection.
RefusedIsMarked ==
  \A fd \in conn : client[fd].info /\ ~client[fd].done => client[fd].closing

\* The life of a connection as Session describes it: at most MAX_CLIENT_NB at
\* a time, each with one attempt to register (a client refused at its USER
\* line stays refused and a registered one stays registered until it leaves).
Status ==
  [fd \in Fds |-> IF fd \notin conn THEN "absent"
                   ELSE IF client[fd].done THEN "member"
                   ELSE IF client[fd].info THEN "refused"
                   ELSE "greeting"]

Lives == INSTANCE Session WITH status <- Status

LivesAreSessions == Lives!Spec

\* A registered client whose nickname is of legal length renames itself only
\* to a valid nickname that no other client holds at that time.
RenameIsUnique ==
  [][\A fd \in conn \cap conn' :
       /\ client[fd].done
       /\ ~IsLong(client[fd].nick)
       /\ client'[fd].nick # client[fd].nick
       => /\ client'[fd].nick \in Nicks
          /\ \A g \in conn' \ {fd} : client'[g].nick # client'[fd].nick]_clientVars

----------------------------------------------------------------------------
(* What documentation says and the code does not do *)

\* Nicknames are exclusive (ERR_NICKNAMEINUSE).
NicknamesAreUnique ==
  \A f, g \in conn :
    f # g /\ client[f].done /\ client[g].done => client[f].nick # client[g].nick
=============================================================================
