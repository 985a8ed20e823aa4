---------------------------- MODULE ClientsProofs ----------------------------
(***************************************************************************)
(* Proofs about module Clients, for every set of descriptors and nicknames *)
(* and every truncation. The inductive invariant is the conjunction of the *)
(* type invariant and of the two facts about registration.                 *)
(***************************************************************************)
EXTENDS Clients, TLAPS

IInv == ClientsTypeOK /\ RegisteredIsValid /\ RefusedIsMarked

----------------------------------------------------------------------------
(* Lemmas on the operators *)

\* setNickname returns a client that differs by its nickname only, which is
\* the given one or its truncation; the given one for a client whose nickname
\* has a legal length.
LEMMA SetNicknameLemma ==
  ASSUME NEW r \in ClientRec, NEW n \in Names \cup {Empty}
  PROVE  /\ SetNickname(r, n) \in ClientRec
         /\ n \in Names => SetNickname(r, n).nick # Empty
         /\ SetNickname(r, n) = [r EXCEPT !.nick = SetNickname(r, n).nick]
         /\ ~IsLong(r.nick) => SetNickname(r, n).nick = n
  BY ClientsAssumption DEF SetNickname, IsLong, ClientRec

\* What the end of a registration line makes of a client, field by field.
LEMMA WelcomeLemma ==
  ASSUME NEW r \in ClientRec
  PROVE  /\ Welcome(r) \in ClientRec
         /\ Welcome(r).nick = r.nick /\ Welcome(r).user = r.user
         /\ Welcome(r).pass = r.pass /\ Welcome(r).info = r.info
         /\ Welcome(r).done = (r.done \/ (r.info /\ IsValid(r)))
         /\ r.info /\ ~IsValid(r) => Welcome(r).closing
         /\ r.closing => Welcome(r).closing
  BY DEF Welcome, IsValid, ClientRec

\* A new client is blank and of the right type.
LEMMA NewClientType == NewClient \in ClientRec
  BY DEF NewClient, ClientRec

----------------------------------------------------------------------------
(* The inductive invariant *)

\* What a step makes of a client, whoever it concerns, keeps the invariant.
GoodClient(r) ==
  /\ r \in ClientRec
  /\ r.done => r.nick # Empty /\ r.user /\ r.pass
  /\ r.info /\ ~r.done => r.closing

\* The invariant, client by client.
LEMMA IInvByClient ==
  ASSUME conn \subseteq Fds, client \in [Fds -> ClientRec],
         \A fd \in conn : GoodClient(client[fd])
  PROVE  IInv
  BY DEF IInv, ClientsTypeOK, RegisteredIsValid, RefusedIsMarked, GoodClient

\* Each client satisfies the invariant, taken alone.
LEMMA GoodClients ==
  ASSUME IInv, NEW fd \in conn
  PROVE  fd \in Fds /\ GoodClient(client[fd])
  BY DEF IInv, ClientsTypeOK, RegisteredIsValid, RefusedIsMarked, GoodClient

\* A step that replaces the record of one client by a good one.
LEMMA OneClientChanges ==
  ASSUME IInv, NEW fd \in conn, NEW r, GoodClient(r),
         client' = [client EXCEPT ![fd] = r], conn' = conn
  PROVE  IInv'
<1>1. client' \in [Fds -> ClientRec]
  BY DEF IInv, ClientsTypeOK, GoodClient
<1>2. ASSUME NEW g \in conn PROVE GoodClient(client'[g])
  BY GoodClients DEF IInv, ClientsTypeOK
<1>3. conn' \subseteq Fds
  BY DEF IInv, ClientsTypeOK
<1> QED
  BY <1>1, <1>2, <1>3
  DEF IInv, ClientsTypeOK, RegisteredIsValid, RefusedIsMarked, GoodClient

\* A registration line, once fillClients turned the record into r.
LEMMA RegistrationKeepsIInv ==
  ASSUME IInv, NEW fd \in Fds, NEW r \in ClientRec, NEW b \in BOOLEAN,
         r.done = client[fd].done, RegistrationLine(fd, r, b)
  PROVE  IInv'
<1> DEFINE s == [r EXCEPT !.info = b]
<1>1. s \in ClientRec /\ ~s.done
  BY DEF RegistrationLine, ClientRec
<1>2. GoodClient(Welcome(s))
  BY <1>1, WelcomeLemma DEF GoodClient, IsValid
<1> QED
  BY <1>2, OneClientChanges DEF RegistrationLine

\* The commands only change nick, oper, inv or closing of a registered
\* client, and a client is only ever marked.
LEMMA CommandKeepsGood ==
  ASSUME NEW r, GoodClient(r)
  PROVE  /\ \A n \in Names : r.done => GoodClient(SetNickname(r, n))
         /\ \A k \in Nat : GoodClient([r EXCEPT !.oper = k])
         /\ \A b \in BOOLEAN : GoodClient([r EXCEPT !.inv = b])
         /\ GoodClient([r EXCEPT !.closing = TRUE])
<1>1. ASSUME NEW n \in Names, r.done PROVE GoodClient(SetNickname(r, n))
  BY <1>1, SetNicknameLemma DEF GoodClient, ClientRec
<1>2. ASSUME NEW k \in Nat PROVE GoodClient([r EXCEPT !.oper = k])
  BY DEF GoodClient, ClientRec
<1>3. ASSUME NEW b \in BOOLEAN PROVE GoodClient([r EXCEPT !.inv = b])
  BY DEF GoodClient, ClientRec
<1>4. GoodClient([r EXCEPT !.closing = TRUE])
  BY DEF GoodClient, ClientRec
<1> QED
  BY <1>1, <1>2, <1>3, <1>4

\* The invariant holds of a server without clients.
LEMMA InitIInv == ClientsInit => IInv
  BY NewClientType
  DEF ClientsInit, IInv, ClientsTypeOK, RegisteredIsValid, RefusedIsMarked

\* The invariant is inductive.
LEMMA NextIInv == IInv /\ [ClientsNext]_clientVars => IInv'
<1> SUFFICES ASSUME IInv, [ClientsNext]_clientVars PROVE IInv'
  OBVIOUS
<1> USE ClientsAssumption
<1>0. client \in [Fds -> ClientRec] /\ conn \subseteq Fds
  BY DEF IInv, ClientsTypeOK
<1>1. ASSUME NEW fd \in Fds, AddClient(fd) PROVE IInv'
  <2>1. client' \in [Fds -> ClientRec] /\ conn' \subseteq Fds
    BY <1>0, <1>1, NewClientType DEF AddClient
  <2>2. ASSUME NEW g \in conn' PROVE GoodClient(client'[g])
    <3>1. CASE g = fd
      BY <1>0, <1>1, <3>1, NewClientType DEF AddClient, GoodClient, NewClient
    <3>2. CASE g # fd
      BY <1>0, <1>1, <3>2, GoodClients DEF AddClient
    <3> QED
      BY <3>1, <3>2
  <2> QED
    BY <2>1, <2>2
    DEF IInv, ClientsTypeOK, RegisteredIsValid, RefusedIsMarked, GoodClient
<1>2. ASSUME NEW fd \in Fds, DelClient(fd) PROVE IInv'
  <2>1. client' \in [Fds -> ClientRec] /\ conn' \subseteq Fds
    BY <1>0, <1>2, NewClientType DEF DelClient
  <2>2. ASSUME NEW g \in conn' PROVE GoodClient(client'[g])
    BY <1>0, <1>2, GoodClients DEF DelClient
  <2> QED
    BY <2>1, <2>2
    DEF IInv, ClientsTypeOK, RegisteredIsValid, RefusedIsMarked, GoodClient
<1>3. ASSUME NEW fd \in Fds, NEW n \in Names \cup {Empty}, NEW b \in Mentions,
             RegisterNick(fd, n, b)
      PROVE  IInv'
  <2>1. /\ SetNickname(client[fd], n) \in ClientRec
        /\ SetNickname(client[fd], n).done = client[fd].done
    BY <1>0, SetNicknameLemma DEF SetNickname, ClientRec
  <2> QED
    BY <1>3, <2>1, RegistrationKeepsIInv DEF RegisterNick
<1>4. ASSUME NEW fd \in Fds, NEW b \in Verdicts, RegisterUser(fd, b) PROVE IInv'
  <2>1. /\ [client[fd] EXCEPT !.user = @ \/ b] \in ClientRec
        /\ [client[fd] EXCEPT !.user = @ \/ b].done = client[fd].done
    BY <1>0 DEF ClientRec
  <2> QED
    BY <1>4, <2>1, RegistrationKeepsIInv DEF RegisterUser
<1>5. ASSUME NEW fd \in Fds, NEW b \in Verdicts, RegisterPass(fd, b) PROVE IInv'
  <2>1. /\ [client[fd] EXCEPT !.pass = b] \in ClientRec
        /\ [client[fd] EXCEPT !.pass = b].done = client[fd].done
    BY <1>0 DEF ClientRec
  <2> QED
    BY <1>5, <2>1, RegistrationKeepsIInv DEF RegisterPass
<1>6. ASSUME NEW fd \in Fds, MalformedLine(fd) PROVE IInv'
  BY <1>0, <1>6, GoodClients, CommandKeepsGood, OneClientChanges DEF MalformedLine
<1>7. ASSUME NEW fd \in Fds, NEW n \in Nicks, Nick(fd, n) PROVE IInv'
  BY <1>0, <1>7, GoodClients, CommandKeepsGood, OneClientChanges
  DEF Nick, MayRename, Registered, Names
<1>8. ASSUME NEW fd \in Fds, Oper(fd) PROVE IInv'
  <2>1. client[fd].oper + 1 \in Nat
    BY <1>0 DEF ClientRec
  <2> QED
    BY <1>0, <1>8, <2>1, GoodClients, CommandKeepsGood, OneClientChanges
    DEF Oper, Registered
<1>9. ASSUME NEW fd \in Fds, NEW ch \in UserModes, UserMode(fd, ch) PROVE IInv'
  <2> PICK t \in conn :
        \/ client' = [client EXCEPT ![t] = [client[t] EXCEPT !.inv = TRUE]]
        \/ client' = [client EXCEPT ![t] = [client[t] EXCEPT !.inv = FALSE]]
        \/ /\ client[t].oper > 0
           /\ client' = [client EXCEPT ![t] =
                           [client[t] EXCEPT !.oper = client[t].oper - 1]]
    BY <1>9 DEF UserMode
  <2>1. client[t].oper > 0 => client[t].oper - 1 \in Nat
    BY <1>0 DEF ClientRec
  <2>2. conn' = conn
    BY <1>9 DEF UserMode
  <2> QED
    BY <1>0, <2>1, <2>2, GoodClients, CommandKeepsGood, OneClientChanges
<1>10. ASSUME NEW fd \in Fds, NEW n \in Names, Kill(fd, n) PROVE IInv'
  <2> PICK t \in conn : client' = [client EXCEPT ![t] = [client[t] EXCEPT !.closing = TRUE]]
    BY <1>10 DEF Kill
  <2>1. conn' = conn
    BY <1>10 DEF Kill
  <2> QED
    BY <1>0, <2>1, GoodClients, CommandKeepsGood, OneClientChanges
<1>11. CASE UNCHANGED clientVars
  BY <1>11 DEF clientVars, IInv, ClientsTypeOK, RegisteredIsValid, RefusedIsMarked
<1> QED
  BY <1>1, <1>2, <1>3, <1>4, <1>5, <1>6, <1>7, <1>8, <1>9, <1>10, <1>11
  DEF ClientsNext

\* The invariant holds in every reachable state.
LEMMA IInvHolds == ClientsSpec => []IInv
  BY InitIInv, NextIInv, PTL DEF ClientsSpec

\* The types of the clients.
THEOREM ClientsTypeCorrect == ClientsSpec => []ClientsTypeOK
  BY IInvHolds, PTL DEF IInv

\* Nobody is registered without nickname, USER line and password.
THEOREM RegistrationIsValid == ClientsSpec => []RegisteredIsValid
  BY IInvHolds, PTL DEF IInv

\* A client whose registration failed is marked for disconnection.
THEOREM RefusalIsMarked == ClientsSpec => []RefusedIsMarked
  BY IInvHolds, PTL DEF IInv

----------------------------------------------------------------------------
(* Changing nicknames *)

\* Any step leaves the nickname of a registered client alone, except a NICK
\* of that client.
LEMMA OnlyNickRenames ==
  ASSUME IInv, ClientsNext, NEW fd \in conn \cap conn', client[fd].done,
         client'[fd].nick # client[fd].nick
  PROVE  \E n \in Nicks : Nick(fd, n)
<1>0. client \in [Fds -> ClientRec] /\ conn \subseteq Fds /\ fd \in Fds
  BY DEF IInv, ClientsTypeOK
<1>1. PICK g \in Fds :
        \/ AddClient(g)
        \/ DelClient(g)
        \/ \E n \in Names \cup {Empty}, b \in Mentions : RegisterNick(g, n, b)
        \/ \E b \in Verdicts : RegisterUser(g, b)
        \/ \E b \in Verdicts : RegisterPass(g, b)
        \/ MalformedLine(g)
        \/ \E n \in Nicks : Nick(g, n)
        \/ Oper(g)
        \/ \E ch \in UserModes : UserMode(g, ch)
        \/ \E n \in Names : Kill(g, n)
  BY DEF ClientsNext
<1>2. ~AddClient(g) /\ ~DelClient(g)
  BY <1>0 DEF AddClient, DelClient
<1>3. ASSUME NEW r, NEW b, RegistrationLine(g, r, b) PROVE FALSE
  BY <1>0, <1>3 DEF RegistrationLine
<1>4. ~MalformedLine(g) /\ ~Oper(g)
  BY <1>0 DEF MalformedLine, Oper, ClientRec
<1>5. ASSUME NEW ch, UserMode(g, ch) PROVE FALSE
  <2> PICK t \in conn :
        \/ client' = [client EXCEPT ![t] = [client[t] EXCEPT !.inv = TRUE]]
        \/ client' = [client EXCEPT ![t] = [client[t] EXCEPT !.inv = FALSE]]
        \/ client' = [client EXCEPT ![t] =
                           [client[t] EXCEPT !.oper = client[t].oper - 1]]
    BY <1>5 DEF UserMode
  <2> QED
    BY <1>0 DEF ClientRec
<1>6. ASSUME NEW n, Kill(g, n) PROVE FALSE
  <2> PICK t \in conn : client' = [client EXCEPT ![t] = [client[t] EXCEPT !.closing = TRUE]]
    BY <1>6 DEF Kill
  <2> QED
    BY <1>0 DEF ClientRec
<1>7. ASSUME NEW n \in Nicks, Nick(g, n) PROVE Nick(fd, n)
  BY <1>0, <1>7 DEF Nick, MayRename
<1> QED
  BY <1>1, <1>2, <1>3, <1>4, <1>5, <1>6, <1>7
  DEF RegisterNick, RegisterUser, RegisterPass

\* NICK gives a valid name that is free, to a client whose name has a legal
\* length.
THEOREM RenamesAreUnique == ClientsSpec => RenameIsUnique
<1>1. IInv /\ [ClientsNext]_clientVars =>
        \A fd \in conn \cap conn' :
          /\ client[fd].done
          /\ ~IsLong(client[fd].nick)
          /\ client'[fd].nick # client[fd].nick
          => /\ client'[fd].nick \in Nicks
             /\ \A g \in conn' \ {fd} : client'[g].nick # client'[fd].nick
  <2> SUFFICES ASSUME IInv, [ClientsNext]_clientVars, NEW fd \in conn \cap conn',
                      client[fd].done, ~IsLong(client[fd].nick),
                      client'[fd].nick # client[fd].nick
               PROVE  /\ client'[fd].nick \in Nicks
                      /\ \A g \in conn' \ {fd} : client'[g].nick # client'[fd].nick
    OBVIOUS
  <2>1. PICK n \in Nicks : Nick(fd, n)
    BY OnlyNickRenames DEF clientVars
  <2>2. fd \in Fds /\ client \in [Fds -> ClientRec] /\ conn \subseteq Fds
    BY DEF IInv, ClientsTypeOK
  <2>3. client'[fd] = SetNickname(client[fd], n)
    BY <2>1, <2>2 DEF Nick, MayRename
  <2>4. client'[fd].nick = n
    BY <2>2, <2>3, SetNicknameLemma DEF Names
  <2>5. ASSUME NEW g \in conn' \ {fd} PROVE client'[g].nick # n
    BY <2>1, <2>2 DEF Nick, MayRename, IsAlreadyUsed
  <2> QED
    BY <2>4, <2>5
<1> QED
  BY <1>1, IInvHolds, PTL DEF ClientsSpec, RenameIsUnique

----------------------------------------------------------------------------
(* Connections live as Session says *)

\* The descriptors Session sees as present are the connected ones.
LEMMA PresentIsConn == ClientsTypeOK => Lives!Present = conn
  BY DEF ClientsTypeOK, Lives!Present, Status

\* A step that changes neither conn nor the marks of registration.
LEMMA SameMarks ==
  ASSUME conn' = conn,
         \A fd \in Fds : client'[fd].done = client[fd].done
                         /\ client'[fd].info = client[fd].info
  PROVE  Status' = Status
  BY DEF Status

\* A registration line is a verdict or goes unnoticed.
LEMMA RegistrationIsVerdict ==
  ASSUME IInv, NEW fd \in Fds, NEW r \in ClientRec, NEW b \in BOOLEAN,
         r.done = client[fd].done, RegistrationLine(fd, r, b)
  PROVE  [Lives!Next]_Status
<1> DEFINE s == [r EXCEPT !.info = b]
<1>0. client \in [Fds -> ClientRec] /\ conn \subseteq Fds
  BY DEF IInv, ClientsTypeOK
<1>1. s \in ClientRec /\ ~s.done /\ s.info = b
  BY DEF RegistrationLine, ClientRec
<1>2. /\ client' = [client EXCEPT ![fd] = Welcome(s)] /\ conn' = conn
      /\ fd \in conn /\ ~client[fd].done /\ ~client[fd].info
  BY DEF RegistrationLine
<1>3. Welcome(s) \in ClientRec /\ Welcome(s).info = b /\ (~b => ~Welcome(s).done)
  BY <1>1, WelcomeLemma
<1> HIDE DEF s
<1>4. CASE b
  <2> DEFINE v == IF Welcome(s).done THEN "member" ELSE "refused"
  <2>1. Status[fd] = "greeting"
    BY <1>2 DEF Status
  <2>2. Status' = [Status EXCEPT ![fd] = v]
    BY <1>0, <1>2, <1>3, <1>4 DEF Status
  <2> QED
    BY <2>1, <2>2 DEF Lives!Next, Lives!Verdict
<1>5. CASE ~b
  <2>1. ASSUME NEW g \in Fds
        PROVE  client'[g].done = client[g].done /\ client'[g].info = client[g].info
    BY <1>0, <1>2, <1>3, <1>5 DEF ClientRec
  <2> QED
    BY <1>2, <2>1, SameMarks
<1> QED
  BY <1>4, <1>5

\* Every step of the server is a step of Session, or none.
LEMMA StepIsSessionStep ==
  ASSUME IInv, [ClientsNext]_clientVars
  PROVE  [Lives!Next]_Status
<1> USE ClientsAssumption
<1>0. client \in [Fds -> ClientRec] /\ conn \subseteq Fds /\ Lives!Present = conn
  BY PresentIsConn DEF IInv, ClientsTypeOK
<1>1. ASSUME NEW fd \in Fds, AddClient(fd) PROVE Lives!Next
  <2>1. Status[fd] = "absent" /\ Cardinality(Lives!Present) < MaxClients
    BY <1>0, <1>1 DEF AddClient, Status
  <2>2. Status' = [Status EXCEPT ![fd] = "greeting"]
    BY <1>0, <1>1 DEF AddClient, Status, NewClient
  <2> QED
    BY <2>1, <2>2 DEF Lives!Next, Lives!Connect, Cardinality, Lives!Cardinality
<1>2. ASSUME NEW fd \in Fds, DelClient(fd) PROVE Lives!Next
  <2>1. Status[fd] # "absent"
    BY <1>2 DEF DelClient, Status
  <2>2. Status' = [Status EXCEPT ![fd] = "absent"]
    BY <1>0, <1>2 DEF DelClient, Status
  <2> QED
    BY <2>1, <2>2 DEF Lives!Next, Lives!Leave
<1>3. ASSUME NEW fd \in Fds, NEW n \in Names \cup {Empty}, NEW b \in Mentions,
             RegisterNick(fd, n, b)
      PROVE  [Lives!Next]_Status
  <2>1. /\ SetNickname(client[fd], n) \in ClientRec
        /\ SetNickname(client[fd], n).done = client[fd].done
    BY <1>0, SetNicknameLemma DEF SetNickname, ClientRec
  <2> QED
    BY <1>3, <2>1, RegistrationIsVerdict DEF RegisterNick
<1>4. ASSUME NEW fd \in Fds, NEW b \in Verdicts, RegisterUser(fd, b)
      PROVE  [Lives!Next]_Status
  <2>1. /\ [client[fd] EXCEPT !.user = @ \/ b] \in ClientRec
        /\ [client[fd] EXCEPT !.user = @ \/ b].done = client[fd].done
    BY <1>0 DEF ClientRec
  <2> QED
    BY <1>4, <2>1, RegistrationIsVerdict DEF RegisterUser
<1>5. ASSUME NEW fd \in Fds, NEW b \in Verdicts, RegisterPass(fd, b)
      PROVE  [Lives!Next]_Status
  <2>1. /\ [client[fd] EXCEPT !.pass = b] \in ClientRec
        /\ [client[fd] EXCEPT !.pass = b].done = client[fd].done
    BY <1>0 DEF ClientRec
  <2> QED
    BY <1>5, <2>1, RegistrationIsVerdict DEF RegisterPass
<1>6. ASSUME conn' = conn, NEW t \in conn, NEW r, client' = [client EXCEPT ![t] = r],
             r.done = client[t].done, r.info = client[t].info
      PROVE  Status' = Status
  <2>1. ASSUME NEW g \in Fds
        PROVE  client'[g].done = client[g].done /\ client'[g].info = client[g].info
    BY <1>0, <1>6
  <2> QED
    BY <1>6, <2>1, SameMarks
<1>7. ASSUME NEW fd \in Fds,
             \/ MalformedLine(fd) \/ Oper(fd)
             \/ \E n \in Nicks : Nick(fd, n)
             \/ \E ch \in UserModes : UserMode(fd, ch)
             \/ \E n \in Names : Kill(fd, n)
      PROVE  \E t \in conn : \E r :
               /\ client' = [client EXCEPT ![t] = r]
               /\ conn' = conn
               /\ r.done = client[t].done /\ r.info = client[t].info
  <2>1. CASE MalformedLine(fd) \/ Oper(fd)
    BY <1>0, <2>1 DEF MalformedLine, Oper, Registered, ClientRec
  <2>2. CASE \E n \in Nicks : Nick(fd, n)
    <3> PICK n \in Nicks : Nick(fd, n)
      BY <2>2
    <3>1. /\ SetNickname(client[fd], n).done = client[fd].done
          /\ SetNickname(client[fd], n).info = client[fd].info
      BY <1>0 DEF SetNickname, ClientRec
    <3> QED
      BY <3>1 DEF Nick, MayRename, Registered
  <2>3. CASE \E ch \in UserModes : UserMode(fd, ch)
    BY <1>0, <2>3 DEF UserMode, ClientRec
  <2>4. CASE \E n \in Names : Kill(fd, n)
    <3> PICK t \in conn : client' = [client EXCEPT ![t] = [client[t] EXCEPT !.closing = TRUE]]
      BY <2>4 DEF Kill
    <3>1. conn' = conn
      BY <2>4 DEF Kill
    <3>2. /\ [client[t] EXCEPT !.closing = TRUE].done = client[t].done
          /\ [client[t] EXCEPT !.closing = TRUE].info = client[t].info
      BY <1>0 DEF ClientRec
    <3> QED
      BY <3>1, <3>2
  <2> QED
    BY <1>7, <2>1, <2>2, <2>3, <2>4
<1>8. CASE UNCHANGED clientVars
  BY <1>8 DEF clientVars, Status
<1> QED
  BY <1>1, <1>2, <1>3, <1>4, <1>5, <1>6, <1>7, <1>8 DEF ClientsNext

\* Whatever the descriptors, nicknames and capacity, connections live as
\* Session says: never more than MAX_CLIENT_NB, one verdict for each.
THEOREM ClientsImplementSession == ClientsSpec => LivesAreSessions
<1>1. ClientsInit => Lives!Init
  BY DEF ClientsInit, Lives!Init, Status
<1> QED
  BY <1>1, IInvHolds, StepIsSessionStep, PTL
  DEF ClientsSpec, LivesAreSessions, Lives!Spec
=============================================================================
