----------------------------- MODULE ServerLoop -----------------------------
(***************************************************************************)
(* Server::manageServerLoop: one thread that polls the listening socket    *)
(* and the sockets of the clients, visits the sockets in order, accepts,   *)
(* receives, runs the lines of a client and drops the clients that hang    *)
(* up. The remote ends connect, send pieces of lines and hang up whenever  *)
(* they please.                                                            *)
(*                                                                         *)
(* A line is made of two pieces: the second one ends with CR LF. What a    *)
(* line does is left to the other modules; here it completes, or throws    *)
(* each time it is run (a line parseCommand cannot split).                 *)
(***************************************************************************)
EXTENDS Naturals, FiniteSets, Sequences, SequencesExt

CONSTANTS
  Fds,        \* descriptors accept() may return
  Listen,     \* the descriptor of the listening socket
  MaxClients, \* MAX_CLIENT_NB
  MaxLines,   \* bound on the lines of one connection that are told apart
  MaxRuns     \* the count of the executions of a line stops there

ASSUME ServerLoopAssumption ==
  /\ Fds \subseteq Nat /\ Listen \in Nat \ Fds
  /\ MaxClients \in Nat /\ MaxLines \in Nat /\ MaxRuns \in Nat

AtPoll == 0
AtListen == 1
NoBad == 0
MaxPieces == 2 * MaxLines
LineNos == 1 .. MaxLines

VARIABLES
  backlog,  \* a connection waits to be accepted
  peer,     \* the remote ends
  conn,     \* keys of _clients
  client,   \* the Client objects
  polled,   \* poll_fds without its first element, the listening socket
  accepted, \* new_pollfds
  revents,  \* the sockets poll() reported, with their events
  at        \* AtPoll, AtListen, or 1 + the index in polled of the iterator

vars == <<backlog, peer, conn, client, polled, accepted, revents, at>>

(***************************************************************************)
(* peer: sent counts the pieces sent (up to MaxPieces, the connection may  *)
(* send further without being counted); avail says that some of it waits   *)
(* to be received; bad is its first line that throws; gone: it hung up.    *)
(* client: got is the number of pieces in _readbuf; runs counts, for each  *)
(* line, its executions; replies: _sendbuf is not empty; closing:          *)
(* _to_deconnect.                                                          *)
(***************************************************************************)
PeerRec ==
  [sent : 0 .. MaxPieces, avail : BOOLEAN, bad : 0 .. MaxLines, gone : BOOLEAN]

ClientRec ==
  [got : 0 .. MaxPieces, runs : [LineNos -> 0 .. MaxRuns],
   replies : BOOLEAN, closing : BOOLEAN]

NewPeer(b) == [sent |-> 0, avail |-> FALSE, bad |-> b, gone |-> FALSE]

NewClient ==
  [got |-> 0, runs |-> [k \in LineNos |-> 0], replies |-> FALSE,
   closing |-> FALSE]

Events == {"POLLIN", "POLLOUT"}

ServerLoopTypeOK ==
  /\ backlog \in BOOLEAN
  /\ conn \subseteq Fds
  /\ peer \in [Fds -> PeerRec]
  /\ client \in [Fds -> ClientRec]
  /\ polled \in Seq(Fds) /\ accepted \in Seq(Fds)
  /\ revents \in [Fds \cup {Listen} -> SUBSET Events]
  /\ at \in 0 .. Len(polled) + 2

Quiet == [s \in Fds \cup {Listen} |-> {}]

ServerLoopInit ==
  /\ backlog = FALSE
  /\ conn = {}
  /\ peer = [fd \in Fds |-> NewPeer(NoBad)]
  /\ client = [fd \in Fds |-> NewClient]
  /\ polled = <<>> /\ accepted = <<>>
  /\ revents = Quiet
  /\ at = AtPoll

----------------------------------------------------------------------------
(* The remote ends *)

Connect ==
  /\ ~backlog
  /\ backlog' = TRUE
  /\ UNCHANGED <<peer, conn, client, polled, accepted, revents, at>>

\* A connection that waits is given up, or broken by an error, before it is
\* accepted.
Withdraw ==
  /\ backlog
  /\ backlog' = FALSE
  /\ UNCHANGED <<peer, conn, client, polled, accepted, revents, at>>

Send(fd) ==
  /\ fd \in conn
  /\ ~peer[fd].gone
  /\ peer' = [peer EXCEPT ![fd].avail = TRUE,
                          ![fd].sent = IF @ < MaxPieces THEN @ + 1 ELSE @]
  /\ UNCHANGED <<backlog, conn, client, polled, accepted, revents, at>>

\* A reset (lossy) also discards what was not received yet.
HangUp(fd, lossy) ==
  /\ fd \in conn
  /\ ~peer[fd].gone
  /\ peer' = [peer EXCEPT ![fd].gone = TRUE,
                          ![fd].avail = @ /\ ~lossy]
  /\ UNCHANGED <<backlog, conn, client, polled, accepted, revents, at>>

Environment ==
  \/ Connect
  \/ Withdraw
  \/ \E fd \in Fds : Send(fd) \/ (\E lossy \in BOOLEAN : HangUp(fd, lossy))

----------------------------------------------------------------------------
(* The loop *)

\* The events a pollfd asks for: addClient and manageServerLoop set POLLIN.
Requested == {"POLLIN"}

\* Mutant: a full server does not look at its listening socket.
MutantHappening(s) ==
  IF s = Listen THEN {e \in {"POLLIN"} : backlog /\ Len(polled) < MaxClients}
  ELSE {e \in {"POLLIN"} : s \in conn /\ (peer[s].avail \/ peer[s].gone)}

Happening(s) ==
  IF s = Listen THEN {e \in {"POLLIN"} : backlog}
  ELSE {e \in Events : s \in conn /\ (e = "POLLOUT" \/ peer[s].avail \/ peer[s].gone)}

\* poll() without a timeout: it returns once a socket has an event.
Poll ==
  LET reported == [s \in Fds \cup {Listen} |->
                     IF s = Listen \/ s \in ToSet(polled)
                     THEN Requested \cap Happening(s) ELSE {}]
  IN /\ at = AtPoll
     /\ reported # Quiet
     /\ revents' = reported
     /\ at' = AtListen
     /\ UNCHANGED <<backlog, peer, conn, client, polled, accepted>>

\* Mutant: a break forgets the connections accepted in this pass.
MutantEndScan(remaining) ==
  /\ polled' = IF at = Len(polled) + 2 THEN remaining \o accepted ELSE remaining
  /\ accepted' = <<>>
  /\ revents' = Quiet
  /\ at' = AtPoll

\* The end of the scan, or a break out of it: new_pollfds is appended.
EndScan(remaining) ==
  /\ polled' = remaining \o accepted
  /\ accepted' = <<>>
  /\ revents' = Quiet
  /\ at' = AtPoll

Continue ==
  /\ at' = at + 1
  /\ UNCHANGED <<polled, accepted, revents>>

\* Mutant: one client too many.
MutantVisitListen ==
  /\ at = AtListen
  /\ at' = at + 1
  /\ "POLLIN" \in revents[Listen]
  /\ backlog' = FALSE
  /\ Len(polled) <= MaxClients
  /\ \E fd \in Fds \ conn :
       /\ conn' = conn \cup {fd}
       /\ accepted' = Append(accepted, fd)
  /\ UNCHANGED <<peer, client, polled, revents>>

\* A connection is accepted and becomes a client, or is closed at once when
\* the server is full. The socket is a blocking one: when the connection that
\* poll() saw is gone, accept() waits for another. (A failing accept() is
\* retried, without another poll(): a stuttering step.)
VisitListen ==
  /\ at = AtListen
  /\ "POLLIN" \in revents[Listen] => backlog
  /\ at' = at + 1
  /\ IF "POLLIN" \notin revents[Listen]
     THEN UNCHANGED <<backlog, peer, conn, client, accepted>>
     ELSE /\ backlog' = FALSE
          /\ IF Len(polled) < MaxClients
             THEN \E fd \in Fds \ conn, b \in 0 .. MaxLines :
                    /\ \A g \in Fds \ conn : fd <= g
                    /\ conn' = conn \cup {fd}
                    /\ client' = [client EXCEPT ![fd] = NewClient]
                    /\ peer' = [peer EXCEPT ![fd] = NewPeer(b)]
                    /\ accepted' = Append(accepted, fd)
             ELSE UNCHANGED <<peer, conn, client, accepted>>
  /\ UNCHANGED <<polled, revents>>

\* Mutant: the scan goes on after the erasure.
MutantDelClient(fd) ==
  /\ conn' = conn \ {fd}
  /\ client' = [client EXCEPT ![fd] = NewClient]
  /\ peer' = [peer EXCEPT ![fd] = NewPeer(NoBad)]
  /\ polled' = RemoveAt(polled, at - 1)
  /\ at' = at + 1
  /\ UNCHANGED <<backlog, accepted, revents>>

\* close(), _clients.erase() and poll_fds.erase(), then a break.
DelClient(fd) ==
  /\ conn' = conn \ {fd}
  /\ client' = [client EXCEPT ![fd] = NewClient]
  /\ peer' = [peer EXCEPT ![fd] = NewPeer(NoBad)]
  /\ EndScan(RemoveAt(polled, at - 1))
  /\ UNCHANGED backlog

Complete(r) == r.got \div 2

\* Mutant: a line that throws is skipped.
MutantRan(r, bad) ==
  [r EXCEPT !.runs = [k \in LineNos |-> IF k <= Complete(r) THEN 1 ELSE 0],
            !.replies = TRUE,
            !.closing = @ \/ (bad # NoBad /\ bad <= Complete(r))]

\* parseMessage on the whole read buffer: its complete lines are run from the
\* first one, up to one that throws.
Ran(r, bad) ==
  LET last == IF bad = NoBad \/ bad > Complete(r) THEN Complete(r) ELSE bad - 1
      bump(k) == IF k <= last /\ r.runs[k] < MaxRuns THEN 1 ELSE 0
  IN [r EXCEPT !.runs = [k \in LineNos |-> r.runs[k] + bump(k)],
               !.replies = @ \/ last > 0,
               !.closing = @ \/ (bad # NoBad /\ bad <= Complete(r))]

\* Mutant: the scan ends after each message.
MutantReceive(fd) ==
  /\ peer' = [peer EXCEPT ![fd].avail = FALSE]
  /\ client' = [client EXCEPT ![fd] =
                  Ran([client[fd] EXCEPT !.got = peer[fd].sent], peer[fd].bad)]
  /\ EndScan(polled)
  /\ UNCHANGED <<backlog, conn>>

\* recv() takes all there is and setReadBuffer appends it. Once the buffer
\* holds a CR LF its lines are run; an exception ends the scan.
Receive(fd) ==
  LET r == [client[fd] EXCEPT !.got = peer[fd].sent]
      bad == peer[fd].bad
  IN /\ peer' = [peer EXCEPT ![fd].avail = FALSE]
     /\ client' = [client EXCEPT ![fd] = IF Complete(r) > 0 THEN Ran(r, bad) ELSE r]
     /\ IF bad # NoBad /\ bad <= Complete(r) THEN EndScan(polled) ELSE Continue
     /\ UNCHANGED <<backlog, conn>>

\* handlePolloutEvent: the replies leave, the read buffer is emptied and a
\* client marked for disconnection is dropped.
Flush(fd) ==
  IF client[fd].closing THEN DelClient(fd)
  ELSE /\ client' = [client EXCEPT ![fd].replies = FALSE, ![fd].got = 0]
       /\ peer' = [peer EXCEPT ![fd].sent = @ - client[fd].got]
       /\ Continue
       /\ UNCHANGED <<backlog, conn>>

Visit(fd) ==
  /\ at - 1 \in DOMAIN polled
  /\ fd = polled[at - 1]
  /\ IF "POLLIN" \in revents[fd]
     THEN IF peer[fd].avail THEN Receive(fd) ELSE DelClient(fd)
     ELSE IF "POLLOUT" \in revents[fd] THEN Flush(fd)
     ELSE Continue /\ UNCHANGED <<backlog, peer, conn, client>>

ScanDone ==
  /\ at = Len(polled) + 2
  /\ EndScan(polled)
  /\ UNCHANGED <<backlog, peer, conn, client>>

ServerStep == Poll \/ VisitListen \/ (\E fd \in Fds : Visit(fd)) \/ ScanDone

ServerLoopNext == Environment \/ ServerStep

ServerLoopSpec == ServerLoopInit /\ [][ServerLoopNext]_vars

\* The loop runs as long as it can; nothing is asked of the remote ends.
FairServerLoopSpec == ServerLoopSpec /\ WF_vars(ServerStep)

----------------------------------------------------------------------------
(* Properties *)

\* poll_fds, with the connections accepted in this pass, and _clients hold
\* the same descriptors, each once: every descriptor visited has its client.
PollMapAgreement ==
  /\ ToSet(polled) \cup ToSet(accepted) = conn
  /\ IsInjective(polled \o accepted)

\* The server holds at most MAX_CLIENT_NB clients, although the test of
\* capacity does not count the connections accepted in this pass.
CapacityRespected == Len(polled \o accepted) <= MaxClients

\* The events used in a scan belong to the connection poll() reported them
\* for: a descriptor closed in a scan is neither visited nor given to another
\* connection before the next poll().
ReportedAreOpen ==
  \A fd \in Fds : revents[fd] # {} => fd \in conn /\ fd \in ToSet(polled)

\* Lines run in order: none before it is complete, none more often than the
\* lines before it, none from the first line that throws on; once that line is
\* complete its client is marked.
LinesRunInOrder ==
  \A fd \in conn :
    LET r == client[fd]
        bad == peer[fd].bad
    IN /\ \A k \in LineNos :
            /\ r.runs[k] > 0 => 2 * k <= r.got
            /\ \A j \in 1 .. k : r.runs[j] >= r.runs[k]
            /\ bad # NoBad /\ bad <= k => r.runs[k] = 0
       /\ bad # NoBad /\ 2 * bad <= r.got => r.closing

\* New connections are always taken care of, whatever the clients send: the
\* listening socket is the first one visited in each pass.
AcceptsAreServed == backlog ~> ~backlog

\* The thread waits in accept(), on the word of a poll() that is out of date.
BlockedInAccept == at = AtListen /\ revents[Listen] # {} /\ ~backlog

\* As long as no line throws and accept() finds the connections poll() saw,
\* what a client sends is received and a client that hangs up is dropped, even
\* if others never stop sending.
ClientsAreServed ==
  []((\A fd \in Fds : peer[fd].bad = NoBad) /\ ~BlockedInAccept) =>
    \A fd \in Fds : /\ peer[fd].avail ~> ~peer[fd].avail
                    /\ peer[fd].gone ~> ~peer[fd].gone

----------------------------------------------------------------------------
(* What documentation says and the code does not do *)

\* A client marked for disconnection (QUIT, KILL) is disconnected.
ClosingCloses ==
  \A fd \in Fds : client[fd].closing ~> ~client[fd].closing
=============================================================================
