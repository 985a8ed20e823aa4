-------------------------- MODULE ServerLoopProofs --------------------------
(***************************************************************************)
(* Proofs about module ServerLoop, for every set of descriptors, capacity  *)
(* and number of lines. The part of the invariant that makes it inductive: *)
(* connections are accepted once per pass, before any client is visited    *)
(* (AcceptedInPass) and nobody is reported for POLLOUT (OnlyPollin). The   *)
(* order of lines needs also that what is received was sent (GoodLines).   *)
(***************************************************************************)
EXTENDS ServerLoop, SequenceTheorems, TLAPS

\* poll_fds without the listening socket, as it will be after the pass.
Watch == polled \o accepted

AcceptedInPass == at \in {AtPoll, AtListen} => accepted = <<>>

OnlyPollin == \A s \in Fds \cup {Listen} : revents[s] \subseteq {"POLLIN"}

ScanInv ==
  /\ ServerLoopTypeOK /\ PollMapAgreement /\ CapacityRespected /\ ReportedAreOpen
  /\ AcceptedInPass /\ OnlyPollin

----------------------------------------------------------------------------
(* Lemmas on sequences *)

\* Erasing an element shifts the ones behind it.
LEMMA RemoveAtProperties ==
  ASSUME NEW S, NEW s \in Seq(S), NEW i \in 1 .. Len(s)
  PROVE  /\ RemoveAt(s, i) \in Seq(S)
         /\ Len(RemoveAt(s, i)) = Len(s) - 1
         /\ \A k \in 1 .. Len(s) - 1 :
              RemoveAt(s, i)[k] = IF k < i THEN s[k] ELSE s[k + 1]
<1> DEFINE a == SubSeq(s, 1, i - 1)
           b == SubSeq(s, i + 1, Len(s))
<1>1. /\ a \in Seq(S) /\ Len(a) = i - 1
      /\ \A k \in 1 .. i - 1 : a[k] = s[k]
  <2>1. \A k \in 1 .. i - 1 : s[k] \in S
    BY ElementOfSeq
  <2> QED BY <2>1, SubSeqProperties
<1>2. /\ b \in Seq(S) /\ Len(b) = Len(s) - i
      /\ \A k \in 1 .. Len(s) - i : b[k] = s[i + k]
  <2>1. \A k \in i + 1 .. Len(s) : s[k] \in S
    BY ElementOfSeq
  <2>2. i + 1 \in Int /\ Len(s) \in Int
    BY LenProperties
  <2>3. /\ b \in Seq(S)
        /\ Len(b) = IF i + 1 <= Len(s) THEN Len(s) - (i + 1) + 1 ELSE 0
        /\ \A k \in 1 .. Len(s) - (i + 1) + 1 : b[k] = s[(i + 1) + k - 1]
    BY <2>1, <2>2, SubSeqProperties
  <2> QED BY <2>2, <2>3
<1>3. RemoveAt(s, i) = a \o b
  BY DEF RemoveAt
<1> HIDE DEF a, b
<1>4. /\ a \o b \in Seq(S) /\ Len(a \o b) = Len(a) + Len(b)
      /\ \A k \in 1 .. Len(a) + Len(b) :
           (a \o b)[k] = IF k <= Len(a) THEN a[k] ELSE b[k - Len(a)]
  BY <1>1, <1>2, ConcatProperties
<1> QED BY <1>1, <1>2, <1>3, <1>4, LenProperties

\* Erasing from a part of a concatenation is erasing from the whole.
LEMMA RemoveAtOfConcat ==
  ASSUME NEW S, NEW s \in Seq(S), NEW t \in Seq(S), NEW i \in 1 .. Len(s)
  PROVE  RemoveAt(s, i) \o t = RemoveAt(s \o t, i)
<1> DEFINE r == RemoveAt(s, i)
           q == s \o t
<1>1. /\ q \in Seq(S) /\ Len(q) = Len(s) + Len(t)
      /\ \A k \in 1 .. Len(s) + Len(t) : q[k] = IF k <= Len(s) THEN s[k] ELSE t[k - Len(s)]
  BY ConcatProperties
<1>2. Len(s) \in Nat /\ Len(t) \in Nat
  BY LenProperties
<1>3. /\ r \in Seq(S) /\ Len(r) = Len(s) - 1
      /\ \A k \in 1 .. Len(s) - 1 : r[k] = IF k < i THEN s[k] ELSE s[k + 1]
  BY RemoveAtProperties
<1>4. i \in 1 .. Len(q)
  BY <1>1, <1>2
<1>5. /\ RemoveAt(q, i) \in Seq(S) /\ Len(RemoveAt(q, i)) = Len(q) - 1
      /\ \A k \in 1 .. Len(q) - 1 : RemoveAt(q, i)[k] = IF k < i THEN q[k] ELSE q[k + 1]
  BY <1>1, <1>4, RemoveAtProperties
<1>6. /\ r \o t \in Seq(S) /\ Len(r \o t) = Len(r) + Len(t)
      /\ \A k \in 1 .. Len(r) + Len(t) :
           (r \o t)[k] = IF k <= Len(r) THEN r[k] ELSE t[k - Len(r)]
  BY <1>3, ConcatProperties
<1> HIDE DEF r, q
<1>7. \A k \in 1 .. Len(r \o t) : (r \o t)[k] = RemoveAt(q, i)[k]
  BY <1>1, <1>2, <1>3, <1>5, <1>6, SMTT(30)
<1>8. Len(r \o t) = Len(RemoveAt(q, i))
  BY <1>1, <1>2, <1>3, <1>5, <1>6
<1>9. r \o t = RemoveAt(q, i)
  BY <1>5, <1>6, <1>7, <1>8, SeqEqual
<1> QED BY <1>9 DEF r, q

\* Erasing from a sequence without repetitions takes its element away.
LEMMA RemoveAtOfInjective ==
  ASSUME NEW S, NEW s \in Seq(S), NEW i \in 1 .. Len(s), IsInjective(s)
  PROVE  /\ IsInjective(RemoveAt(s, i))
         /\ ToSet(RemoveAt(s, i)) = ToSet(s) \ {s[i]}
<1> DEFINE r == RemoveAt(s, i)
<1>1. /\ r \in Seq(S) /\ Len(r) = Len(s) - 1
      /\ \A k \in 1 .. Len(s) - 1 : r[k] = IF k < i THEN s[k] ELSE s[k + 1]
  BY RemoveAtProperties
<1>2. Len(s) \in Nat /\ DOMAIN s = 1 .. Len(s) /\ DOMAIN r = 1 .. Len(s) - 1
  BY <1>1, LenProperties
<1>3. \A j, k \in 1 .. Len(s) : s[j] = s[k] => j = k
  BY <1>2 DEF IsInjective
<1> HIDE DEF r
<1>4. IsInjective(r)
  <2> SUFFICES ASSUME NEW j \in 1 .. Len(s) - 1, NEW k \in 1 .. Len(s) - 1, r[j] = r[k]
               PROVE  j = k
    BY <1>2 DEF IsInjective
  <2> QED BY <1>1, <1>2, <1>3
<1>5. \A x : x \in ToSet(r) => x \in ToSet(s) \ {s[i]}
  <2> SUFFICES ASSUME NEW k \in 1 .. Len(s) - 1
               PROVE  r[k] \in {s[j] : j \in 1 .. Len(s)} \ {s[i]}
    BY <1>2 DEF ToSet
  <2>1. CASE k < i
    BY <1>1, <1>2, <1>3, <2>1
  <2>2. CASE ~(k < i)
    BY <1>1, <1>2, <1>3, <2>2
  <2> QED BY <2>1, <2>2
<1>6. \A x : x \in ToSet(s) \ {s[i]} => x \in ToSet(r)
  <2> SUFFICES ASSUME NEW k \in 1 .. Len(s), s[k] # s[i]
               PROVE  s[k] \in {r[j] : j \in 1 .. Len(s) - 1}
    BY <1>2 DEF ToSet
  <2>1. CASE k < i
    BY <1>1, <1>2, <2>1
  <2>2. CASE k > i
    <3>1. k - 1 \in 1 .. Len(s) - 1 /\ ~(k - 1 < i) /\ (k - 1) + 1 = k
      BY <1>2, <2>2
    <3>2. r[k - 1] = s[k]
      BY <1>1, <3>1
    <3> QED BY <3>1, <3>2
  <2> QED BY <1>2, <2>1, <2>2
<1> QED BY <1>4, <1>5, <1>6 DEF r

\* Appending a new element.
LEMMA AppendToInjective ==
  ASSUME NEW S, NEW s \in Seq(S), NEW x \in S, IsInjective(s), x \notin ToSet(s)
  PROVE  /\ IsInjective(Append(s, x))
         /\ ToSet(Append(s, x)) = ToSet(s) \cup {x}
<1> DEFINE r == Append(s, x)
<1>1. /\ r \in Seq(S) /\ Len(r) = Len(s) + 1 /\ r[Len(s) + 1] = x
      /\ \A k \in 1 .. Len(s) : r[k] = s[k]
  BY AppendProperties
<1>2. Len(s) \in Nat /\ DOMAIN s = 1 .. Len(s) /\ DOMAIN r = 1 .. Len(s) + 1
  BY <1>1, LenProperties
<1> HIDE DEF r
<1>3. ToSet(r) = ToSet(s) \cup {x}
  BY <1>1, <1>2 DEF ToSet
<1>4. IsInjective(r)
  BY <1>1, <1>2 DEF IsInjective, ToSet
<1> QED BY <1>3, <1>4 DEF r

\* The elements of a concatenation.
LEMMA ToSetOfConcat ==
  ASSUME NEW S, NEW s \in Seq(S), NEW t \in Seq(S)
  PROVE  ToSet(s \o t) = ToSet(s) \cup ToSet(t)
<1>1. DOMAIN s = 1 .. Len(s) /\ DOMAIN t = 1 .. Len(t) /\ s \o t \in Seq(S)
  BY LenProperties, ConcatProperties
<1>2. DOMAIN (s \o t) = 1 .. Len(s \o t)
  BY <1>1, LenProperties
<1>3. ToSet(s \o t) = Range(s \o t) /\ ToSet(s) = Range(s) /\ ToSet(t) = Range(t)
  BY DEF ToSet, Range
<1> QED BY <1>3, RangeConcatenation

----------------------------------------------------------------------------
(* poll_fds and _clients: the steps of the scan *)

\* Agreement, said of the descriptors to poll after the pass.
LEMMA AgreementOfWatch ==
  ASSUME ServerLoopTypeOK
  PROVE  PollMapAgreement <=> ToSet(Watch) = conn /\ IsInjective(Watch)
<1>1. ToSet(Watch) = ToSet(polled) \cup ToSet(accepted)
  BY ToSetOfConcat DEF Watch, ServerLoopTypeOK
<1> QED BY <1>1 DEF PollMapAgreement, Watch

\* The same of the next state.
LEMMA AgreementOfNextWatch ==
  ASSUME ServerLoopTypeOK', ToSet(Watch') = conn', IsInjective(Watch')
  PROVE  PollMapAgreement'
<1>1. polled' \in Seq(Fds) /\ accepted' \in Seq(Fds)
  BY DEF ServerLoopTypeOK
<1>2. ToSet(polled' \o accepted') = ToSet(polled') \cup ToSet(accepted')
  BY <1>1, ToSetOfConcat
<1> QED BY <1>2 DEF PollMapAgreement, Watch

\* New connections have records of the right types.
LEMMA NewRecords ==
  NewClient \in ClientRec /\ (\A b \in 0 .. MaxLines : NewPeer(b) \in PeerRec)
<1>1. MaxPieces \in Nat /\ 0 \in 0 .. MaxPieces /\ 0 \in 0 .. MaxRuns
  BY ServerLoopAssumption DEF MaxPieces
<1> QED BY <1>1 DEF NewClient, NewPeer, ClientRec, PeerRec

\* At first there is nobody.
LEMMA ScanInit == ServerLoopInit => ScanInv
<1> SUFFICES ASSUME ServerLoopInit PROVE ScanInv
  OBVIOUS
<1> USE DEF ServerLoopInit
<1>1. ServerLoopTypeOK
  <2>1. NewClient \in ClientRec /\ NewPeer(NoBad) \in PeerRec
    BY NewRecords, ServerLoopAssumption DEF NoBad
  <2>2. Quiet \in [Fds \cup {Listen} -> SUBSET Events]
    BY DEF Quiet
  <2>3. polled \in Seq(Fds) /\ accepted \in Seq(Fds) /\ Len(polled) = 0
    BY EmptySeq
  <2>4. client \in [Fds -> ClientRec] /\ peer \in [Fds -> PeerRec]
    BY <2>1
  <2>5. at \in 0 .. Len(polled) + 2
    BY <2>3 DEF AtPoll
  <2> QED BY <2>2, <2>3, <2>4, <2>5 DEF ServerLoopTypeOK
<1>2. PollMapAgreement /\ CapacityRespected
  BY ServerLoopAssumption DEF PollMapAgreement, CapacityRespected, ToSet, IsInjective
<1>3. ReportedAreOpen /\ AcceptedInPass /\ OnlyPollin
  BY DEF ReportedAreOpen, AcceptedInPass, OnlyPollin, Quiet
<1> QED BY <1>1, <1>2, <1>3 DEF ScanInv

\* A step that changes neither the descriptors nor what poll() reported: the
\* remote ends, and most visits.
LEMMA SameWatch ==
  ASSUME ScanInv, ServerLoopTypeOK', UNCHANGED <<conn, polled, accepted, revents>>,
         at' = at \/ at' > AtListen
  PROVE  ScanInv'
<1>1. PollMapAgreement' /\ CapacityRespected'
  BY DEF ScanInv, PollMapAgreement, CapacityRespected
<1>2. ReportedAreOpen' /\ OnlyPollin'
  BY DEF ScanInv, ReportedAreOpen, OnlyPollin
<1>3. AcceptedInPass'
  BY DEF ScanInv, ServerLoopTypeOK, AcceptedInPass, AtPoll, AtListen
<1> QED BY <1>1, <1>2, <1>3 DEF ScanInv

\* Reception and the execution of lines keep the records well-typed.
LEMMA RanType ==
  ASSUME NEW r \in ClientRec, NEW bad \in 0 .. MaxLines
  PROVE  /\ Ran(r, bad) \in ClientRec
         /\ Ran(r, bad).got = r.got
         /\ Complete(r) \in Nat /\ 2 * Complete(r) <= r.got /\ r.got < 2 * Complete(r) + 2
<1>1. r.got \in Nat /\ MaxRuns \in Nat /\ MaxLines \in Nat
  BY ServerLoopAssumption DEF ClientRec, MaxPieces
<1>2. Complete(r) \in Nat /\ 2 * Complete(r) <= r.got /\ r.got < 2 * Complete(r) + 2
  BY <1>1 DEF Complete
<1> DEFINE last == IF bad = NoBad \/ bad > Complete(r) THEN Complete(r) ELSE bad - 1
           bump(k) == IF k <= last /\ r.runs[k] < MaxRuns THEN 1 ELSE 0
           runs == [k \in LineNos |-> r.runs[k] + bump(k)]
<1>3. runs \in [LineNos -> 0 .. MaxRuns]
  <2> SUFFICES ASSUME NEW k \in LineNos
               PROVE  r.runs[k] + bump(k) \in 0 .. MaxRuns
    OBVIOUS
  <2>1. r.runs[k] \in 0 .. MaxRuns
    BY DEF ClientRec
  <2> QED BY <1>1, <2>1
<1>4. Ran(r, bad) = [r EXCEPT !.runs = runs, !.replies = @ \/ last > 0,
                              !.closing = @ \/ (bad # NoBad /\ bad <= Complete(r))]
  BY DEF Ran
<1> HIDE DEF last, runs
<1> QED BY <1>2, <1>3, <1>4 DEF ClientRec

LEMMA ReceiveTypes ==
  ASSUME ServerLoopTypeOK, NEW fd \in Fds, Receive(fd)
  PROVE  peer' \in [Fds -> PeerRec] /\ client' \in [Fds -> ClientRec]
<1> DEFINE r == [client[fd] EXCEPT !.got = peer[fd].sent]
           bad == peer[fd].bad
<1>1. r \in ClientRec /\ bad \in 0 .. MaxLines
  BY DEF ServerLoopTypeOK, ClientRec, PeerRec
<1>2. client' = [client EXCEPT ![fd] = IF Complete(r) > 0 THEN Ran(r, bad) ELSE r]
  BY DEF Receive
<1>3. peer' \in [Fds -> PeerRec]
  BY DEF Receive, ServerLoopTypeOK, PeerRec
<1> HIDE DEF r
<1>4. Ran(r, bad) \in ClientRec
  BY <1>1, RanType
<1> QED BY <1>1, <1>2, <1>3, <1>4 DEF ServerLoopTypeOK

\* The end of a pass, with all its descriptors.
LEMMA EndScanKeeps ==
  ASSUME ScanInv, EndScan(polled), UNCHANGED conn,
         peer' \in [Fds -> PeerRec], client' \in [Fds -> ClientRec], backlog' \in BOOLEAN
  PROVE  ScanInv'
<1> USE DEF EndScan
<1>1. polled \in Seq(Fds) /\ accepted \in Seq(Fds) /\ polled' = Watch
  BY DEF ScanInv, ServerLoopTypeOK, Watch
<1>2. Watch \in Seq(Fds) /\ Len(Watch) \in Nat
  BY <1>1, ConcatProperties, LenProperties DEF Watch
<1>3. Watch' = Watch
  BY <1>1, <1>2, ConcatEmptySeq DEF Watch
<1>4. ServerLoopTypeOK'
  BY <1>1, <1>2, EmptySeq DEF ScanInv, ServerLoopTypeOK, Quiet, AtPoll
<1>5. ToSet(Watch) = conn /\ IsInjective(Watch)
  BY AgreementOfWatch DEF ScanInv
<1>6. ToSet(Watch') = conn' /\ IsInjective(Watch')
  BY <1>3, <1>5
<1>7. PollMapAgreement'
  BY <1>4, <1>6, AgreementOfNextWatch
<1>8. CapacityRespected'
  BY <1>3 DEF ScanInv, CapacityRespected, Watch
<1>9. ReportedAreOpen' /\ AcceptedInPass' /\ OnlyPollin'
  BY DEF ReportedAreOpen, AcceptedInPass, OnlyPollin, Quiet
<1> QED BY <1>4, <1>7, <1>8, <1>9 DEF ScanInv

\* A client is dropped: its descriptor leaves poll_fds and _clients together.
LEMMA DelClientKeeps ==
  ASSUME ScanInv, NEW fd \in Fds, at - 1 \in DOMAIN polled, fd = polled[at - 1],
         DelClient(fd)
  PROVE  ScanInv'
<1> DEFINE i == at - 1
<1> USE DEF DelClient, EndScan
<1>1. /\ polled \in Seq(Fds) /\ accepted \in Seq(Fds) /\ Len(polled) \in Nat
      /\ i \in 1 .. Len(polled)
  BY LenProperties DEF ScanInv, ServerLoopTypeOK
<1>2. /\ Watch \in Seq(Fds) /\ Len(Watch) = Len(polled) + Len(accepted)
      /\ \A k \in 1 .. Len(polled) : Watch[k] = polled[k]
  <2>1. /\ Watch \in Seq(Fds) /\ Len(Watch) = Len(polled) + Len(accepted)
        /\ \A k \in 1 .. Len(polled) + Len(accepted) :
             Watch[k] = IF k <= Len(polled) THEN polled[k] ELSE accepted[k - Len(polled)]
    BY <1>1, ConcatProperties DEF Watch
  <2> QED BY <1>1, <2>1, LenProperties
<1>3. i \in 1 .. Len(Watch) /\ Watch[i] = fd
  BY <1>1, <1>2, LenProperties
<1>4. polled' = RemoveAt(Watch, i)
  BY <1>1, RemoveAtOfConcat DEF Watch
<1>5. RemoveAt(Watch, i) \in Seq(Fds) /\ Len(RemoveAt(Watch, i)) = Len(Watch) - 1
  BY <1>2, <1>3, RemoveAtProperties
<1>6. Watch' = polled'
  BY <1>4, <1>5, ConcatEmptySeq DEF Watch
<1>7. ToSet(Watch) = conn /\ IsInjective(Watch)
  BY AgreementOfWatch DEF ScanInv
<1>8. ToSet(polled') = conn' /\ IsInjective(polled')
  BY <1>2, <1>3, <1>4, <1>7, RemoveAtOfInjective
<1>9. ServerLoopTypeOK'
  <2>1. NewClient \in ClientRec /\ NewPeer(NoBad) \in PeerRec
    BY NewRecords, ServerLoopAssumption DEF NoBad
  <2>2. Len(polled') \in Nat
    BY <1>4, <1>5, LenProperties
  <2>3. /\ client' \in [Fds -> ClientRec] /\ peer' \in [Fds -> PeerRec]
        /\ backlog' \in BOOLEAN /\ conn' \subseteq Fds
    BY <2>1 DEF ScanInv, ServerLoopTypeOK
  <2>4. polled' \in Seq(Fds) /\ accepted' \in Seq(Fds)
    BY <1>4, <1>5, EmptySeq
  <2>5. revents' \in [Fds \cup {Listen} -> SUBSET Events] /\ at' \in 0 .. Len(polled') + 2
    BY <2>2 DEF Quiet, AtPoll
  <2> QED BY <2>3, <2>4, <2>5 DEF ServerLoopTypeOK
<1>10. PollMapAgreement'
  BY <1>9, <1>6, <1>8, AgreementOfNextWatch
<1>11. CapacityRespected'
  BY <1>1, <1>2, <1>4, <1>5, <1>6, ServerLoopAssumption, LenProperties
     DEF ScanInv, CapacityRespected, Watch
<1>12. ReportedAreOpen' /\ AcceptedInPass' /\ OnlyPollin'
  BY DEF ReportedAreOpen, AcceptedInPass, OnlyPollin, Quiet
<1> QED BY <1>9, <1>10, <1>11, <1>12 DEF ScanInv

\* A connection is accepted: new_pollfds is empty before, so that the test on
\* poll_fds alone bounds the number of clients.
LEMMA AcceptKeeps ==
  ASSUME ScanInv, at = AtListen, at' = at + 1, Len(polled) < MaxClients,
         NEW fd \in Fds \ conn, NEW b \in 0 .. MaxLines,
         conn' = conn \cup {fd}, backlog' = FALSE,
         client' = [client EXCEPT ![fd] = NewClient],
         peer' = [peer EXCEPT ![fd] = NewPeer(b)],
         accepted' = Append(accepted, fd), UNCHANGED <<polled, revents>>
  PROVE  ScanInv'
<1>1. /\ polled \in Seq(Fds) /\ accepted = <<>> /\ Len(polled) \in Nat
      /\ accepted' = <<fd>>
  BY LenProperties DEF ScanInv, ServerLoopTypeOK, AcceptedInPass
<1>2. Watch = polled /\ Watch' = Append(polled, fd)
  BY <1>1, ConcatEmptySeq, AppendIsConcat DEF Watch
<1>3. ToSet(polled) = conn /\ IsInjective(polled)
  BY <1>2, AgreementOfWatch DEF ScanInv
<1>4. ToSet(Append(polled, fd)) = conn' /\ IsInjective(Append(polled, fd))
  BY <1>1, <1>3, AppendToInjective
<1>5. ServerLoopTypeOK'
  <2>1. NewClient \in ClientRec /\ NewPeer(b) \in PeerRec
    BY NewRecords
  <2>2. <<fd>> \in Seq(Fds)
    OBVIOUS
  <2>3. at' \in 0 .. Len(polled') + 2
    BY <1>1 DEF AtListen
  <2> QED BY <1>1, <2>1, <2>2, <2>3 DEF ScanInv, ServerLoopTypeOK
<1>6. PollMapAgreement'
  BY <1>5, <1>2, <1>4, AgreementOfNextWatch
<1>7. CapacityRespected'
  <2>1. Len(Watch') = Len(polled) + 1
    BY <1>1, <1>2, AppendProperties
  <2> QED BY <1>1, <2>1, ServerLoopAssumption DEF CapacityRespected, Watch
<1>8. ReportedAreOpen' /\ AcceptedInPass' /\ OnlyPollin'
  BY DEF ScanInv, ReportedAreOpen, AcceptedInPass, OnlyPollin, AtPoll, AtListen
<1> QED BY <1>5, <1>6, <1>7, <1>8 DEF ScanInv

\* Every visit leaves the invariant of the scan, whatever the lines do.
LEMMA VisitKeeps ==
  ASSUME ScanInv, NEW fd \in Fds, Visit(fd)
  PROVE  ScanInv'
<1>1. /\ at - 1 \in DOMAIN polled /\ fd = polled[at - 1] /\ polled \in Seq(Fds)
      /\ DOMAIN polled = 1 .. Len(polled) /\ Len(polled) \in Nat /\ at \in Nat
  BY LenProperties DEF Visit, ScanInv, ServerLoopTypeOK
<1>2. at > AtListen /\ at + 1 > AtListen /\ at + 1 \in 0 .. Len(polled) + 2
  BY <1>1 DEF AtListen
<1>3. CASE "POLLIN" \in revents[fd] /\ peer[fd].avail
  <2>1. Receive(fd)
    BY <1>3 DEF Visit
  <2>2. peer' \in [Fds -> PeerRec] /\ client' \in [Fds -> ClientRec] /\ backlog' = backlog
    BY <2>1, ReceiveTypes DEF ScanInv, Receive
  <2>3. CASE EndScan(polled)
    BY <2>1, <2>2, <2>3, EndScanKeeps DEF Receive, ScanInv, ServerLoopTypeOK
  <2>4. CASE Continue
    <3>1. ServerLoopTypeOK'
      BY <1>2, <2>1, <2>2, <2>4 DEF Receive, Continue, ScanInv, ServerLoopTypeOK
    <3> QED BY <1>2, <2>1, <2>4, <3>1, SameWatch DEF Receive, Continue
  <2> QED BY <2>1, <2>3, <2>4 DEF Receive
<1>4. CASE "POLLIN" \in revents[fd] /\ ~peer[fd].avail
  BY <1>1, <1>4, DelClientKeeps DEF Visit
<1>5. CASE "POLLIN" \notin revents[fd]
  <2>1. revents[fd] = {}
    BY <1>5 DEF ScanInv, OnlyPollin
  <2>2. Continue /\ UNCHANGED <<backlog, conn, peer, client>>
    BY <1>5, <2>1 DEF Visit
  <2>3. ServerLoopTypeOK'
    BY <1>2, <2>2 DEF Continue, ScanInv, ServerLoopTypeOK
  <2> QED BY <1>2, <2>2, <2>3, SameWatch DEF Continue
<1> QED BY <1>3, <1>4, <1>5

\* The remote ends change neither the descriptors nor the pass.
LEMMA EnvironmentKeeps ==
  ASSUME ScanInv, Environment
  PROVE  ScanInv'
<1>1. UNCHANGED <<conn, client, polled, accepted, revents, at>>
  BY DEF Environment, Connect, Withdraw, Send, HangUp
<1>2. backlog' \in BOOLEAN /\ peer' \in [Fds -> PeerRec]
  <2> USE DEF ScanInv, ServerLoopTypeOK
  <2>1. CASE Connect \/ Withdraw
    BY <2>1 DEF Connect, Withdraw
  <2>2. ASSUME NEW fd \in Fds, Send(fd)
        PROVE  backlog' \in BOOLEAN /\ peer' \in [Fds -> PeerRec]
    <3>1. MaxPieces \in Nat
      BY ServerLoopAssumption DEF MaxPieces
    <3>2. peer[fd] \in PeerRec /\ peer[fd].sent \in 0 .. MaxPieces
      BY DEF PeerRec
    <3> DEFINE more == IF peer[fd].sent < MaxPieces THEN peer[fd].sent + 1 ELSE peer[fd].sent
    <3>3. more \in 0 .. MaxPieces
      BY <3>1, <3>2
    <3>4. peer' = [peer EXCEPT ![fd] = [peer[fd] EXCEPT !.avail = TRUE, !.sent = more]]
      BY <2>2 DEF Send
    <3> HIDE DEF more
    <3>5. [peer[fd] EXCEPT !.avail = TRUE, !.sent = more] \in PeerRec
      BY <3>2, <3>3 DEF PeerRec
    <3> QED BY <2>2, <3>4, <3>5 DEF Send
  <2>3. ASSUME NEW fd \in Fds, NEW lossy \in BOOLEAN, HangUp(fd, lossy)
        PROVE  backlog' \in BOOLEAN /\ peer' \in [Fds -> PeerRec]
    BY <2>3, ZenonT(40) DEF HangUp, PeerRec
  <2> QED BY <2>1, <2>2, <2>3 DEF Environment
<1>3. ServerLoopTypeOK'
  BY <1>1, <1>2 DEF ScanInv, ServerLoopTypeOK
<1> QED BY <1>1, <1>3, SameWatch

\* poll() reports sockets it was given, which are those of the clients.
LEMMA PollKeeps ==
  ASSUME ScanInv, Poll
  PROVE  ScanInv'
<1> DEFINE reported ==
      [s \in Fds \cup {Listen} |->
         IF s = Listen \/ s \in ToSet(polled) THEN Requested \cap Happening(s) ELSE {}]
<1>1. /\ at = AtPoll /\ revents' = reported /\ at' = AtListen
      /\ UNCHANGED <<backlog, peer, conn, client, polled, accepted>>
  BY DEF Poll
<1>2. \A s \in Fds \cup {Listen} : reported[s] \subseteq {"POLLIN"}
  BY DEF Requested
<1>3. \A fd \in Fds : reported[fd] # {} => fd \in ToSet(polled)
  BY ServerLoopAssumption
<1>4. reported \in [Fds \cup {Listen} -> SUBSET Events]
  BY <1>2 DEF Events
<1> HIDE DEF reported
<1>5. ServerLoopTypeOK'
  BY <1>1, <1>4, LenProperties DEF ScanInv, ServerLoopTypeOK, AtListen
<1>6. ReportedAreOpen' /\ OnlyPollin'
  BY <1>1, <1>2, <1>3 DEF ScanInv, PollMapAgreement, ReportedAreOpen, OnlyPollin
<1>7. PollMapAgreement' /\ CapacityRespected' /\ AcceptedInPass'
  BY <1>1 DEF ScanInv, PollMapAgreement, CapacityRespected, AcceptedInPass
<1> QED BY <1>5, <1>6, <1>7 DEF ScanInv

LEMMA VisitListenKeeps ==
  ASSUME ScanInv, VisitListen
  PROVE  ScanInv'
<1>1. at = AtListen /\ at' = at + 1 /\ at' > AtListen /\ UNCHANGED <<polled, revents>>
  BY DEF VisitListen, AtListen
<1>2. CASE \E fd \in Fds \ conn, b \in 0 .. MaxLines :
             /\ Len(polled) < MaxClients /\ backlog' = FALSE
             /\ conn' = conn \cup {fd}
             /\ client' = [client EXCEPT ![fd] = NewClient]
             /\ peer' = [peer EXCEPT ![fd] = NewPeer(b)]
             /\ accepted' = Append(accepted, fd)
  BY <1>1, <1>2, AcceptKeeps
<1>3. CASE backlog' \in BOOLEAN /\ UNCHANGED <<peer, conn, client, accepted>>
  <2>1. at' \in 0 .. Len(polled') + 2
    BY <1>1, LenProperties DEF ScanInv, ServerLoopTypeOK, AtListen
  <2>2. ServerLoopTypeOK'
    BY <1>1, <1>3, <2>1 DEF ScanInv, ServerLoopTypeOK
  <2> QED BY <1>1, <1>3, <2>2, SameWatch
<1> QED BY <1>2, <1>3 DEF VisitListen, ScanInv, ServerLoopTypeOK

LEMMA ScanStep == ScanInv /\ [ServerLoopNext]_vars => ScanInv'
<1> SUFFICES ASSUME ScanInv, [ServerLoopNext]_vars PROVE ScanInv'
  OBVIOUS
<1>1. CASE Environment
  BY <1>1, EnvironmentKeeps
<1>2. CASE Poll
  BY <1>2, PollKeeps
<1>3. CASE VisitListen
  BY <1>3, VisitListenKeeps
<1>4. CASE \E fd \in Fds : Visit(fd)
  BY <1>4, VisitKeeps
<1>5. CASE ScanDone
  BY <1>5, EndScanKeeps DEF ScanDone, ScanInv, ServerLoopTypeOK
<1>6. CASE UNCHANGED vars
  BY <1>6 DEF vars, ScanInv, ServerLoopTypeOK, PollMapAgreement, CapacityRespected,
              ReportedAreOpen, AcceptedInPass, OnlyPollin
<1> QED BY <1>1, <1>2, <1>3, <1>4, <1>5, <1>6 DEF ServerLoopNext, ServerStep

LEMMA ScanInvariant == ServerLoopSpec => []ScanInv
  BY ScanInit, ScanStep, PTL DEF ServerLoopSpec

----------------------------------------------------------------------------
(* The execution of lines *)

\* What a client and its remote end satisfy, taken alone.
GoodLines(r, p) ==
  /\ r.got <= p.sent
  /\ \A k \in LineNos :
       /\ r.runs[k] > 0 => 2 * k <= r.got
       /\ \A j \in 1 .. k : r.runs[j] >= r.runs[k]
       /\ p.bad # NoBad /\ p.bad <= k => r.runs[k] = 0
  /\ p.bad # NoBad /\ 2 * p.bad <= r.got => r.closing

\* It is the invariant of every descriptor, also of those not in use.
AllGoodLines == \A fd \in Fds : GoodLines(client[fd], peer[fd])

\* A new client has not run any line.
LEMMA NewIsGood ==
  \A b \in 0 .. MaxLines : GoodLines(NewClient, NewPeer(b))
<1> SUFFICES ASSUME NEW b \in 0 .. MaxLines PROVE GoodLines(NewClient, NewPeer(b))
  OBVIOUS
<1>1. /\ NewClient.got = 0 /\ NewPeer(b).sent = 0 /\ NewPeer(b).bad = b
      /\ \A k \in LineNos : NewClient.runs[k] = 0 /\ (\A j \in 1 .. k : j \in LineNos)
  BY ServerLoopAssumption DEF NewClient, NewPeer, LineNos
<1>2. \A k \in LineNos : \A j \in 1 .. k : NewClient.runs[j] = 0
  BY <1>1
<1>3. b # NoBad => ~(2 * b <= 0)
  BY ServerLoopAssumption DEF NoBad
<1> QED BY <1>1, <1>2, <1>3 DEF GoodLines

\* Running the buffer once more: the lines up to the first one that throws
\* gain an execution each, so that none overtakes the lines before it.
LEMMA RanIsGood ==
  ASSUME NEW r \in ClientRec, NEW p \in PeerRec,
         NEW q \in ClientRec, GoodLines(q, p), r = [q EXCEPT !.got = p.sent]
  PROVE  GoodLines(IF Complete(r) > 0 THEN Ran(r, p.bad) ELSE r,
                   [p EXCEPT !.avail = FALSE])
<1> DEFINE bad == p.bad
           last == IF bad = NoBad \/ bad > Complete(r) THEN Complete(r) ELSE bad - 1
           bump(k) == IF k <= last /\ r.runs[k] < MaxRuns THEN 1 ELSE 0
           after == IF Complete(r) > 0 THEN Ran(r, bad) ELSE r
           p2 == [p EXCEPT !.avail = FALSE]
           runs == [k \in LineNos |-> r.runs[k] + bump(k)]
           marked == r.closing \/ (bad # NoBad /\ bad <= Complete(r))
           replied == r.replies \/ last > 0
<1> SUFFICES GoodLines(after, p2)
  OBVIOUS
<1>1. /\ bad \in Nat /\ p.sent \in Nat /\ q.got \in Nat /\ q.got <= r.got
      /\ r.got = p.sent /\ r.runs = q.runs /\ r.closing = q.closing /\ MaxRuns \in Nat
      /\ p2.sent = p.sent /\ p2.bad = p.bad
      /\ \A k \in LineNos : k \in Nat /\ k >= 1 /\ r.runs[k] \in 0 .. MaxRuns
  BY ServerLoopAssumption DEF GoodLines, ClientRec, PeerRec, MaxPieces, LineNos
<1>2. Complete(r) \in Nat /\ 2 * Complete(r) <= r.got /\ r.got < 2 * Complete(r) + 2
  BY <1>1, RanType DEF PeerRec
<1>3. /\ last \in Int /\ last <= Complete(r)
      /\ bad # NoBad => last < bad
  BY <1>1, <1>2 DEF NoBad
<1>4. \A k \in LineNos : \A j \in 1 .. k : j \in LineNos /\ j \in Nat /\ j <= k
  BY ServerLoopAssumption DEF LineNos
<1>5. CASE Complete(r) = 0
  <2>1. after = r
    BY <1>5
  <2>2. bad # NoBad /\ 2 * bad <= r.got => FALSE
    BY <1>1, <1>2, <1>5 DEF NoBad
  <2> HIDE DEF after, p2
  <2>3. \A k \in LineNos : r.runs[k] > 0 => 2 * k <= r.got
    BY <1>1 DEF GoodLines
  <2>4. /\ \A k \in LineNos : /\ \A j \in 1 .. k : r.runs[j] >= r.runs[k]
                              /\ bad # NoBad /\ bad <= k => r.runs[k] = 0
    BY <1>1 DEF GoodLines
  <2> QED BY <1>1, <2>1, <2>2, <2>3, <2>4 DEF GoodLines
<1>6. CASE Complete(r) > 0
  <2>1. after = [r EXCEPT !.runs = runs, !.replies = replied, !.closing = marked]
    BY <1>6 DEF Ran
  <2>2. /\ after.got = r.got /\ after.closing = marked
        /\ \A k \in LineNos : after.runs[k] = r.runs[k] + bump(k)
    <3> HIDE DEF after, marked, replied, bump
    <3> QED BY <2>1 DEF ClientRec
  <2> HIDE DEF after, p2
  <2>3. ASSUME NEW k \in LineNos
        PROVE  /\ after.runs[k] > 0 => 2 * k <= r.got
               /\ \A j \in 1 .. k : after.runs[j] >= after.runs[k]
               /\ bad # NoBad /\ bad <= k => after.runs[k] = 0
    <3>1. /\ q.runs[k] > 0 => 2 * k <= q.got
          /\ \A j \in 1 .. k : q.runs[j] >= q.runs[k]
          /\ bad # NoBad /\ bad <= k => q.runs[k] = 0
      BY DEF GoodLines
    <3>2. after.runs[k] > 0 => 2 * k <= r.got
      BY <1>1, <1>2, <1>3, <2>2, <3>1
    <3>3. ASSUME NEW j \in 1 .. k
          PROVE  after.runs[j] >= after.runs[k]
      <4>1. j \in LineNos /\ j \in Nat /\ j <= k
        BY <1>4
      <4>2. r.runs[j] >= r.runs[k] /\ r.runs[j] \in 0 .. MaxRuns /\ r.runs[k] \in 0 .. MaxRuns
        BY <1>1, <3>1, <4>1
      <4>3. r.runs[j] + bump(j) >= r.runs[k] + bump(k)
        BY <1>1, <1>3, <4>1, <4>2
      <4> QED BY <2>2, <4>1, <4>3
    <3>4. bad # NoBad /\ bad <= k => after.runs[k] = 0
      BY <1>1, <1>3, <2>2, <3>1
    <3> QED BY <3>2, <3>3, <3>4
  <2>4. bad # NoBad /\ 2 * bad <= r.got => after.closing
    <3>1. 2 * bad <= r.got => bad <= Complete(r)
      BY <1>1, <1>2
    <3> QED BY <2>2, <3>1
  <2>5. after.got <= p2.sent
    BY <1>1, <2>2
  <2>6. after.got = r.got /\ p2.bad = bad
    BY <1>1, <2>2
  <2> HIDE DEF bad
  <2>7. \A k \in LineNos :
          /\ after.runs[k] > 0 => 2 * k <= after.got
          /\ \A j \in 1 .. k : after.runs[j] >= after.runs[k]
          /\ p2.bad # NoBad /\ p2.bad <= k => after.runs[k] = 0
    BY <2>3, <2>6
  <2>8. p2.bad # NoBad /\ 2 * p2.bad <= after.got => after.closing
    BY <2>4, <2>6
  <2> QED BY <2>5, <2>7, <2>8 DEF GoodLines
<1> QED BY <1>2, <1>5, <1>6

\* A visit to a client of which poll() reported something.
LEMMA VisitKeepsLines ==
  ASSUME ScanInv, AllGoodLines, NEW fd \in Fds, Visit(fd)
  PROVE  AllGoodLines'
<1> USE DEF ScanInv, ServerLoopTypeOK
<1>1. CASE Receive(fd)
  <2> DEFINE r == [client[fd] EXCEPT !.got = peer[fd].sent]
  <2>1. r \in ClientRec /\ client[fd] \in ClientRec /\ peer[fd] \in PeerRec
    BY DEF ClientRec, PeerRec
  <2>2. client' = [client EXCEPT ![fd] = IF Complete(r) > 0 THEN Ran(r, peer[fd].bad) ELSE r]
    BY <1>1 DEF Receive
  <2>3. peer' = [peer EXCEPT ![fd] = [peer[fd] EXCEPT !.avail = FALSE]]
    BY <1>1 DEF Receive
  <2>4. GoodLines(client[fd], peer[fd])
    BY DEF AllGoodLines
  <2>5. GoodLines(client'[fd], peer'[fd])
    BY <2>1, <2>2, <2>3, <2>4, RanIsGood
  <2> QED BY <2>2, <2>3, <2>5 DEF AllGoodLines
<1>2. CASE DelClient(fd)
  <2>1. GoodLines(NewClient, NewPeer(NoBad))
    BY NewIsGood, ServerLoopAssumption DEF NoBad
  <2> QED BY <1>2, <2>1 DEF DelClient, AllGoodLines
<1>3. CASE UNCHANGED <<peer, client>>
  BY <1>3 DEF AllGoodLines
<1> QED BY <1>1, <1>2, <1>3 DEF Visit, OnlyPollin

LEMMA LinesStep == ScanInv /\ AllGoodLines /\ [ServerLoopNext]_vars => AllGoodLines'
<1> SUFFICES ASSUME ScanInv, AllGoodLines, [ServerLoopNext]_vars PROVE AllGoodLines'
  OBVIOUS
<1>1. CASE Environment
  <2>1. CASE Connect \/ Withdraw
    BY <2>1 DEF Connect, Withdraw, AllGoodLines
  <2>2. ASSUME NEW fd \in Fds, Send(fd)
        PROVE  AllGoodLines'
    <3>1. /\ client[fd].got \in Nat /\ peer[fd].sent \in Nat /\ MaxPieces \in Nat
          /\ GoodLines(client[fd], peer[fd]) /\ client' = client
      BY <2>2, ServerLoopAssumption
         DEF ScanInv, ServerLoopTypeOK, ClientRec, PeerRec, MaxPieces, AllGoodLines, Send
    <3>2. /\ peer'[fd].bad = peer[fd].bad /\ peer'[fd].sent >= peer[fd].sent
          /\ \A g \in Fds \ {fd} : peer'[g] = peer[g]
          /\ peer'[fd].sent \in Nat
      BY <2>2, <3>1 DEF Send, ScanInv, ServerLoopTypeOK, PeerRec
    <3>3. GoodLines(client'[fd], peer'[fd])
      BY <3>1, <3>2 DEF GoodLines
    <3> QED BY <3>1, <3>2, <3>3 DEF AllGoodLines
  <2>3. ASSUME NEW fd \in Fds, NEW lossy \in BOOLEAN, HangUp(fd, lossy)
        PROVE  AllGoodLines'
    <3>1. /\ client' = client /\ peer'[fd].bad = peer[fd].bad /\ peer'[fd].sent = peer[fd].sent
          /\ \A g \in Fds \ {fd} : peer'[g] = peer[g]
      BY <2>3 DEF HangUp, ScanInv, ServerLoopTypeOK, PeerRec
    <3> QED BY <3>1 DEF AllGoodLines, GoodLines
  <2> QED BY <1>1, <2>1, <2>2, <2>3 DEF Environment
<1>2. CASE VisitListen
  <2>1. CASE UNCHANGED <<peer, client>>
    BY <2>1 DEF AllGoodLines
  <2>2. CASE \E fd \in Fds \ conn, b \in 0 .. MaxLines :
               /\ client' = [client EXCEPT ![fd] = NewClient]
               /\ peer' = [peer EXCEPT ![fd] = NewPeer(b)]
    BY <2>2, NewIsGood DEF AllGoodLines, ScanInv, ServerLoopTypeOK
  <2> QED BY <1>2, <2>1, <2>2 DEF VisitListen
<1>3. CASE \E fd \in Fds : Visit(fd)
  BY <1>3, VisitKeepsLines
<1>4. CASE Poll \/ ScanDone \/ UNCHANGED vars
  BY <1>4 DEF Poll, ScanDone, vars, AllGoodLines
<1> QED BY <1>1, <1>2, <1>3, <1>4 DEF ServerLoopNext, ServerStep

----------------------------------------------------------------------------
(* Theorems on the descriptors *)

\* Whatever connects, breaks or throws in the middle of a scan, the iterator
\* stays within poll_fds and the records keep their types.
THEOREM LoopTypeCorrect == ServerLoopSpec => []ServerLoopTypeOK
  BY ScanInvariant, PTL DEF ScanInv

\* poll_fds with new_pollfds, and _clients, hold the same descriptors, each
\* once, at every moment of a scan.
THEOREM PollAndMapAgree == ServerLoopSpec => []PollMapAgreement
  BY ScanInvariant, PTL DEF ScanInv

\* MAX_CLIENT_NB is respected although new_pollfds is not counted.
THEOREM CapacityIsRespected == ServerLoopSpec => []CapacityRespected
  BY ScanInvariant, PTL DEF ScanInv

\* Replays of a buffer keep its lines in order: none runs before it is
\* complete, more often than those before it, or from one that throws on.
THEOREM LinesAreOrdered == ServerLoopSpec => []LinesRunInOrder
<1>1. ServerLoopInit => AllGoodLines
  BY NewIsGood, ServerLoopAssumption DEF ServerLoopInit, AllGoodLines, NoBad
<1>2. ScanInv /\ AllGoodLines => LinesRunInOrder
  BY DEF ScanInv, ServerLoopTypeOK, AllGoodLines, GoodLines, LinesRunInOrder
<1> QED BY <1>1, <1>2, LinesStep, ScanInvariant, PTL DEF ServerLoopSpec

\* No event of a closed descriptor is left for another connection.
THEOREM ReportsAreFresh == ServerLoopSpec => []ReportedAreOpen
  BY ScanInvariant, PTL DEF ScanInv
=============================================================================
