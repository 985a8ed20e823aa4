-------------------------------- MODULE Room --------------------------------
(***************************************************************************)
(* What a channel promises, in terms of nicknames only: who may enter it,  *)
(* who may change what, and that authority comes from the first to enter   *)
(* or from another operator. There are no connections, no failures and no  *)
(* other channel here.                                                     *)
(***************************************************************************)
CONSTANTS Names, Keys, Topics, Empty

VARIABLES
  members, ops,  \* nicknames inside, nicknames with authority
  outcasts,      \* nicknames once ejected
  flags, key,    \* subset of {"t", "s", "k"}; the key, Empty without one
  topic,
  chair          \* the operator changing modes, Empty when nobody is

vars == <<members, ops, outcasts, flags, key, topic, chair>>

Init ==
  /\ members = {} /\ ops = {} /\ outcasts = {}
  /\ flags = {} /\ key = Empty
  /\ topic = Empty
  /\ chair = Empty

\* The first to enter a room nobody governs governs it.
Enter(n, k) ==
  /\ chair = Empty
  /\ "k" \in flags => k = key
  /\ members' = members \cup {n}
  /\ ops' = IF ops = {} THEN {n} ELSE ops
  /\ UNCHANGED <<outcasts, flags, key, topic, chair>>

Leave(n) ==
  /\ chair = Empty
  /\ members' = members \ {n}
  /\ UNCHANGED <<ops, outcasts, flags, key, topic, chair>>

Eject(by, n) ==
  /\ chair = Empty
  /\ by \in ops \cap members
  /\ n \in members
  /\ members' = members \ {n}
  /\ outcasts' = outcasts \cup {n}
  /\ UNCHANGED <<ops, flags, key, topic, chair>>

SetTopic(by, t) ==
  /\ chair = Empty
  /\ by \in members
  /\ "t" \in flags => by \in ops
  /\ topic' = t
  /\ UNCHANGED <<members, ops, outcasts, flags, key, chair>>

\* Modes change between Open and Close, in the hands of an operator.
Open(by) ==
  /\ chair = Empty
  /\ by \in ops
  /\ chair' = by
  /\ UNCHANGED <<members, ops, outcasts, flags, key, topic>>

Close ==
  /\ chair' = Empty
  /\ UNCHANGED <<members, ops, outcasts, flags, key, topic>>

\* Change gives the operators, flags and key that follow; the session goes
\* on or ends with it.
Change(newOps, newFlags, newKey) ==
  /\ chair # Empty
  /\ ops' = newOps /\ flags' = newFlags /\ key' = newKey
  /\ chair' \in {chair, Empty}
  /\ UNCHANGED <<members, outcasts, topic>>

Grant(n)  == n \in members /\ Change(ops \cup {n}, flags, key)
Revoke(n) == n \in members /\ Change(ops \ {n}, flags, key)
Lock(k)   == "k" \notin flags /\ Change(ops, flags \cup {"k"}, k)
Unlock    == Change(ops, flags \ {"k"}, Empty)
Raise(f)  == Change(ops, flags \cup {f}, key)
Lower(f)  == Change(ops, flags \ {f}, key)

Next ==
  \/ \E n \in Names, k \in Keys \cup {Empty} : Enter(n, k)
  \/ \E n \in Names : Leave(n)
  \/ \E by, n \in Names : Eject(by, n)
  \/ \E by \in Names, t \in Topics \cup {Empty} : SetTopic(by, t)
  \/ \E by \in Names : Open(by)
  \/ Close
  \/ \E n \in Names : Grant(n) \/ Revoke(n)
  \/ \E k \in Keys : Lock(k)
  \/ Unlock
  \/ \E f \in {"t", "s"} : Raise(f) \/ Lower(f)

Spec == Init /\ [][Next]_vars
=============================================================================
