------------------------------ MODULE Session ------------------------------
(***************************************************************************)
(* What the server promises about a connection, seen from outside: it is   *)
(* accepted while there is room, gets a single verdict on its registration *)
(* and keeps that verdict until the connection ends.                       *)
(***************************************************************************)
EXTENDS Naturals, FiniteSets

CONSTANTS Fds, MaxClients

VARIABLE status

States == {"absent", "greeting", "member", "refused"}

Present == {fd \in Fds : status[fd] # "absent"}

Init == status = [fd \in Fds |-> "absent"]

Connect(fd) ==
  /\ status[fd] = "absent"
  /\ Cardinality(Present) < MaxClients
  /\ status' = [status EXCEPT ![fd] = "greeting"]

Verdict(fd, v) ==
  /\ status[fd] = "greeting"
  /\ status' = [status EXCEPT ![fd] = v]

Leave(fd) ==
  /\ status[fd] # "absent"
  /\ status' = [status EXCEPT ![fd] = "absent"]

Next ==
  \E fd \in Fds :
    \/ Connect(fd)
    \/ \E v \in {"member", "refused"} : Verdict(fd, v)
    \/ Leave(fd)

Spec == Init /\ [][Next]_status
=============================================================================
