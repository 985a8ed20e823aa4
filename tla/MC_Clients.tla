---------------------------- MODULE MC_Clients ----------------------------
(***************************************************************************)
(* Three descriptors for at most two clients, so that a connection is      *)
(* refused and a descriptor is reused; two nicknames to collide on, one of *)
(* illegal form and one of ten characters whose truncation is the first.   *)
(***************************************************************************)
EXTENDS Clients

CONSTANTS alice, bob, aliceLong, dot

MCNicks == {alice, bob, aliceLong}
MCShort == [n \in MCNicks \cup {dot} |-> IF n = aliceLong THEN alice ELSE n]
=============================================================================
