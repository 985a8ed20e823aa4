---------------------------- MODULE MC_Channels ----------------------------
(***************************************************************************)
(* Two clients whose descriptors are reused, two nicknames to take, change *)
(* and inherit. The registration of a client is reduced to its successful  *)
(* lines, which MC_Clients explores in full.                               *)
(***************************************************************************)
EXTENDS Channels

CONSTANTS alice, bob, sesame, news

MCShort == [n \in {alice, bob} |-> n]

\* The first channel sees everything. The second one is there for QUIT, which
\* walks through the channels: it stays out of the way of kicks, modes and
\* topics, and so does the first one while the second exists.
OneOrQuit ==
  2 \in chans' =>
    /\ line' = NoLine
    /\ \A c \in Chans : /\ chan'[c].kicked = {} /\ chan'[c].mode = {}
                        /\ chan'[c].topic = Empty

\* No client is refused, or breaks a line before it is registered: MC_Clients
\* is about those.
AllWelcome ==
  \A fd \in conn' : client'[fd].info \/ client'[fd].closing => client'[fd].done

OneOrQuitSpec == ChannelsInit /\ [][ChannelsNext /\ OneOrQuit /\ AllWelcome]_vars

\* Two channels in which nobody is kicked.
NoKickNext ==
  /\ ChannelsNext
  /\ \A c \in Chans : chan'[c].kicked = {}

NoKickSpec == ChannelsInit /\ [][NoKickNext]_vars
=============================================================================
