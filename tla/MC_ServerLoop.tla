--------------------------- MODULE MC_ServerLoop ---------------------------
(***************************************************************************)
(* Two clients at most, so that a third connection is refused and a freed  *)
(* descriptor is given again; two lines, one of which may throw.           *)
(***************************************************************************)
EXTENDS ServerLoop

\* The client with the lowest descriptor sends two lines, and on without end;
\* the other one sends one line. (Only remote ends are held back.)
OneSendsMore ==
  \A fd \in Fds \ {4} : peer'[fd].sent <= 2 /\ peer'[fd].bad <= 1

MCServerLoopSpec ==
  /\ ServerLoopInit /\ [][ServerLoopNext /\ OneSendsMore]_vars
  /\ WF_vars(ServerStep)
=============================================================================
