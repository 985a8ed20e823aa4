----------------------------- MODULE MC_Replay -----------------------------
(***************************************************************************)
(* Two clients that register with one message; then one sends up to two    *)
(* lines of any kind and the other one, and both fragments at any time.    *)
(***************************************************************************)
EXTENDS Replay

CONSTANTS alice, bob

MCShort == [n \in {alice, bob} |-> n]

Cmd(op, n) == [op |-> op, on |-> 1, arg |-> n]

Greeting(n) == <<Cmd("PASS", n), Cmd("NICK", n), Cmd("USER", n)>>

MCCmds ==
  {Cmd(op, n) : op \in {"PASS", "NICK", "USER", "KICK"}, n \in {alice, bob}}
    \cup {Cmd(op, alice) : op \in {"JOIN", "PART", "QUIT", "BAD"}}

MCMessages ==
  {<<>>} \cup {Greeting(n) : n \in {alice, bob}}
    \cup {<<cmd>> : cmd \in {c \in MCCmds : c.op \notin {"PASS", "USER"}}}

GreetFirst ==
  \A fd \in Fds : log[fd] = <<>> /\ log'[fd] # <<>> =>
    Len(log'[fd]) = 3 /\ (fd = 4 => log'[fd][2].arg = alice)

Bounded == Len(log'[5]) <= 4

GreetFirstSpec == ReplayInit /\ [][ReplayNext /\ GreetFirst /\ Bounded]_allVars

\* The same with a name for each of the two.
OtherName == log[5] = <<>> /\ log'[5] # <<>> => log'[5][2].arg = bob

TwoNamesSpec == ReplayInit /\ [][ReplayNext /\ GreetFirst /\ Bounded /\ OtherName]_allVars
=============================================================================
