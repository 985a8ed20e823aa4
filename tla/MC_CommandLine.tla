-------------------------- MODULE MC_CommandLine --------------------------
(***************************************************************************)
(* An instance of CommandTexts.                                            *)
(***************************************************************************)
EXTENDS CommandTexts

List(names) == FlattenSeq([i \in DOMAIN names |->
                 (IF i = 1 THEN <<"sp">> ELSE <<"comma">>) \o <<"#", names[i]>>])

\* What is there before anything is typed, and what is typed.
MCKinds ==
  [stream  |-> [starts |-> {<<>>}, typed |-> {"cr", "lf", "a"}],
   line    |-> [starts |-> {<<>>}, typed |-> {":", "sp", "a", "b", "cr"}],
   kick    |-> [starts |-> {List(<<"c">>)}, typed |-> {"sp", ":", "a", "b"}],
   privmsg |-> [starts |-> {<<"sp">>}, typed |-> {"sp", ":", "#", "a", "b"}],
   oper    |-> [starts |-> {<<>>}, typed |-> {"sp", "a", "b"}],
   topic   |-> [starts |-> {<<>>}, typed |-> {"sp", ":", "#", "a", "1"}],
   join    |-> [starts |-> {List(<<"a", "b", "c">>), List(<<"1", "a">>), List(<<"a", "1">>)},
                typed |-> {"sp", "comma", "x", "a", "1"}],
   part    |-> [starts |-> {List(<<"a", "b">>), List(<<"1", "a">>), List(<<"a", "1">>),
                            <<"sp", "#", "a", "b">>},
                typed |-> {"sp", ":", "a", "b", "1"}],
   mode    |-> [starts |-> {<<"c", "sp", "+">>}, typed |-> {"+", "-", "sp", "o", "t", "k"}],
   umode   |-> [starts |-> {<<"+">>, <<"-">>}, typed |-> {"+", "-", "i", "o"}]]

\* Words that an operator's line may have, and longer or other ones.
MCTried ==
  LET Letters == {"a", "b", "c"}
  IN {<<c>> : c \in Letters} \cup {<<c, d>> : c, d \in Letters}
=============================================================================
