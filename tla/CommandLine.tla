---------------------------- MODULE CommandLine ----------------------------
(***************************************************************************)
(* From received text to commands: what splitMessage, parseCommand and the *)
(* handlers of KICK, PRIVMSG, OPER and TOPIC take out of a text. The other *)
(* modules start from the result (a line of Replay, a parameter of an      *)
(* action of Channels).                                                    *)
(*                                                                         *)
(* A text is a sequence of characters (a blank is "sp", a comma "comma",   *)
(* "\r" and "\n" are "cr" and "lf"); the positions of std::string count    *)
(* from 0, and npos is the greatest size_t.                                *)
(***************************************************************************)
EXTENDS Integers, SequencesExt

CONSTANTS
  SizeT,   \* values of size_t, more than a text has characters
  Chars,   \* the characters
  Alpha,   \* the letters
  Digits   \* what else a word is made of: digits, - and _

WordChars == Alpha \cup Digits

ASSUME CommandLineAssumption ==
  /\ SizeT \in Nat \ {0}
  /\ Alpha # {} /\ Alpha \cap Digits = {} /\ WordChars \subseteq Chars
  /\ {"sp", ":", "#", "comma", "cr", "lf"} \subseteq Chars \ WordChars

----------------------------------------------------------------------------
(* std::string *)

NPos == SizeT - 1

\* The difference of two values of type size_t.
Minus(a, b) == (a - b) % SizeT

\* Where s has its first and its last character of a set, from 1; 0 for none.
FirstIn(s, set) == SelectInSeq(s, LAMBDA x : x \in set)

LastIn(s, set) == SelectLastInSeq(s, LAMBDA x : x \in set)

Find(s, c) == Minus(FirstIn(s, {c}), 1)

FindLast(s, c) == Minus(LastIn(s, {c}), 1)

\* s.substr(pos, n), for pos <= s.size().
Substr(s, pos, n) == SubSeq(s, pos + 1, IF n > Len(s) - pos THEN Len(s) ELSE pos + n)

OccursAt(s, t, pos) == Substr(s, pos, Len(t)) = t

Occurs(s, t) == \E p \in 0 .. Len(s) : OccursAt(s, t, p)

\* The first occurrence of t in s, which has one.
FindText(s, t) ==
  CHOOSE p \in 0 .. Len(s) : OccursAt(s, t, p) /\ \A q \in 0 .. p - 1 : ~OccursAt(s, t, q)

EraseText(s, t) ==
  Substr(s, 0, FindText(s, t)) \o Substr(s, FindText(s, t) + Len(t), NPos)

\* The part of s before the first c, all of it without one; and the rest.
Before(s, c) == Substr(s, 0, Find(s, c))

From(s, c) == Substr(s, Len(Before(s, c)), NPos)

DropBlank(s) == IF s # <<>> /\ s[1] = "sp" THEN Tail(s) ELSE s

----------------------------------------------------------------------------
(* Lines *)

\* One turn of the loop of splitMessage: the text up to the first newline is
\* the next line, and is erased with the newline.
SplitTurn(s) ==
  IF Find(s.rest, "lf") = NPos THEN s
  ELSE [lines |-> Append(s.lines, Before(s.rest, "lf")),
        rest |-> Substr(s.rest, Find(s.rest, "lf") + 1, NPos)]

\* What the loop has come to after k turns.
SplitRun(msg) ==
  LET turn[k \in Nat] ==
        IF k = 0 THEN [lines |-> <<>>, rest |-> msg] ELSE SplitTurn(turn[k - 1])
  IN turn

\* Mutant: what follows the last newline is a line as well.
MutantSplitMessage(msg) ==
  LET end == SplitRun(msg)[Len(msg)]
  IN IF end.rest = <<>> THEN end.lines ELSE Append(end.lines, end.rest)

\* Every turn but the last shortens the text, so Len(msg) turns are enough.
SplitMessage(msg) == SplitRun(msg)[Len(msg)].lines

\* A read buffer is parsed once a carriage return and a newline follow each
\* other in it.
IsParsed(buffer) ==
  \E i \in 1 .. Len(buffer) - 1 : buffer[i] = "cr" /\ buffer[i + 1] = "lf"

\* Mutant: the last blank ends the name.
MutantName(line) ==
  LET rest == IF line # <<>> /\ line[1] = ":" THEN From(line, "sp") ELSE line
  IN Substr(rest, 0, FindLast(rest, "sp"))

\* cmd_infos.name. What follows a prefix starts with a blank.
Name(line) ==
  Before(IF line # <<>> /\ line[1] = ":" THEN From(line, "sp") ELSE line, "sp")

Unreturned(line) == Substr(line, FindText(line, Name(line)) + Len(Name(line)), NPos)

\* erase(npos, 1) throws.
ParseThrows(line) == Find(Unreturned(line), "cr") = NPos

\* cmd_infos.message, when nothing is thrown.
Message(line) == EraseText(Unreturned(line), <<"cr">>)

----------------------------------------------------------------------------
(* KICK and PRIVMSG *)

\* Mutant: the length of the name is taken for its end.
MutantKickedName(message) ==
  LET m == DropBlank(message)
  IN Substr(m, (Find(m, "sp") + 1) % SizeT, Minus(Find(m, ":"), 1))

\* getKickedName: from the first blank to the character before the colon. No
\* blank and no colon are found at npos.
KickedName(message) ==
  LET m == DropBlank(message)
      begin == (Find(m, "sp") + 1) % SizeT
  IN Substr(m, begin, Minus(Minus(Find(m, ":"), 1), begin))

\* Mutant: the last colon ends the target.
MutantTarget(message) ==
  LET colon == FindLast(message, ":")
      delimiter == IF colon = NPos THEN FindLast(message, "sp") ELSE colon
  IN Substr(message, 1, Minus(delimiter, 2))

\* The target of PRIVMSG: to the character before the delimiter.
Target(message) ==
  LET colon == Find(message, ":")
      delimiter == IF colon = NPos THEN FindLast(message, "sp") ELSE colon
  IN Substr(message, 1, Minus(delimiter, 2))

----------------------------------------------------------------------------
(* OPER *)

LastWord(s) == Substr(s, (FindLast(s, "sp") + 1) % SizeT, NPos)

\* Mutant: the password of an operator begins behind the name.
MutantOperator(line) ==
  [name |-> Before(line, "sp"), password |-> Substr(From(line, "sp"), 1, NPos)]

\* A line of the operators' file. (The host is not used.)
Operator(line) == [name |-> Before(line, "sp"), password |-> LastWord(line)]

\* getName and getPassword, for a message that starts with a blank.
Credentials(message) ==
  [name |-> Substr(message, 1, Minus(FindLast(message, "sp"), 1)),
   password |-> LastWord(message)]

\* oper(), with one operator in the file.
Granted(line, message) ==
  LET given == Credentials(message)
  IN given.name # <<>> /\ given.password # <<>> /\ given = Operator(line)

----------------------------------------------------------------------------
(* TOPIC *)

\* getChannelName: the first word.
ChannelName(s) ==
  LET tail == Substr(s, FirstIn(s, WordChars) - 1, NPos)
      next == FirstIn(tail, Chars \ WordChars)
  IN IF next = 0 THEN tail ELSE Substr(tail, 0, next - 1)

\* Mutant: the first word is not looked for.
MutantTopicChannel(message) == Before(Substr(message, Find(message, "#") + 1, NPos), ":")

\* strtok: the first stretch without a blank. findChannelName calls it for a
\* message with a blank or a word in it.
FirstToken(s) ==
  Before(Substr(s, FirstIn(s, Chars \ {"sp"}) - 1, NPos), "sp")

\* A colon asks for the first token, which may have no # to erase: this throws.
TopicThrows(message) ==
  /\ {"#", ":"} \subseteq ToSet(message)
  /\ "#" \notin ToSet(FirstToken(message))

\* findChannelName, when nothing is thrown.
TopicChannel(message) ==
  IF "#" \notin ToSet(message) THEN <<>>
  ELSE IF ":" \in ToSet(message) THEN EraseText(FirstToken(message), <<"#">>)
  ELSE ChannelName(message)
=============================================================================
