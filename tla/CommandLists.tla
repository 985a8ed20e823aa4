---------------------------- MODULE CommandLists ----------------------------
(***************************************************************************)
(* The parsers that are loops over a list: the channels of JOIN, PART and  *)
(* NAMES with keys and reasons, and the mode strings of MODE.              *)
(***************************************************************************)
EXTENDS CommandLine

----------------------------------------------------------------------------
(* JOIN, PART and NAMES *)

HasAlpha(s) == ToSet(s) \cap Alpha # {}

\* The word characters of a text.
WordCharsOf(s) ==
  LET kept[k \in 0 .. Len(s)] ==
        IF k = 0 THEN <<>>
        ELSE IF s[k] \in WordChars THEN Append(kept[k - 1], s[k]) ELSE kept[k - 1]
  IN kept[Len(s)]

\* Mutant: the comma before the next key is not skipped.
MutantRetrieveKey(message) ==
  LET keys == Substr(message, FindLast(message, "sp") + 1, NPos)
  IN WordCharsOf(Before(keys, "comma"))

\* retrieveKey: the word up to a comma, in what follows the last blank (there
\* is one) and, once an earlier key is erased, one comma.
RetrieveKey(message) ==
  LET keys == Substr(message, FindLast(message, "sp") + 1, NPos)
      begin == IF Find(keys, "comma") = 0 THEN 1 ELSE 0
  IN WordCharsOf(Before(Substr(keys, begin, NPos), "comma"))

\* substr(npos) throws, and so does erase(npos): a key with other characters in
\* it is not found.
KeyThrows(rest) == "sp" \notin ToSet(rest) \/ ~Occurs(rest, RetrieveKey(rest))

\* One turn of the loop of join(): the next channel, with the key offered for
\* it, where asks is the set of channels with the letter k. A name or a key is
\* erased where it first occurs. An exception leaves no text to go on with.
JoinsTurn(s, asks) ==
  IF ~HasAlpha(Before(DropBlank(s.rest), "sp")) THEN s
  ELSE LET name == ChannelName(s.rest)
           rest == EraseText(s.rest, name)
           key == IF name \in asks THEN RetrieveKey(rest) ELSE <<>>
       IN IF name \in asks /\ KeyThrows(rest) THEN [s EXCEPT !.rest = <<>>]
          ELSE [joins |-> Append(s.joins, [chan |-> name, key |-> key]),
                rest |-> EraseText(rest, key)]

\* What the loop has come to after k turns. Every turn but the last takes a
\* character at least, so Len(message) turns are enough; so it is below.
JoinsRun(message, asks) ==
  LET turn[k \in 0 .. Len(message)] ==
        IF k = 0 THEN [joins |-> <<>>, rest |-> message] ELSE JoinsTurn(turn[k - 1], asks)
  IN turn

Joins(message, asks) == JoinsRun(message, asks)[Len(message)].joins

\* One turn of the loops of part() and names(), which go on while the message
\* has a character of a set.
NamesTurn(s, set) ==
  IF ToSet(s.rest) \cap set = {} THEN s
  ELSE LET name == ChannelName(s.rest)
       IN [names |-> Append(s.names, name), rest |-> EraseText(s.rest, name)]

NamesRun(message, set) ==
  LET turn[k \in 0 .. Len(message)] ==
        IF k = 0 THEN [names |-> <<>>, rest |-> message] ELSE NamesTurn(turn[k - 1], set)
  IN turn

Names(message, set) == NamesRun(message, set)[Len(message)].names

\* Mutant: the channels of NAMES need a letter as those of JOIN and PART do.
MutantAsked(message) == Names(message, Alpha)

\* names(): digits are enough for its test of what is left.
Asked(message) == Names(message, WordChars)

\* getReason
Reason(message) == Substr(From(message, ":"), 1, NPos)

\* Mutant: the reason stays in the message.
MutantParts(message) == Names(message, Alpha)

\* part(): the reason is erased where it first occurs, and what is left is a
\* list of channels.
Parts(message) == Names(EraseText(message, Reason(message)), Alpha)

----------------------------------------------------------------------------
(* MODE *)

\* fillModeInfos: target and mode end at the first two blanks, the parameters
\* are the rest.
ModeFields(command) ==
  LET tail == Substr(From(command, "sp"), 1, NPos)
  IN [target |-> Before(command, "sp"), mode |-> Before(tail, "sp"),
      params |-> Substr(From(tail, "sp"), 1, NPos)]

Signs == {"+", "-"}

\* Mutant: the loop goes on behind the sign it just met.
MutantRunLength(mode) ==
  LET next == FirstIn(SubSeq(mode, 3, Len(mode)), Signs)
  IN IF next = 0 THEN Len(mode) ELSE next + 1

\* The end of a sign and its letters.
RunLength(mode) ==
  LET next == FirstIn(Tail(mode), Signs)
  IN IF next = 0 THEN Len(mode) ELSE next

\* changeChannelMode cuts a mode string in groups of a sign and letters,
GroupsTurn(s) ==
  IF RunLength(s.rest) = Len(s.rest) THEN s
  ELSE [groups |-> Append(s.groups, Substr(s.rest, 0, RunLength(s.rest))),
        rest |-> Substr(s.rest, RunLength(s.rest), NPos)]

GroupsRun(mode) ==
  LET turn[k \in 0 .. Len(mode)] ==
        IF k = 0 THEN [groups |-> <<>>, rest |-> mode] ELSE GroupsTurn(turn[k - 1])
  IN turn

Groups(mode) ==
  LET end == GroupsRun(mode)[Len(mode)]
  IN Append(end.groups, end.rest)

\* and runs, for each group, the letters it has in this order.
With(group, letter) ==
  IF letter \in ToSet(group) THEN <<[sign |-> group[1], letter |-> letter]>> ELSE <<>>

ChangesRun(groups) ==
  LET done[k \in 0 .. Len(groups)] ==
        IF k = 0 THEN <<>>
        ELSE done[k - 1] \o With(groups[k], "o") \o With(groups[k], "t")
                         \o With(groups[k], "s") \o With(groups[k], "k")
  IN done

Changes(mode) == ChangesRun(Groups(mode))[Len(Groups(mode))]

\* Mutant: behind a - only the end of the string stops the scan.
MutantReadMode(s, c) ==
  IF c \in Signs /\ s.sign # "-" THEN [s EXCEPT !.sign = c]
  ELSE IF c = "i" \/ (c = "o" /\ s.sign = "-")
       THEN [s EXCEPT !.changes = Append(@, [sign |-> s.sign, letter |-> c])]
       ELSE s

\* The scan of modeForUser, behind a sign: i and, after a -, o.
ReadMode(s, c) ==
  IF c \in Signs THEN [s EXCEPT !.sign = c]
  ELSE IF c = "i" \/ (c = "o" /\ s.sign = "-")
       THEN [s EXCEPT !.changes = Append(@, [sign |-> s.sign, letter |-> c])]
       ELSE s

UserRun(mode) ==
  LET scan[k \in 0 .. Len(mode)] ==
        IF k = 0 THEN [sign |-> mode[1], changes |-> <<>>] ELSE ReadMode(scan[k - 1], mode[k])
  IN scan

\* A mode string that does not begin with a sign changes nothing.
UserChanges(mode) ==
  IF mode # <<>> /\ mode[1] \in Signs THEN UserRun(mode)[Len(mode)].changes ELSE <<>>
=============================================================================
