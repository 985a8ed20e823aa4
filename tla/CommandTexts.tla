---------------------------- MODULE CommandTexts ----------------------------
(***************************************************************************)
(* Texts of several kinds, typed one character after the other, and what   *)
(* the functions of CommandLine and CommandLists make of them at every     *)
(* length. What a text says is stated here by positions in it.             *)
(***************************************************************************)
EXTENDS CommandLists

CONSTANTS
  Kinds,     \* for each kind of text, how it starts and what is typed behind
  MaxTyped,  \* characters typed after the start of a text
  Tried      \* words tried as name and as password of OPER

Texts == {s \in Seq(Chars) : Len(s) < NPos}

IsWord(s) == s # <<>> /\ ToSet(s) \subseteq WordChars

ASSUME TextsAssumption ==
  /\ MaxTyped \in Nat
  /\ \A k \in DOMAIN Kinds :
       /\ Kinds[k].typed \subseteq Chars
       /\ \A s \in Kinds[k].starts : s \in Seq(Chars) /\ Len(s) + MaxTyped < NPos
  /\ \A w \in Tried : w \in Seq(Chars) /\ IsWord(w) /\ 2 * Len(w) + 2 < NPos

VARIABLES kind, text

vars == <<kind, text>>

Init == /\ kind \in DOMAIN Kinds
        /\ text \in Kinds[kind].starts

Type == /\ \E s \in Kinds[kind].starts :
             IsPrefix(s, text) /\ Len(text) - Len(s) < MaxTyped
        /\ \E c \in Kinds[kind].typed : text' = Append(text, c)
        /\ UNCHANGED kind

Enter == /\ text' \in Kinds[kind].starts
         /\ UNCHANGED kind

ParsingSpec == Init /\ [][Type \/ Enter]_vars

----------------------------------------------------------------------------
(* What a text says *)

\* A sequence has the values that a function has at positions of a text, in
\* the order of the positions.
InOrder(seq, values) ==
  /\ Len(seq) = Cardinality(DOMAIN values)
  /\ \A i \in DOMAIN values : seq[Cardinality({k \in DOMAIN values : k <= i})] = values[i]

\* Where the words of a text start, which other characters keep apart.
WordStarts(s) ==
  {i \in 1 .. Len(s) : s[i] \in WordChars /\ (i = 1 \/ s[i - 1] \notin WordChars)}

WordAt(s, i) ==
  SubSeq(s, i, CHOOSE j \in i .. Len(s) :
                 /\ \A k \in i .. j : s[k] \in WordChars
                 /\ j = Len(s) \/ s[j + 1] \notin WordChars)

\* The words that start in a text up to some place.
WordsUpTo(s, last) == [i \in {k \in WordStarts(s) : k <= last} |-> WordAt(s, i)]

WordsOf(s) == WordsUpTo(s, Len(s))

\* No word starts behind the last letter of a text.
LettersLast(s) == \A i \in WordStarts(s) : i <= LastIn(s, Alpha)

\* The how many-th place of a function a place is.
Place(values, i) == Cardinality({k \in DOMAIN values : k <= i})

\* The sign that a letter of a mode string stands behind.
SignAt(mode, i) == mode[LastIn(SubSeq(mode, 1, i), Signs)]

\* The letters of a mode string, each with its last sign.
Reading(mode) ==
  {[sign |-> SignAt(mode, i), letter |-> mode[i]] :
     i \in {k \in 1 .. Len(mode) :
             mode[k] \notin Signs /\ \A l \in k + 1 .. Len(mode) : mode[l] # mode[k]}}

\* What a sequence of changes comes to: the last sign of each letter.
Final(changes) ==
  {changes[i] :
     i \in {k \in 1 .. Len(changes) :
             \A l \in k + 1 .. Len(changes) : changes[l].letter # changes[k].letter}}

\* The list of a JOIN stands before its last blank, and the keys behind it.
ListOf(s) ==
  LET blank == LastIn(s, {"sp"})
  IN IF blank <= 1 THEN s ELSE SubSeq(s, 1, blank - 1)

KeysOf(s) ==
  LET blank == LastIn(s, {"sp"})
  IN IF blank <= 1 THEN <<>> ELSE SubSeq(s, blank + 1, Len(s))

\* Channels, each with a #, with commas between them.
IsList(s) ==
  /\ s # <<>> /\ s[1] = "sp"
  /\ \A i \in 2 .. Len(s) : s[i] # "sp"
  /\ \A i \in WordStarts(s) : s[i - 1] = "#" /\ (i = 3 \/ s[i - 2] = "comma")

\* Keys, with commas between them.
AreKeys(s) ==
  \A i \in 1 .. Len(s) :
    s[i] \in WordChars \/ (s[i] = "comma" /\ i # 1 /\ s[i - 1] \in WordChars)

IsJoin(s) == IsList(ListOf(s)) /\ LettersLast(ListOf(s)) /\ AreKeys(KeysOf(s))

\* No key of a JOIN occurs in its list.
KeysAreApart(s) ==
  \A k \in DOMAIN WordsOf(KeysOf(s)), p \in 0 .. Len(ListOf(s)) :
    ~OccursAt(ListOf(s), WordsOf(KeysOf(s))[k], p)

\* The keys at the place that a channel has in the list: one, or none.
KeysFor(s, i) ==
  {WordsOf(KeysOf(s))[k] :
     k \in {l \in DOMAIN WordsOf(KeysOf(s)) :
             Place(WordsOf(KeysOf(s)), l) = Place(WordsOf(ListOf(s)), i)}}

\* The list of a PART stands before the first colon.
ListedIn(s) ==
  LET colon == FirstIn(s, {":"})
  IN IF colon = 0 THEN s ELSE SubSeq(s, 1, colon - 1)

----------------------------------------------------------------------------
(* Properties *)

\* However recv() cuts what a client sends, the lines found in the part that
\* has arrived are the first lines of the whole (splitMessage); the lines are
\* what stands between the newlines, each of which ends one. The test for
\* "\r\n" starts a parse exactly when one of the lines is complete, ended by a
\* carriage return.
StreamIsCutAnywhere ==
  kind = "stream" =>
    LET lines == SplitMessage(text)
        newlines == {i \in DOMAIN text : text[i] = "lf"}
    IN /\ \A n \in 0 .. Len(text) : IsPrefix(SplitMessage(SubSeq(text, 1, n)), lines)
       /\ \E end \in [DOMAIN lines -> newlines] :
            LET begin(k) == IF k = 1 THEN 1 ELSE end[k - 1] + 1
            IN /\ \A i \in newlines : \E k \in DOMAIN lines : i = end[k]
               /\ \A k \in DOMAIN lines :
                    begin(k) <= end[k] /\ lines[k] = SubSeq(text, begin(k), end[k] - 1)
       /\ IsParsed(text) <=> \E k \in DOMAIN lines : lines[k] # <<>> /\ Last(lines[k]) = "cr"

\* parseCommand takes a line without a prefix apart at its first blank, into
\* the name and a message without the carriage return; it throws when there is
\* none behind the name.
LinesAreTakenApart ==
  kind = "line" =>
    \A blank \in DOMAIN text :
      LET rest == SubSeq(text, blank, Len(text))
      IN text[1] # ":" /\ blank = FirstIn(text, {"sp"})
         => /\ ParseThrows(text) <=> ~Contains(rest, "cr")
            /\ ~ParseThrows(text) => /\ Name(text) = SubSeq(text, 1, blank - 1)
                                     /\ Message(text) = RemoveFirst(rest, "cr")

\* KICK removes the client that its second word names, with a reason and
\* without: the subtractions of getKickedName wrap around as they should.
KickedIsSecondWord ==
  kind = "kick" =>
    \A b \in 2 .. Len(text), e \in 3 .. Len(text) :
      LET first == SubSeq(text, 2, b - 1)
          nick == SubSeq(text, b + 1, e)
          behind == SubSeq(text, e + 1, Len(text))
      IN /\ text[1] = "sp" /\ text[b] = "sp"
         /\ ToSet(first) \subseteq WordChars \cup {"#"}
         /\ IsWord(nick)
         /\ behind = <<>> \/ IsPrefix(<<"sp", ":">>, behind)
         => KickedName(text) = nick

\* PRIVMSG addresses the first word when a blank and a colon follow it,
\* whatever the text after the colon is.
TargetIsFirstWord ==
  kind = "privmsg" =>
    \A i \in 2 .. Len(text) :
      LET target == SubSeq(text, 2, i)
      IN /\ text[1] = "sp"
         /\ ToSet(target) \subseteq WordChars \cup {"#"}
         /\ OccursAt(text, <<"sp", ":">>, i)
         => Target(text) = target

\* OPER with a name and a password is granted for the first and the last word
\* of an operator's line, and with nothing else.
OperatorsAreRecognised ==
  kind = "oper" =>
    \A i, j \in DOMAIN text :
      LET first == SubSeq(text, 1, i)
          last == SubSeq(text, j, Len(text))
      IN /\ IsWord(first) /\ (i = Len(text) \/ text[i + 1] = "sp")
         /\ IsWord(last) /\ (j = 1 \/ text[j - 1] = "sp")
         => \A n, p \in Tried :
              Granted(text, <<"sp">> \o n \o <<"sp">> \o p) <=> n = first /\ p = last

\* TOPIC is about the same channel whether or not a topic follows, and throws
\* for neither: findChannelName reads the name in two ways.
TopicChannelIsFirstWord ==
  kind = "topic" =>
    \A i \in 3 .. Len(text) :
      LET name == SubSeq(text, 3, i)
          behind == SubSeq(text, i + 1, Len(text))
      IN /\ IsPrefix(<<"sp", "#">>, text)
         /\ IsWord(name)
         /\ behind = <<>> \/ IsPrefix(<<"sp", ":">>, behind)
         => ~TopicThrows(text) /\ TopicChannel(text) = name

\* NAMES asks about every word of its text, in order and once: erasing a name
\* takes no other word away, whatever the names have in common.
NamesAsksEachWord ==
  kind = "part" => InOrder(Asked(text), WordsUpTo(text, Len(text)))

\* PART leaves the channels listed before a colon and no others, when the list
\* has no channel without a letter at its end, and the reason does not begin in
\* the list as well (part() erases it where it first occurs).
PartLeavesListed ==
  kind = "part" =>
    LET list == ListedIn(text)
    IN /\ LettersLast(list)
       /\ Reason(text) = <<>> \/ FindText(text, Reason(text)) >= Len(list)
       => InOrder(Parts(text), WordsOf(list))

\* JOIN comes to the listed channels in their order and offers each that asks
\* for a key the one at its place, when the channels that ask are listed before
\* the others, not more than two ask or not more than two keys are given, and
\* no key occurs in the list (retrieveKey reads the keys in order, and join()
\* erases a key where it first occurs).
JoinPairsKeys ==
  kind = "join" /\ IsJoin(text) /\ KeysAreApart(text) =>
    LET names == WordsOf(ListOf(text))
        keys == WordsOf(KeysOf(text))
    IN \A asks \in SUBSET {names[i] : i \in DOMAIN names} :
         LET asking == {i \in DOMAIN names : names[i] \in asks}
         IN /\ \A i \in asking, l \in DOMAIN names : l <= i => l \in asking
            /\ Cardinality(asking) <= 2 \/ Cardinality(DOMAIN keys) <= 2
            => InOrder(Joins(text, asks),
                 [i \in DOMAIN names |->
                    [chan |-> names[i],
                     key |-> IF i \in asking /\ KeysFor(text, i) # {}
                             THEN CHOOSE key \in KeysFor(text, i) : TRUE
                             ELSE <<>>]])

\* The groups that MODE cuts a mode string into leave every letter as reading
\* the string from left to right does, although the letters of a group are
\* taken in a fixed order and once.
ModesAreRead ==
  kind = "mode" =>
    LET mode == ModeFields(text).mode
    IN mode # <<>> /\ mode[1] \in Signs
       => Final(Changes(mode)) = {c \in Reading(mode) : c.letter \in {"o", "t", "s", "k"}}

\* The scan of user modes takes the letters in the order they are written in:
\* i with either sign, o with a - only.
UserModesAreRead ==
  kind = "umode" /\ text # <<>> /\ text[1] \in Signs =>
    InOrder(UserChanges(text),
      [i \in {k \in 1 .. Len(text) :
               text[k] = "i" \/ (text[k] = "o" /\ SignAt(text, k) = "-")} |->
         [sign |-> SignAt(text, i), letter |-> text[i]]])

=============================================================================
