# Verification of the IRC server

TLA+ modules that model the server of this repository, TLC configurations that
model-check them on small instances, and TLAPS proofs of the results that hold
for every instance. Paths are relative to the repository (`src/src/...` is the
C++ source).

## 1. The system

One process, one thread. `main` builds a `Server`, reads the IRC operators from
a file and runs `Server::manageServerLoop`, which polls all sockets, accepts
connections, receives, runs the lines of a client through `parseMessage` and the
command functions, and drops clients that hang up. (The README of the repository
speaks of a thread for each connection; there is none. Class `LagCompensation`
is written for threads, and nothing calls it.)

| component | state | operations | who it talks to |
|---|---|---|---|
| server loop (`ManageServer.cpp`, `ManageServerUtils.cpp`) | `poll_fds`, `new_pollfds`, the iterator, `revents` | poll, accept, recv, drop, handle POLLOUT/POLLERR | kernel and remote ends; calls `addClient`, `delClient`, `parseMessage`; catches what they throw |
| clients (`class/Client.cpp`, `class/Server.cpp`, `nick user pass oper kill`, `MODE <nick>`) | map `_clients`, with for each its registration flags, nickname, modes, mark for disconnection, buffers | registration, rename, OPER, user modes, KILL | commands find clients by descriptor or by nickname |
| channels (`class/Channel.cpp`, `join part kick mode topic quit invite privmsg notice`) | map `_channels`: members (copies of `Client`), operators, kicked nicknames, modes, key, topic | one per command | broadcasts look every member up in `_clients` and may throw |
| read buffers (`_readbuf`) | all that a client ever sent | appended by `recv`, parsed whole by `parseMessage` | drives clients and channels |
| lag compensation (`LagCompensation.cpp`) | `message_logs`, three locks | `processClientMessage`, `logClientMessage`, `clearOldRecords`, `getValidMessages` | would call `parseMessage` |
| parsers (`parsing.cpp`, helpers of each command) | none | split a line in arguments; throw on some lines | called by every command |
| informational commands (`PING`, `NAMES`, `LIST`), numeric replies, start-up, test clients, `ref/lockstep_ref` | none that another command reads | | |

What is hard here, and what the properties are about:

* a connection may end at any time, while channels hold copies of its client,
  while `poll_fds` is being scanned, or just before its descriptor is reused;
* a broadcast to a departed member ends a command between two of its effects;
* a MODE line has several effects and one check of authority;
* nicknames are the identity of members and operators, and change;
* the read buffer is parsed from its beginning with every message;
* a scan of `poll_fds` may end early, with connections accepted in it;
* the listening socket blocks, and `poll` may be out of date;
* the parsers cut texts with positions that wrap around, and erase names, keys
  and reasons where they first occur;
* three locks guard one map in the code for threads, and one build shares a
  condition variable between them.

`PROJECT.json` lists these hazards at their lines ("hazards").

## 2. The modules

    Session  <-refined by-  Clients  <-EXTENDS-  Channels  <-EXTENDS-  Replay
                                                 Channels  -refines->  Room
    ServerLoop          LagCompensation
    CommandLine  <-EXTENDS-  CommandLists  <-EXTENDS-  CommandTexts
    ClientsProofs  <-EXTENDS-  ChannelsProofs  <-EXTENDS-  ReplayProofs
    CommandLineProofs  <-EXTENDS-  CommandListsProofs
    ServerLoopProofs, LagCompensationProofs
    NaturalsLemmas, used by LagCompensationProofs, ReplayProofs and CommandLineProofs
    MC_Clients, MC_Channels, MC_ServerLoop, MC_Replay, MC_Lag, MC_CommandLine

Two abstract specifications say what components promise, and do not mention how:
**Session** (a connection is accepted while there is room and gets one lasting
verdict) and **Room** (a channel in terms of nicknames: entry by key, authority
from the first to enter or from another operator, settings in the operators'
hands). They model no code and are not in "map".

**Clients.** One step is one complete line of one client, which is exact
because the server has one thread and runs a line without interruption.
`conn` is the key set of `_clients`; `client` the records. `RegistrationLine`
is the registration branch of `parseMessage` around `RegisterNick`,
`RegisterUser` and `RegisterPass`; `Welcome` is its verdict, where the
`InvalidClientException` thrown and the mark set by the `catch` are one step.
`MalformedLine` is any line whose parsing throws before it changes anything (in
`parseCommand`, or in a parser of a command, as `PRIVMSG` without argument).
Lines that change no client record are stuttering. A nickname is a model value; all that is kept of
it is whether it passes `containsInvalidCharacters` (`Nicks` or `BadNicks`) and
what `substr(0, 9)` makes of it (`Short`).

**Channels.** A channel stores copies of clients under the nickname of their
JOIN: `mem[n]` is the descriptor in the copy, `hidden` the copies with user mode
i, and `ops`, `kicked`, `mode`, `key`, `topic` are the members of class
`Channel`. Every command is one action with its checks in the order of the
code, its change and its broadcast (`Update`, `Outcome`). `Throws` says that the
broadcast meets a departed member. MODE is the exception: its letters are steps
of their own (`OpenLine`, `OperatorLetter`, `FlagLetter`, `KeyLetter`,
`CloseLine`) between which nothing else runs, since an exception may end the line after
any of them. The code applies the letters of a group in the order o, t, s, k;
the model allows any order and any repetition, so it has every line of the code
and more. A command with a list of channels is modelled as as many commands; when one throws
the rest of the list is lost, which is a possible behaviour of the model.

**ServerLoop.** A program counter `at` over one pass: `Poll`, `VisitListen`,
`Visit(fd)` for each element of `poll_fds`, `ScanDone`. `EndScan` is the merge
of `new_pollfds`, reached at the end or by a `break`. The remote ends are the
environment (`Connect`, `Withdraw`, `Send`, `HangUp`). The listening socket is a
blocking one: `VisitListen` waits while the connection that `poll` reported has
been withdrawn (`BlockedInAccept`), and the whole loop with it. Lines are abstract here: each is two
pieces, and one of them (`bad`) throws. `HangUp` covers `recv` returning 0 or an
error. POLLERR comes together with POLLIN or POLLHUP for the sockets the program uses, so its branch adds no
state change of its own (`handlePollerEvent` calls the same `delClient` and breaks).
`Flush` is `handlePolloutEvent`. It never happens, because `addClient` requests
POLLIN only; it is there so that this is a consequence of `Requested`.

**Replay.** The read buffers (`log`) and the `parseMessage` in progress (`run`)
on top of `Channels`. `RunLine` runs the next line of the buffer as the action
of `Channels` it is, or as nothing when its checks (`MayJoin`, `MayPart`,
`MayKick`, `MayRename`) fail and it ends in an error reply; `Advance` goes on or
stops. A QUIT marks its client and the run goes on behind it. This is the
composition of the components: since its lines are actions of `Channels`, the
invariants proved there carry over to it (`ServerImplementsChannels`); what is
its own is the order in which lines run, and run again, which is what
`RunsEndUpToDate` is about.

**LagCompensation.** `at[t]` is the place of a thread in the innermost function
`fn[t]`; `Exchange`, `FutexWait`, `Store` and `FutexWake` are the steps of the
lock loop. `FutexWait` compares and sleeps in one step as the system call does
(and as the mutex of the pthread build makes it). `build` chooses the build: with
`futex` a release wakes a thread of its own function, which tries again; with
`pthread` it wakes any sleeper, since the three functions share `cond`, and that
thread looks at its futex first. `Interrupt` is the return of FUTEX_WAIT by a
signal, or a spurious return of `pthread_cond_wait`. `Log` and `Clear`
are bodies of functions, one step each: nobody else writes meanwhile, as `clearOldRecords` runs
under the lock of `logClientMessage`. `getValidMessages` has another lock, so its
loop is modelled turn by turn (`GetBegin`, `GetRecord`, `GetReturn`): `read[t]` has
what its iterator has before it, and is `torn` from the moment some thread changes the
records it goes through, or if one is about to when it begins. What a torn read finds is
undefined; the model lets it miss any record. A record carries the call it
belongs to and its timestamp.

**CommandLine.** Texts, as sequences of characters (a blank is "sp", a comma
"comma", "\r" and "\n" are "cr" and "lf"), and what `splitMessage`,
`parseCommand` and the parsers of KICK, PRIVMSG, OPER and TOPIC take out of them:
position by position as the code does it, with `npos` and the subtraction of `size_t` modulo
`SizeT`. The loop of `splitMessage` is a recursive function of the number of its
turns (`SplitRun`). The other modules start from the results: a line of `Replay`, the
parameters of the actions of `Channels`, the steps of `ServerLoop` in which lines
are cut. **CommandLists** has the parsers that are loops over lists and mode strings
(JOIN, PART, NAMES, MODE). Each loop is a recursive function of the number of its
turns (`JoinsRun`, `NamesRun`, `GroupsRun`, `ChangesRun`, `UserRun`) around an
operator that is one turn. **CommandTexts** types texts of several kinds, one
character after the other (`Type`), and states by positions what the operators of
`CommandLine` and `CommandLists` must find in each; it models no code.
`MC_CommandLine` gives the kinds.

### Undefined behaviour

* `retrieveClient` dereferences `end()` when the client is gone
  (`utils.cpp:30`). With libstdc++ on a 64-bit system the string appended to is then made of
  other members of `Server`: the field read as its length is a pointer, so that
  `append` asks for an impossible allocation and throws `std::bad_alloc`, which the
  `catch` of the loop turns into the mark. This has been observed on the running
  server and is the outcome modelled.
* INVITE dereferences `end()` of a local map on its success path
  (`invite.cpp:56`): modelled as an exception or as no effect. A crash only stops the system, and no
  property of the project is a liveness property of commands.
* `NICK` with a blank argument passes a null pointer to a `std::string`, which
  throws or stops the process: covered by `MalformedLine`, except
  that a crash ends everything.

## 3. What the runs check

All bounds are constants in the `.cfg` files, or are named in the MC modules.

| run | instance | what it shows |
|---|---|---|
| `clients` | 3 descriptors, at most 2 clients, 4 nicknames | types; `RegisteredIsValid`; `RefusedIsMarked`; `RenameIsUnique` (the check and the store agree, although the name is truncated in between); `LivesAreSessions` (refinement) |
| `channels` | 2 clients, 2 nicknames, a key, a topic; 1 channel, or 2 for QUIT | types; `KeyConsistent`; `LineIsAuthorised`; `ChannelsAreRooms` (refinement); `QuitIsComplete` |
| `server_loop` | 3 descriptors, at most 2 clients, 2 lines | types; `PollMapAgreement`; `CapacityRespected`; `ReportedAreOpen`; `LinesRunInOrder`; `AcceptsAreServed` and `ClientsAreServed` (liveness) |
| `replay` | 2 clients, buffers of 5 and 4 lines, 1 channel | types; `RunsEndUpToDate` |
| `lag` | 3 threads, 2 clients, 2 ticks, both builds | types; `OneAtATime`; `NoLostWakeup`; `LogsAreOrdered`; `ClearIsComplete`; `OwnMessageIsParsed`; `CallsReturn` (liveness) |
| `parsing` | texts with up to 6 typed characters | lines (`StreamIsCutAnywhere`, `LinesAreTakenApart`), KICK, PRIVMSG, OPER and TOPIC (`KickedIsSecondWord`, `TargetIsFirstWord`, `OperatorsAreRecognised`, `TopicChannelIsFirstWord`), lists (`JoinPairsKeys`, `PartLeavesListed`, `NamesAsksEachWord`), modes (`ModesAreRead`, `UserModesAreRead`) |

`QuitIsComplete` is about a client that kept its nickname since its joins; a
renamed one is what `QuitErasesUser` is about, which is violated. `OwnMessageIsParsed`
is about reads that are not torn; that reads can be torn is what `LogsAreGuarded` shows.
`JoinPairsKeys` is about commands whose channels with a key are listed first, as those
before them would shift the keys, whose keys do not occur in the list, and of which two
channels ask or two keys are given at most. `PartLeavesListed` is about lists with a letter in the
last channel, and reasons that do not begin in the list. `LinesAreTakenApart` is about lines with a blank
and without a prefix, `OperatorsAreRecognised` about OPER with two words. What becomes of the commands
outside of these preconditions is listed with the disagreements below.

Why the bounds are enough to be interesting. Two clients and three descriptors
give a refused connection (the capacity is a parameter, 4 in `Macro.hpp`) and
the reuse of a descriptor; two nicknames give a collision, a rename into a name another
client left behind, and a member whose client is gone; one nickname is
illegal, one is long and truncates to another. With one channel every
interaction of members, operators and keys happens; a second one matters to QUIT
only, which visits them in order: in `channels` it exists in states without kicks,
modes and topics (`OneOrQuit`). In `server_loop` two
lines show a line run twice and a line behind one that throws; one client sends them, and goes
on sending without end, while the other one sends a single line (`OneSendsMore`). In `replay` a
registration takes three lines, and one or two more lines per client are enough to
join, be kicked and speak; the restriction to clients that register with
their first message (`GreetFirst`, `Bounded`) only keeps the state space small.
In `lag` two threads share a client and a third does not, and a record grows
old in two ticks. All three meet at the locks before time
passes, and any two from then on (`ThreeMeetEarly`); what concerns time concerns a record, its call and one more thread. In `parsing` six characters are enough for two words behind a
blank, three keys (behind a list that is there from the start), or three signs
with their letters; for the texts of `CommandTexts`, the proofs have no bound. Counters are bounded
by `MaxOper`, `MaxLog`, `MaxTime`, `MaxPieces`, `MaxRuns` and `MaxTyped`. The nicknames of
`MC_Channels` stand for names +k refuses as keys (they contain a digit); the proofs have no such restriction.

**Deadlock** is checked in all runs. `LagCompensation` has `Rest`, a step that is possible only
with all threads outside: a thread stuck in a function is a deadlock.

**Fairness.** The specification of `server_loop`, as `FairServerLoopSpec`, has weak fairness of `ServerStep`: one thread
that runs whenever `poll` has something to report. Nothing is asked of the
remote ends, which may send for ever. `ClientsAreServed` assumes that no line
throws and that `accept` is not left waiting; both do happen, and then the
clients behind, or all clients, are not served. That of `lag`, as `FairLagSpec`, has weak fairness of the
steps of each thread inside the functions, which is what a scheduler gives;
`Call`, `Interrupt` and `Tick` need not happen. The futex loop has no queue, so with calls
without end a thread could be overtaken for ever: `CallsReturn` is about finitely
many calls (`MaxLog`), and shows that none is left asleep.

### Disagreements with what the sources say

Six runs end in a violation, by design, each about a statement quoted in
`PROJECT.json` ("findings"):

* `nickname_in_use`: NICK stores a nickname before it checks it, so two clients
  register under one.
* `departed_members`: a client whose connection ends stays in its channels and
  nobody receives a QUIT message.
* `quit_keeps_member`: QUIT erases the entry of the current nickname
  (`quit.cpp:41`), so a client that renamed itself after a JOIN stays in the channel.
* `quit_closes`: the server never closes the connection of a client that sent
  QUIT or was killed.
* `kick_undone`: the next message of a kicked client runs its old JOIN again.
* `logs_unguarded`: each function of `LagCompensation` has its own lock for the
  shared map.

The operators of `CommandLine` and `CommandLists` model the following behaviour as well. It
contradicts what the sources say of single commands, and no property asserts it: the
preconditions of the properties of `parsing` exclude it.

* A command without a blank behind it, as the bare `LIST` of `list.cpp:24`, throws
  (`parsing.cpp:19`); a line with a prefix, as the one in `privmsg.cpp:40`, has an
  empty command name and is answered as unknown (`parsing.cpp:9`).
* OPER with one word takes it as name and password (`oper.cpp:90`), although
  `oper.cpp:14` requires both.
* JOIN gives its keys to the channels that ask for one, so the pairing by position of `join.cpp:41`
  fails when the first channel has no key (`join.cpp:67`). Two commas are left before the third
  key, which is lost (`join.cpp:145`), against "each channel using the given key for it"
  (`join.cpp:13`). A key that occurs in the name of a channel listed behind is
  erased there (`join.cpp:68`).
* PART does not leave a channel of digits behind the last letter of its list
  (`part.cpp:37`), as `#42` in the list of `names.cpp:21`; JOIN skips it in the same
  way (`JOIN #42,#a` joins both channels, `JOIN #a,#42` only the first). A reason that occurs in
  the list is erased there (`part.cpp:35`). `part.cpp:10` has the client removed "from the given channel(s)".

Seen while modelling, and not made into runs: the copies in a channel do not
follow later changes of user modes, so that NAMES shows who became invisible
after its JOIN; LIST shows secret channels (`mode.cpp:97` says it does not);
PRIVMSG without a colon drops the last character of its target; of several
operators with one name (as in `src/config/ManageServOperators.config`) only the
first one's password is accepted; PASS with a wrong password, JOIN with a wrong
key, INVITE, LIST and PRIVMSG to nobody call `send`, which may block the loop;
`recv` may fill its buffer of 4096 bytes to the end, which is then read as a string without
a terminator (`ManageServer.cpp:92`); a nickname given during
registration may be invalid or longer than nine characters; `MODE -o` after
several OPER commands takes away one letter of several; an operator who leaves,
is kicked or renames itself stays in `_operators`, with its old nickname; a
client whose lines throw ends the pass at its place in `poll_fds`, so if it
never stops sending the clients behind it are not served; replies are queued and never
sent, for the same reason as in `quit_closes`; the path of the operators' file in `main.cpp:24` is not one of
this repository, so `IrcOps` is empty by default and OPER always fails
(the models explore both).

## 4. What is proved

TLAPS checks the following for all values of the constants that satisfy the
`ASSUME`s of the modules (descriptors are naturals, valid and invalid nicknames
are disjoint, the empty string is no nickname, key or topic, truncation is idempotent...). TLC evaluates these
assumptions in each run.

* **ClientsProofs.** `IInv`, the conjunction of the type invariant,
  `RegisteredIsValid` and `RefusedIsMarked`, is inductive. The types are needed
  for the other two (a record that is updated field by field must be a record). Each
  action changes one client, so the proof goes through `OneClientChanges` and a
  predicate of a single record (`GoodClient`). From it follow
  `ClientsTypeCorrect`, `RegistrationIsValid`, `RefusalIsMarked`,
  `RenamesAreUnique` (an action property: only NICK renames a registered client)
  and `ClientsImplementSession` (the refinement: each step is a step of
  `Session` or a stutter under the mapping `Status`).
* **ChannelsProofs.** `ChannelsInv` is `IInv` with `ChannelsTypeOK`,
  `KeyConsistent` and `LineIsAuthorised`, of which the last needs the first (the
  nickname of a client executing a line does not change). `CommandKeepsInv` and
  `LetterKeepsInv` carry the argument: a command replaces one channel by a
  consistent one, then throws or not. From it follow `ChannelsTypeCorrect`,
  `KeysAreConsistent`, `LinesAreAuthorised` and `ChannelsImplementRoom`, the
  refinement of `Room` by every channel at once, with any number of channels,
  clients and nicknames.
  `QuitsAreComplete` is an action property: a QUIT that meets no departed member
  reaches every channel (`QuitLeaves`), and erasing the entry of its nickname
  takes its entry away, and nobody else's, if it is under that nickname (`KeptName`).
* **ReplayProofs.** `ReplayInv` is `ChannelsInv` with `RunOK` (the run in progress
  points to a line of the buffer of a connected client) and `line = NoLine` (Replay
  sends no MODE). `RunLineIsCommand` has a case for each line. From it follow
  `ReplayTypeCorrect` and `ServerImplementsChannels`: the
  server that parses whole buffers again and again keeps the invariant of
  Channels. (That its steps are steps of Channels is how `RunLine` is written, and no
  result.)
  `RunsKeepUp` is `RunsEndUpToDate`: no matter how often the lines of a client are run
  again and what others did in between, a run that is not cut short leaves it with the
  nickname and in the channels its last lines ask for. The property speaks of the end
  of a run; its invariant, `CurrentInv`, speaks of every line on the way: the lines
  `1 .. run.next - 1` are carried out, in that the last NICK among them and the last line
  about each channel hold (`RunIsCurrent`). No induction over the run is needed, since
  the run itself is the induction. `CurrentInv` also says that Replay sets no modes
  (`NoFlags`), that a member's nickname is never empty (`NamesAreBlank`) and that every nickname
  comes from a line of the buffer (`NickIsLogged`), which is what a NICK that finds its
  name in use by the client itself, or is refused, is judged by. `LineResult`
  states once what any line may change and must; four lemmas establish it.
* **ServerLoopProofs.** `ScanInv` adds two facts to the properties: connections are
  accepted before any client is visited in a pass (`AcceptedInPass`), which is why
  the test of capacity, blind to `new_pollfds`, is enough; and nobody is reported
  for POLLOUT (`OnlyPollin`). `GoodLines` adds, for `LinesRunInOrder`, that a client
  has received no more than was sent. The lemmas on sequences say what erasing the
  visited element does to an injective sequence. Theorems: `LoopTypeCorrect`,
  `PollAndMapAgree`, `CapacityIsRespected`, `ReportsAreFresh`, `LinesAreOrdered`.
* **LagCompensationProofs**, for both builds. `LockInv` says that a futex is 1 exactly when a
  thread holds it, and that no two do; `OneAtATime` follows for any number of
  threads (`FunctionsAreExclusive`). `WakeInv` adds that sleepers are seen: with
  futexes, by a holder, a waker or a thread that tries; with the shared condition
  variable, that somebody is awake in the functions (`WakeupsAreNotLost`).
  `RecordInv` is about the data: stamps are not in the future, logs are in order,
  and the record of a call that is under way is in the log as long as it is young.
  It gives `LagTypeCorrect` (the least young record exists by well-founded
  induction), `RecordsAreInOrder` and `ClearingIsComplete`. `ReadInv` follows a read
  turn by turn: as long as it is not torn, the own record of its call is among those
  found or those ahead, if it was valid when the read began. At the end nothing is ahead, which
  is `OwnRecordIsKept`. That others may log and drop in between is in the steps `Log` and
  `Clear`, each of which leaves a read as it is, or tears it.
* **CommandLineProofs**, for any characters and for texts of any length below
  `npos`. The run `parsing` types six characters; these theorems are what says that
  six are not special. `TextInv` (texts stay below `npos`, so that no position is
  taken for it) is the invariant; the rest is about single texts. `MinusLemma` says where the
  subtraction of positions wraps around, `FindLemma`, `SubstrPart`, `BeforeIs` and
  `EraseChar` what the members of `std::string` return. From them:
  `LinesAreParsed` (`parseCommand`, of a line without a prefix), `KickedNameIsRead` (without a colon, the length handed
  to `substr` comes from `npos` and still reaches the end), `TargetIsRead`,
  `OperatorsAreRead` and `TopicChannelIsRead`.
  `StreamIsCut` is about the loop of `splitMessage`. `HasCut` is its invariant: the
  lines are what the newlines up to some place end, and after k turns that place is
  not before k or no newline is left, so that `Len(msg)` turns are enough (`SplitEnds`).
  That a part of a text has the first lines of the whole is shown by two loops in lockstep
  (`InStep`): they have cut off the same, or the one over the part is at its end.
  No theorem of the library does induction here: `SetInduction` and `Iteration` of
  **NaturalsLemmas** state it for a set of numbers and for the iterates of a function,
  from the least element of a set. The assumption `TextsAssumption` asks that the texts typed are
  sequences of characters that fit in memory, and that the names and passwords tried are words.
* **CommandListsProofs**, for lists and mode strings of any length below `npos`. A
  loop is handled in the same way each time: its recursive function exists
  (`LoopRuns` of `NaturalsLemmas`), a predicate of what it has come to after k turns
  is kept by one more turn, and after the last one it says that nothing is left to
  do. The predicates speak of a place in the text that moves forward with every
  turn, so they also show that `Len(message)` turns are enough. Results come in the
  order of positions (`InOrder`); `InOrderAppend` adds the next one.
  * NAMES and PART. `Left(r, s, b, m, tail)` says what is left of a message: m
    characters that belong to no word, then s behind place b, then tail. This is why
    erasing a name *where it first occurs* erases it where it was read: no word
    character is left in front of it (`TakeWord`). `NamesAreAsked` follows, and,
    with `ReasonErased` (what PART leaves is the list and one colon), `ListedAreLeft`.
  * JOIN. A key is read behind the last blank, and erased where it first occurs in
    all that is left. `JoinLeft` adds to `Left` that the list has no blank but its
    first, and `KeyIsFirst` that a key which does not occur in the list does not occur
    in what is left of it either, although erased names have brought other characters
    together. `TakesKey` is one key taken from what stands behind the
    list. By `KeysTaken` that gives its first word, then its second, and then nothing for
    ever: two commas are left (`IsDead`). In the invariant, `HasJoins`, the number of keys
    taken is the number of channels so far that ask for one (`AsksUpTo`). When the channels that ask
    are the first ones, this number is a channel's place in the list (`PlacesAgree`), and when
    two ask or two keys are given at most, the keys at these places are the first two
    (`TwoAreEnough`). The result is `KeysArePaired`.
  * MODE. For a channel, `HasRead` says that the groups cut off up to a place leave
    what reading the string up to there leaves (`Final`), although a group takes its
    letters in the order o, t, s, k and once: a group replaces what was said
    about its letters before (`ReadStep`, `GroupRead`). For a user, the scan has taken the
    letters up to a place, and its sign is the one in force there (`HasTaken`). Results:
    `ModesAreTaken` and `UserModesAreTaken`.

With these, every invariant and every action property of the passing runs is a
theorem, and so are the refinements. Only model-checked are the liveness properties
(`AcceptsAreServed`, `ClientsAreServed`, `CallsReturn`) and `ENABLED`, which the
prover does not reach.

## 5. What is not modelled

* Wording: the numeric replies (`Numerical_replies.hpp`), and what `PING`, `NAMES`,
  `LIST` and messages to a nickname reply. They change send buffers only, and no
  command reads those.
* The parsers of USER, PASS, KILL, INVITE and NOTICE, which cut at a blank as
  those modelled do, and upper case.
* The ban list of a channel (nothing adds to it), `addChannel` and
  `addClientToChannel` of class `Server` (no callers), `removeClientFromChannel`.
* Start-up, SIGINT and a failing `poll`. A failing `accept` is retried at once
  and assumed to succeed in the end: the loop stands still until then, as in
  `BlockedInAccept`.
* Messages longer than the 4096-byte buffer or with NUL bytes: `recv` then
  brings a part of the message, which `Send` covers as a piece.
* In `LagCompensation`: what parsing the valid records does. The class has no
  caller and no server thread exists to race with, so there is no behaviour of the
  program to model.
* Sizes: `_readbuf` and `_sendbuf` grow without bound; the models stop at a bound.
  `splitMessage` keeps a position in an `int`, which is that position as long as a
  buffer has less than 2^31 characters, and texts are taken to be shorter.
* `src/ref/lockstep_ref` (a template that is not built into the server) and the test
  clients (interactive programs that never send PASS; the remote ends of
  `ServerLoop` do all they do).

## 6. Plan

Done: all modules of section 2, with the proofs of section 4. What remains
possible:

1. MODE and TOPIC in `Replay`: the run would have to open and close a MODE line of
   `Channels` between two of its steps, and the state space of the run `replay` is
   near its limit already.
2. The remaining parsers in `CommandLine`.
