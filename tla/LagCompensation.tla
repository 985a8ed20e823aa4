--------------------------- MODULE LagCompensation ---------------------------
(***************************************************************************)
(* Class LagCompensation: a log of the recent messages of each client,     *)
(* shared by the threads that call processClientMessage (nothing in the    *)
(* repository calls it yet; the README gives each connection a thread).    *)
(*                                                                         *)
(* logClientMessage, clearOldRecords (which it calls) and getValidMessages *)
(* each guard themselves with a futex: an atomic that is static in the     *)
(* function, so each of the three has a lock of its own. A thread may      *)
(* therefore read the records of a client while another one adds to them   *)
(* or drops some.                                                          *)
(*                                                                         *)
(* There are two builds: on Linux the futex of a function is the queue its *)
(* threads sleep in; elsewhere a mutex and one condition variable, shared  *)
(* by the three functions, stand in for it.                                *)
(*                                                                         *)
(* Time is counted in ticks; a thread logs one record by call, and what    *)
(* the parsing of the valid records does to the server is not part of this *)
(* module.                                                                 *)
(***************************************************************************)
EXTENDS Naturals, Sequences, FiniteSets

CONSTANTS
  Threads,
  ClientOf,  \* the client each thread calls processClientMessage for
  Fds,       \* the clients
  Builds,    \* the builds looked at: subset of {"futex", "pthread"}
  ValidAge,  \* ticks in the 0.2 seconds in which a record is valid
  KeepAge,   \* ticks in the second after which a record is dropped
  MaxTime,   \* bound on the clock
  MaxLog     \* bound on the records of a client

ASSUME LagAssumption ==
  /\ ClientOf \in [Threads -> Fds]
  /\ Builds \subseteq {"futex", "pthread"}
  /\ ValidAge \in Nat /\ KeepAge \in Nat /\ ValidAge <= KeepAge
  /\ MaxTime \in Nat /\ MaxLog \in Nat

Functions == {"log", "clear", "get"}

\* TickRecord: the call stands for its message.
Records == [by : Threads, stamp : 0 .. MaxTime]

\* A call of getValidMessages: its current_time, the records its iterator has
\* before it, those it found valid, and whether they were changed meanwhile.
Reads ==
  [now : 0 .. MaxTime, ahead : Seq(Records), valid : SUBSET Records, torn : BOOLEAN]

NoRead == [now |-> 0, ahead |-> <<>>, valid |-> {}, torn |-> FALSE]

VARIABLES
  build,         \* the build (it never changes)
  clock,         \* steady_clock
  futex,         \* futex_var of each function
  message_logs,  \* the records of each client, oldest first
  timestamp,     \* what a thread dated its record with, until its call ends
  read,          \* the read of a thread that is reading, or NoRead
  fn, at         \* the innermost function of a thread, and where it is in it

dataVars == <<build, clock, message_logs, timestamp, read>>
lagVars == <<build, clock, futex, message_logs, timestamp, read, fn, at>>

(***************************************************************************)
(* "idle" outside of processClientMessage; "try" before exchange(1);       *)
(* "wait" before the test of futex_wait, and "asleep" in the system call   *)
(* or in pthread_cond_wait; "in" between the acquisition and the release   *)
(* of the lock, "read" in the loop of getValidMessages; "leave" before     *)
(* store(0); "wake" before futex_wake. A thread in clear holds the lock of *)
(* log.                                                                    *)
(***************************************************************************)
Places == {"idle", "try", "wait", "asleep", "in", "read", "leave", "wake"}

LagTypeOK ==
  /\ build \in Builds
  /\ clock \in 0 .. MaxTime
  /\ futex \in [Functions -> {0, 1}]
  /\ message_logs \in [Fds -> Seq(Records)]
  /\ timestamp \in [Threads -> 0 .. MaxTime]
  /\ read \in [Threads -> Reads]
  /\ fn \in [Threads -> Functions]
  /\ at \in [Threads -> Places]

LagInit ==
  /\ build \in Builds
  /\ clock = 0
  /\ futex = [f \in Functions |-> 0]
  /\ message_logs = [fd \in Fds |-> <<>>]
  /\ timestamp = [t \in Threads |-> 0]
  /\ read = [t \in Threads |-> NoRead]
  /\ fn = [t \in Threads |-> "log"]
  /\ at = [t \in Threads |-> "idle"]

Tick ==
  /\ clock < MaxTime
  /\ clock' = clock + 1
  /\ UNCHANGED <<build, futex, message_logs, timestamp, read, fn, at>>

At(t, place) == at[t] = place

Go(t, place) == at' = [at EXCEPT ![t] = place] /\ UNCHANGED fn

Enter(t, f, place) ==
  at' = [at EXCEPT ![t] = place] /\ fn' = [fn EXCEPT ![t] = f]

----------------------------------------------------------------------------
(* The lock of each function *)

\* Mutant: the atomic is read, then written.
MutantExchange(t) ==
  /\ At(t, "try")
  /\ futex' = [futex EXCEPT ![fn[t]] = 1]
  /\ Go(t, "in")
  /\ UNCHANGED dataVars

\* Mutant: the waiters are counted.
MutantCount(t) ==
  /\ At(t, "try")
  /\ futex' = [futex EXCEPT ![fn[t]] = @ + 1]
  /\ Go(t, IF futex[fn[t]] = 0 THEN "in" ELSE "wait")
  /\ UNCHANGED dataVars

\* futex_var.exchange(1)
Exchange(t) ==
  /\ At(t, "try")
  /\ futex' = [futex EXCEPT ![fn[t]] = 1]
  /\ Go(t, IF futex[fn[t]] = 0 THEN "in" ELSE "wait")
  /\ UNCHANGED dataVars

\* Mutant: futex_wait sleeps whatever the value.
MutantFutexWait(t) ==
  /\ At(t, "wait")
  /\ Go(t, "asleep")
  /\ UNCHANGED <<futex, dataVars>>

\* FUTEX_WAIT, or the loop around pthread_cond_wait, sleeps only if the value
\* still is the expected 1.
FutexWait(t) ==
  /\ At(t, "wait")
  /\ Go(t, IF futex[fn[t]] = 1 THEN "asleep" ELSE "try")
  /\ UNCHANGED <<futex, dataVars>>

\* A woken thread leaves FUTEX_WAIT for the next exchange; pthread_cond_wait
\* returns to the test of its loop.
Woken == IF build = "futex" THEN "try" ELSE "wait"

\* FUTEX_WAIT also returns when a signal interrupts it, pthread_cond_wait
\* whenever it pleases.
Interrupt(t) ==
  /\ At(t, "asleep")
  /\ Go(t, Woken)
  /\ UNCHANGED <<futex, dataVars>>

\* Mutant: getValidMessages returns with its lock.
MutantStore(t) ==
  /\ At(t, "leave")
  /\ futex' = IF fn[t] = "get" THEN futex ELSE [futex EXCEPT ![fn[t]] = 0]
  /\ Go(t, "wake")
  /\ UNCHANGED dataVars

Store(t) ==
  /\ At(t, "leave")
  /\ futex' = [futex EXCEPT ![fn[t]] = 0]
  /\ Go(t, "wake")
  /\ UNCHANGED dataVars

Asleep(f) == {t \in Threads : fn[t] = f /\ At(t, "asleep")}

\* Those the release of fn[t] may wake: all that sleep, when the condition
\* variable is shared.
Wakeable(t) ==
  IF build = "futex" THEN Asleep(fn[t]) ELSE {u \in Threads : At(u, "asleep")}

\* After futex_wake, clear returns to log, log to processClientMessage, which
\* calls get; parsing the records get returns ends the call.
After(t) ==
  CASE fn[t] = "clear" -> [fn |-> "log", at |-> "leave"]
    [] fn[t] = "log"   -> [fn |-> "get", at |-> "try"]
    [] fn[t] = "get"   -> [fn |-> "log", at |-> "idle"]

\* futex_wake wakes one of the threads it may wake, if any.
FutexWake(t) ==
  /\ At(t, "wake")
  /\ fn' = [fn EXCEPT ![t] = After(t).fn]
  /\ timestamp' = IF fn[t] = "get" THEN [timestamp EXCEPT ![t] = 0] ELSE timestamp
  /\ \/ /\ Wakeable(t) = {}
        /\ at' = [at EXCEPT ![t] = After(t).at]
     \/ \E w \in Wakeable(t) :
          at' = [at EXCEPT ![t] = After(t).at, ![w] = Woken]
  /\ UNCHANGED <<build, clock, message_logs, read, futex>>

----------------------------------------------------------------------------
(* The three functions *)

Calling(fd) == {t \in Threads : ClientOf[t] = fd /\ ~At(t, "idle")}

Call(t) ==
  /\ At(t, "idle")
  /\ Len(message_logs[ClientOf[t]]) + Cardinality(Calling(ClientOf[t])) < MaxLog
  /\ Enter(t, "log", "try")
  /\ UNCHANGED <<futex, dataVars>>

\* The threads in the loop of getValidMessages, and their reads once those of
\* some of them are torn: what they find from then on is undefined.
Readers == {t \in Threads : At(t, "read")}

Torn(readers) == [t \in Threads |-> [read[t] EXCEPT !.torn = @ \/ t \in readers]]

\* push_back() invalidates the iterators of those who read the same records.
ReadersOf(fd) == {t \in Readers : ClientOf[t] = fd}

\* Mutant: the newest record goes to the front.
MutantLog(t) ==
  /\ At(t, "in") /\ fn[t] = "log"
  /\ message_logs' = [message_logs EXCEPT ![ClientOf[t]] =
                        <<[by |-> t, stamp |-> clock]>> \o @]
  /\ timestamp' = [timestamp EXCEPT ![t] = clock]
  /\ read' = Torn(ReadersOf(ClientOf[t]))
  /\ Enter(t, "clear", "try")
  /\ UNCHANGED <<build, clock, futex>>

\* The record is dated under the lock, appended, and clearOldRecords called.
Log(t) ==
  /\ At(t, "in") /\ fn[t] = "log"
  /\ message_logs' = [message_logs EXCEPT ![ClientOf[t]] =
                        Append(@, [by |-> t, stamp |-> clock])]
  /\ timestamp' = [timestamp EXCEPT ![t] = clock]
  /\ read' = Torn(ReadersOf(ClientOf[t]))
  /\ Enter(t, "clear", "try")
  /\ UNCHANGED <<build, clock, futex>>

Old(r) == clock > r.stamp + KeepAge

\* Mutant: the whole queue goes when its front is old.
MutantPopped(s) == IF s # <<>> /\ Old(s[1]) THEN <<>> ELSE s

\* Records are popped from the front until one is young enough.
Popped(s) ==
  LET kept == CHOOSE i \in 1 .. Len(s) + 1 :
                /\ i <= Len(s) => ~Old(s[i])
                /\ \A j \in 1 .. i - 1 : Old(s[j])
  IN SubSeq(s, kept, Len(s))

\* pop_front() destroys records that some reader has before it.
Clear(t) ==
  /\ At(t, "in") /\ fn[t] = "clear"
  /\ message_logs' = [fd \in Fds |-> Popped(message_logs[fd])]
  /\ read' = Torn({u \in Readers :
                     Len(Popped(message_logs[ClientOf[u]])) < Len(read[u].ahead)})
  /\ Go(t, "leave")
  /\ UNCHANGED <<build, clock, timestamp, futex>>

Writing(t) == At(t, "in") /\ fn[t] # "get"

\* The time is taken, the client looked up (as some other thread may be about
\* to change the map or the records), and the loop entered.
GetBegin(t) ==
  /\ At(t, "in") /\ fn[t] = "get"
  /\ read' = [read EXCEPT ![t] =
                [now |-> clock, ahead |-> message_logs[ClientOf[t]], valid |-> {},
                 torn |-> \E u \in Threads : Writing(u)]]
  /\ Go(t, "read")
  /\ UNCHANGED <<build, clock, message_logs, timestamp, futex>>

Valid(r, now) == now < r.stamp + ValidAge

\* A turn of the loop copies a record that is valid. A torn read may miss it.
GetRecord(t) ==
  /\ At(t, "read")
  /\ read[t].ahead # <<>>
  /\ LET r == Head(read[t].ahead)
         found == IF Valid(r, read[t].now) THEN read[t].valid \cup {r} ELSE read[t].valid
     IN \E copied \in {found} \cup IF read[t].torn THEN {read[t].valid} ELSE {} :
          read' = [read EXCEPT ![t].ahead = Tail(@), ![t].valid = copied]
  /\ UNCHANGED <<build, clock, message_logs, timestamp, futex, fn, at>>

\* The valid records are returned, and then parsed.
GetReturn(t) ==
  /\ At(t, "read")
  /\ read[t].ahead = <<>>
  /\ read' = [read EXCEPT ![t] = NoRead]
  /\ Go(t, "leave")
  /\ UNCHANGED <<build, clock, message_logs, timestamp, futex>>

Step(t) ==
  \/ Exchange(t) \/ FutexWait(t) \/ Store(t) \/ FutexWake(t)
  \/ Log(t) \/ Clear(t) \/ GetBegin(t) \/ GetRecord(t) \/ GetReturn(t)

\* When the bounds are used up, threads may rest outside of the functions:
\* to stop anywhere else is a deadlock.
Rest == (\A t \in Threads : At(t, "idle")) /\ UNCHANGED lagVars

LagNext ==
  \/ Tick
  \/ \E t \in Threads : Call(t) \/ Step(t) \/ Interrupt(t)
  \/ Rest

LagSpec == LagInit /\ [][LagNext]_lagVars

\* The scheduler lets every thread that is in the functions go on.
FairLagSpec == LagSpec /\ \A t \in Threads : WF_lagVars(Step(t))

----------------------------------------------------------------------------
(* Properties *)

Holds(t, f) ==
  \/ fn[t] = f /\ at[t] \in {"in", "read", "leave"}
  \/ f = "log" /\ fn[t] = "clear"

\* Each function is executed by one thread at a time; clearOldRecords, called
\* with the lock of logClientMessage, therefore never waits for its own.
OneAtATime ==
  /\ \A f \in Functions, t, u \in Threads : Holds(t, f) /\ Holds(u, f) => t = u
  /\ \A t \in Threads : fn[t] = "clear" => at[t] \notin {"wait", "asleep"}

\* No wake-up is lost: while a thread sleeps on a lock, some other thread
\* holds it, is about to wake a sleeper, or is about to try it. With a
\* condition variable for the three locks, the wake-up may have gone to a
\* thread of another function; then somebody is in the functions still, and
\* will wake a thread on the way out.
NoLostWakeup ==
  \A f \in Functions :
    Asleep(f) # {} =>
      /\ \E t \in Threads : at[t] \notin {"idle", "asleep"}
      /\ build = "futex" =>
           \E t \in Threads : \/ Holds(t, f)
                              \/ fn[t] = f /\ at[t] \in {"wake", "try", "wait"}

\* The records of a client are in the order of their timestamps.
LogsAreOrdered ==
  \A fd \in Fds : \A i, j \in DOMAIN message_logs[fd] :
    i < j => message_logs[fd][i].stamp <= message_logs[fd][j].stamp

\* clearOldRecords leaves no record older than KeepAge, although it stops at
\* the first one that is young enough.
ClearIsComplete ==
  [][\A t \in Threads : Clear(t) =>
       \A fd \in Fds : \A i \in DOMAIN message_logs'[fd] : ~Old(message_logs'[fd][i])]_lagVars

Own(t) == [by |-> t, stamp |-> timestamp[t]]

\* Among the records a call parses is its own, if it was valid when the call
\* began to read: whatever other threads log and drop until then, and unless
\* they change the records of the client while they are read.
OwnMessageIsParsed ==
  [][\A t \in Threads :
       GetReturn(t) /\ ~read[t].torn /\ Valid(Own(t), read[t].now)
       => Own(t) \in read[t].valid]_lagVars

\* Every call returns: no thread is left asleep or waiting for a lock that is
\* never released. (The calls of a run are finitely many. With calls without
\* end a thread may be overtaken for ever.)
CallsReturn == \A t \in Threads : ~At(t, "idle") ~> At(t, "idle")

----------------------------------------------------------------------------
(* What documentation says and the code does not do *)

\* "Logs client messages with futex/mutex synchronization": a thread is alone
\* when it reads or writes message_logs.
LogsAreGuarded ==
  \A t, u \in Threads : at[t] \in {"in", "read"} /\ at[u] \in {"in", "read"} => t = u
=============================================================================
