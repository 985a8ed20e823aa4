----------------------- MODULE LagCompensationProofs -----------------------
(***************************************************************************)
(* Proofs about module LagCompensation, for every set of threads and both  *)
(* builds. OneAtATime is not inductive: what makes it so is that a futex   *)
(* is 1 exactly while some thread holds its lock (FutexIsHeld). The        *)
(* records play no part in what the locks do: RecordInv says what the logs *)
(* hold, and ReadInv what a read has found or has yet to find.             *)
(***************************************************************************)
EXTENDS LagCompensation, NaturalsLemmas, SequenceTheorems, TLAPS

LockTypes ==
  /\ futex \in [Functions -> {0, 1}]
  /\ fn \in [Threads -> Functions]
  /\ at \in [Threads -> Places]
  /\ \A t \in Threads : at[t] = "idle" => fn[t] = "log"
  /\ \A t \in Threads : at[t] = "read" => fn[t] = "get"

FutexIsHeld ==
  \A f \in Functions : futex[f] = 1 <=> \E t \in Threads : Holds(t, f)

LockInv == LockTypes /\ FutexIsHeld /\ OneAtATime

\* The locks are free and nobody is in a function at first.
LEMMA LockInit == LagInit => LockInv
  BY DEF LagInit, LockInv, LockTypes, FutexIsHeld, OneAtATime, Holds, Functions, Places

\* A step that moves one thread without changing what it holds, nor any lock.
LEMMA SameHolders ==
  ASSUME LockInv, NEW t \in Threads, fn' \in [Threads -> Functions],
         at' \in [Threads -> Places], futex' = futex,
         \A u \in Threads \ {t} : fn'[u] = fn[u] /\ at'[u] = at[u],
         \A f \in Functions : Holds(t, f)' <=> Holds(t, f),
         fn'[t] = "clear" => at'[t] \notin {"wait", "asleep"},
         at'[t] = "idle" => fn'[t] = "log", at'[t] = "read" => fn'[t] = "get"
  PROVE  LockInv'
<1>1. \A u \in Threads, f \in Functions : Holds(u, f)' <=> Holds(u, f)
  BY DEF Holds
<1>2. FutexIsHeld'
  BY <1>1 DEF LockInv, FutexIsHeld
<1>3. OneAtATime'
  BY <1>1 DEF LockInv, OneAtATime
<1> QED
  BY <1>2, <1>3 DEF LockInv, LockTypes

\* exchange() returns 0 to the thread that takes the lock, 1 to one that is
\* not in clear: who is in clear owns the lock of log, hence that of clear is
\* free.
LEMMA ExchangeLemma ==
  ASSUME LockInv, NEW t \in Threads, Exchange(t)
  PROVE  LockInv'
<1> DEFINE f == fn[t]
<1>0. /\ f \in Functions /\ at[t] = "try" /\ ~Holds(t, f)
      /\ futex' = [futex EXCEPT ![f] = 1] /\ fn' = fn
      /\ at' = [at EXCEPT ![t] = IF futex[f] = 0 THEN "in" ELSE "wait"]
      /\ LockTypes
  BY DEF Exchange, At, Go, LockInv, LockTypes, Holds
<1>1. LockTypes'
  BY <1>0 DEF LockTypes, Places
<1>2. CASE futex[f] = 0
  <2>1. \A u \in Threads : ~Holds(u, f)
    BY <1>0, <1>2 DEF LockInv, FutexIsHeld
  <2>2. \A u \in Threads, g \in Functions :
          Holds(u, g)' <=> Holds(u, g) \/ (u = t /\ g = f)
    BY <1>0, <1>2 DEF Holds, LockTypes
  <2>3. FutexIsHeld'
    BY <1>0, <2>1, <2>2 DEF LockInv, FutexIsHeld, LockTypes
  <2>4. OneAtATime'
    BY <1>0, <1>2, <2>1, <2>2 DEF LockInv, OneAtATime, LockTypes
  <2> QED
    BY <1>1, <2>3, <2>4 DEF LockInv
<1>3. CASE futex[f] # 0
  <2>1. futex' = futex
    BY <1>0, <1>3 DEF LockTypes
  <2>2. PICK h \in Threads : Holds(h, f)
    BY <1>0, <1>3 DEF LockInv, LockTypes, FutexIsHeld
  <2>3. f # "clear"
    BY <1>0, <2>2 DEF LockInv, OneAtATime, Holds, Functions
  <2>4. \A g \in Functions : Holds(t, g)' <=> Holds(t, g)
    BY <1>0, <1>3, <2>3 DEF Holds, LockTypes
  <2> QED
    BY <1>0, <1>1, <1>3, <2>1, <2>3, <2>4, SameHolders DEF LockTypes
<1> QED
  BY <1>2, <1>3

\* store(0) releases the one lock its thread holds.
LEMMA StoreLemma ==
  ASSUME LockInv, NEW t \in Threads, Store(t)
  PROVE  LockInv'
<1> DEFINE f == fn[t]
<1>0. /\ f \in Functions /\ at[t] = "leave" /\ Holds(t, f)
      /\ futex' = [futex EXCEPT ![f] = 0] /\ fn' = fn
      /\ at' = [at EXCEPT ![t] = "wake"]
      /\ LockTypes
  BY DEF Store, At, Go, LockInv, LockTypes, Holds
<1>1. LockTypes'
  BY <1>0 DEF LockTypes, Places
<1>2. \A u \in Threads : Holds(u, f) => u = t
  BY <1>0 DEF LockInv, OneAtATime
<1>3. \A u \in Threads, g \in Functions : Holds(u, g)' <=> Holds(u, g) /\ g # f
  BY <1>0, <1>2 DEF Holds, LockTypes
<1>4. FutexIsHeld'
  BY <1>0, <1>3 DEF LockInv, FutexIsHeld, LockTypes
<1>5. OneAtATime'
  BY <1>0, <1>3 DEF LockInv, OneAtATime, LockTypes
<1> QED
  BY <1>1, <1>4, <1>5 DEF LockInv

\* Who wakes a thread moves on without its lock, and the woken one tries.
LEMMA WakeLemma ==
  ASSUME LockInv, NEW t \in Threads, FutexWake(t)
  PROVE  LockInv'
<1>0. /\ fn[t] \in Functions /\ at[t] = "wake" /\ futex' = futex
      /\ fn' = [fn EXCEPT ![t] = After(t).fn]
      /\ LockTypes
  BY DEF FutexWake, At, LockInv, LockTypes
<1>1. /\ After(t).fn \in Functions \ {"clear"}
      /\ After(t).at \in {"leave", "try", "idle"}
      /\ After(t).at = "leave" <=> fn[t] = "clear"
      /\ After(t).at = "idle" => After(t).fn = "log"
      /\ fn[t] = "clear" => After(t).fn = "log"
  BY <1>0 DEF After, Functions
<1>2. \/ at' = [at EXCEPT ![t] = After(t).at]
      \/ \E w \in Wakeable(t) : at' = [at EXCEPT ![t] = After(t).at, ![w] = Woken]
  BY DEF FutexWake
<1>3. \A f \in Functions : Holds(t, f) <=> f = "log" /\ fn[t] = "clear"
  BY <1>0 DEF Holds, Functions
<1> HIDE DEF After
<1>4. CASE at' = [at EXCEPT ![t] = After(t).at]
  <2>1. LockTypes'
    BY <1>0, <1>1, <1>4 DEF LockTypes, Places
  <2>2. \A f \in Functions : Holds(t, f)' <=> Holds(t, f)
    BY <1>0, <1>1, <1>3, <1>4 DEF Holds, LockTypes
  <2> QED
    BY <1>0, <1>1, <1>4, <2>1, <2>2, SameHolders DEF LockTypes
<1>5. CASE \E w \in Wakeable(t) : at' = [at EXCEPT ![t] = After(t).at, ![w] = Woken]
  <2> PICK w \in Wakeable(t) : at' = [at EXCEPT ![t] = After(t).at, ![w] = Woken]
    BY <1>5
  <2>0. Woken \in {"try", "wait"}
    BY DEF Woken
  <2> HIDE DEF Woken
  <2>1. w \in Threads /\ at[w] = "asleep" /\ w # t
    BY <1>0 DEF Wakeable, Asleep, At
  <2>2. fn[w] # "clear"
    BY <2>1 DEF LockInv, OneAtATime
  <2>3. LockTypes'
    BY <1>0, <1>1, <2>0, <2>1 DEF LockTypes, Places
  <2>4. \A u \in Threads, f \in Functions : Holds(u, f)' <=> Holds(u, f)
    <3> TAKE u \in Threads, f \in Functions
    <3>1. CASE u = t
      BY <1>0, <1>1, <1>3, <2>1, <3>1 DEF Holds, LockTypes
    <3>2. CASE u = w
      BY <1>0, <2>0, <2>1, <2>2, <3>2 DEF Holds, LockTypes
    <3>3. CASE u # t /\ u # w
      BY <1>0, <3>3 DEF Holds, LockTypes
    <3> QED
      BY <3>1, <3>2, <3>3
  <2>5. FutexIsHeld'
    BY <1>0, <2>4 DEF LockInv, FutexIsHeld
  <2>6. \A u \in Threads : fn'[u] = "clear" => at'[u] \notin {"wait", "asleep"}
    BY <1>0, <1>1, <2>1, <2>2 DEF LockInv, OneAtATime, LockTypes
  <2>7. OneAtATime'
    BY <2>4, <2>6 DEF LockInv, OneAtATime
  <2> QED
    BY <2>3, <2>5, <2>7 DEF LockInv
<1> QED
  BY <1>2, <1>4, <1>5

\* The invariant of the locks is inductive.
LEMMA LockNext == LockInv /\ [LagNext]_lagVars => LockInv'
<1> SUFFICES ASSUME LockInv, [LagNext]_lagVars PROVE LockInv'
  OBVIOUS
<1>0. LockTypes
  BY DEF LockInv
<1>1. ASSUME UNCHANGED <<futex, fn, at>> PROVE LockInv'
  BY <1>1 DEF LockInv, LockTypes, FutexIsHeld, OneAtATime, Holds
<1>2. CASE Tick \/ Rest \/ UNCHANGED lagVars
  BY <1>1, <1>2 DEF Tick, Rest, lagVars
<1>3. ASSUME NEW t \in Threads, Call(t) \/ Interrupt(t) \/ FutexWait(t)
      PROVE  LockInv'
  <2>1. /\ futex' = futex /\ fn' = fn
        /\ at[t] \in {"idle", "asleep", "wait"}
        /\ \E p \in {"try", "wait", "asleep"} : at' = [at EXCEPT ![t] = p]
    BY <1>0, <1>3 DEF Call, Interrupt, FutexWait, Woken, Enter, Go, At, LockTypes
  <2>2. PICK p \in {"try", "wait", "asleep"} : at' = [at EXCEPT ![t] = p]
    BY <2>1
  <2>3. fn[t] # "clear"
    BY <1>0, <2>1 DEF LockInv, OneAtATime, LockTypes
  <2>4. LockTypes'
    BY <1>0, <2>1, <2>2 DEF LockTypes, Places
  <2>5. \A f \in Functions : Holds(t, f)' <=> Holds(t, f)
    BY <1>0, <2>1, <2>2, <2>3 DEF LockTypes, Holds
  <2> QED
    BY <1>0, <2>1, <2>2, <2>3, <2>4, <2>5, SameHolders DEF LockTypes
<1>4. ASSUME NEW t \in Threads, Log(t) PROVE LockInv'
  <2>1. /\ futex' = futex /\ at[t] = "in" /\ fn[t] = "log"
        /\ fn' = [fn EXCEPT ![t] = "clear"] /\ at' = [at EXCEPT ![t] = "try"]
    BY <1>4 DEF Log, Enter, At
  <2> QED
    BY <1>0, <2>1, SameHolders DEF LockTypes, Places, Holds, Functions
<1>5. ASSUME NEW t \in Threads, Clear(t) \/ GetBegin(t) \/ GetReturn(t) PROVE LockInv'
  <2>1. /\ futex' = futex /\ fn' = fn
        /\ at[t] \in {"in", "read"}
        /\ \E p \in {"read", "leave"} :
             at' = [at EXCEPT ![t] = p] /\ (p = "read" => fn[t] = "get")
    BY <1>5 DEF Clear, GetBegin, GetReturn, Go, At
  <2> QED
    BY <1>0, <2>1, SameHolders DEF LockTypes, Places, Holds, Functions
<1>6. ASSUME NEW t \in Threads, GetRecord(t) PROVE LockInv'
  BY <1>1, <1>6 DEF GetRecord
<1> QED
  BY <1>2, <1>3, <1>4, <1>5, <1>6, ExchangeLemma, StoreLemma, WakeLemma DEF LagNext, Step

\* The invariant of the locks holds in every reachable state.
LEMMA LockInvHolds == LagSpec => []LockInv
  BY LockInit, LockNext, PTL DEF LagSpec

\* However many threads there are, each of the three functions is executed by
\* one at a time, and clearOldRecords is never waited for.
THEOREM FunctionsAreExclusive == LagSpec => []OneAtATime
  BY LockInvHolds, PTL DEF LockInv
----------------------------------------------------------------------------
(* No wake-up is lost *)

\* Thread t will see to the sleepers of f.
Ready(t, f) == Holds(t, f) \/ (fn[t] = f /\ at[t] \in {"wake", "try", "wait"})

SleepersAreSeen ==
  \A f \in Functions : Asleep(f) # {} => \E t \in Threads : Ready(t, f)

\* A step of one thread that goes on seeing to them, and puts nobody to sleep.
LEMMA StaysReady ==
  ASSUME SleepersAreSeen, NEW t \in Threads,
         \A u \in Threads \ {t} : fn'[u] = fn[u] /\ at'[u] = at[u],
         at'[t] # "asleep",
         \A f \in Functions : Ready(t, f) => Ready(t, f)'
  PROVE  SleepersAreSeen'
<1> SUFFICES ASSUME NEW f \in Functions, Asleep(f)' # {}
             PROVE  \E u \in Threads : Ready(u, f)'
  BY DEF SleepersAreSeen
<1>1. Asleep(f) # {}
  BY DEF Asleep, At
<1>2. PICK u \in Threads : Ready(u, f)
  BY <1>1 DEF SleepersAreSeen
<1>3. CASE u = t
  BY <1>2, <1>3
<1>4. CASE u # t
  BY <1>2, <1>4 DEF Ready, Holds
<1> QED
  BY <1>3, <1>4

\* Who goes to sleep found the futex at 1: some other thread holds the lock.
LEMMA SleeperHasHolder ==
  ASSUME LockInv, SleepersAreSeen, NEW t \in Threads, FutexWait(t), futex[fn[t]] = 1
  PROVE  SleepersAreSeen'
<1>0. /\ at[t] = "wait" /\ fn' = fn /\ at' = [at EXCEPT ![t] = "asleep"]
      /\ fn[t] \in Functions /\ fn[t] # "clear" /\ LockTypes
  BY DEF FutexWait, Go, At, LockInv, LockTypes, OneAtATime
<1> SUFFICES ASSUME NEW f \in Functions, Asleep(f)' # {}
             PROVE  \E u \in Threads : Ready(u, f)'
  BY DEF SleepersAreSeen
<1>1. CASE f = fn[t]
  <2>1. PICK h \in Threads : Holds(h, f)
    BY <1>0, <1>1 DEF LockInv, FutexIsHeld
  <2>2. h # t
    BY <1>0, <2>1 DEF Holds
  <2> QED
    BY <1>0, <2>1, <2>2 DEF Ready, Holds, LockTypes
<1>2. CASE f # fn[t]
  <2>1. Asleep(f) # {} /\ ~Ready(t, f)
    BY <1>0, <1>2 DEF Asleep, At, Ready, Holds, LockTypes
  <2>2. PICK u \in Threads : Ready(u, f)
    BY <2>1 DEF SleepersAreSeen
  <2> QED
    BY <1>0, <2>1, <2>2 DEF Ready, Holds, LockTypes
<1> QED
  BY <1>1, <1>2

\* A wake leaves no sleeper, or a woken thread that sees to the others.
LEMMA WakeSeesToSleepers ==
  ASSUME build = "futex", LockInv, SleepersAreSeen, NEW t \in Threads, FutexWake(t)
  PROVE  SleepersAreSeen'
<1>0. /\ at[t] = "wake" /\ fn[t] \in Functions /\ LockTypes
      /\ fn' = [fn EXCEPT ![t] = After(t).fn]
  BY DEF FutexWake, At, LockInv, LockTypes
<1>1. /\ After(t).at \in {"leave", "try", "idle"}
      /\ fn[t] = "clear" => After(t).fn = "log" /\ After(t).at = "leave"
  BY <1>0 DEF After, Functions
<1>2. \/ Asleep(fn[t]) = {} /\ at' = [at EXCEPT ![t] = After(t).at]
      \/ \E w \in Asleep(fn[t]) : at' = [at EXCEPT ![t] = After(t).at, ![w] = "try"]
  BY DEF FutexWake, Wakeable, Woken
<1>3. \A u \in Threads \ {t} :
        fn'[u] = fn[u] /\ (at'[u] = at[u] \/ (at'[u] = "try" /\ u \in Asleep(fn[t])))
  BY <1>0, <1>2 DEF LockTypes, Asleep
<1>4. at'[t] # "asleep"
  BY <1>0, <1>1, <1>2 DEF LockTypes, Asleep, At
<1> SUFFICES ASSUME NEW f \in Functions, Asleep(f)' # {}
             PROVE  \E u \in Threads : Ready(u, f)'
  BY DEF SleepersAreSeen
<1>5. PICK s \in Threads : fn[s] = f /\ at[s] = "asleep" /\ s # t /\ at'[s] = "asleep"
  BY <1>0, <1>3, <1>4 DEF Asleep, At
<1>6. CASE f = fn[t]
  <2> PICK w \in Asleep(fn[t]) : at' = [at EXCEPT ![t] = After(t).at, ![w] = "try"]
    BY <1>2, <1>5, <1>6 DEF Asleep, At
  <2>1. w \in Threads /\ w # t /\ fn'[w] = f /\ at'[w] = "try"
    BY <1>0, <1>6 DEF Asleep, At, LockTypes
  <2> QED
    BY <2>1 DEF Ready
<1>7. CASE f # fn[t]
  <2>1. PICK u \in Threads : Ready(u, f)
    BY <1>5 DEF SleepersAreSeen, Asleep, At
  <2>2. CASE u = t
    <3>1. f = "log" /\ fn[t] = "clear"
      BY <1>0, <1>7, <2>1, <2>2 DEF Ready, Holds
    <3>2. fn'[t] = "log" /\ at'[t] = "leave"
      BY <1>0, <1>1, <1>2, <3>1 DEF LockTypes, Asleep, At
    <3> QED
      BY <3>1, <3>2 DEF Ready, Holds
  <2>3. CASE u # t
    <3>1. at'[u] = at[u]
      BY <1>3, <1>7, <2>1, <2>3 DEF Ready, Holds, Asleep, At, LockInv, OneAtATime
    <3> QED
      BY <1>3, <2>1, <2>3, <3>1 DEF Ready, Holds
  <2> QED
    BY <2>2, <2>3
<1> QED
  BY <1>6, <1>7

\* With a queue of sleepers by lock, no step loses a wake-up.
LEMMA SeenNext ==
  build = "futex" /\ LockInv /\ SleepersAreSeen /\ [LagNext]_lagVars => SleepersAreSeen'
<1> SUFFICES ASSUME build = "futex", LockInv, SleepersAreSeen, [LagNext]_lagVars PROVE SleepersAreSeen'
  OBVIOUS
<1>0. LockTypes
  BY DEF LockInv
<1>1. CASE Tick \/ Rest \/ UNCHANGED lagVars
  BY <1>1 DEF Tick, Rest, lagVars, SleepersAreSeen, Ready, Asleep, At, Holds
<1>2. ASSUME NEW t \in Threads, FutexWait(t) PROVE SleepersAreSeen'
  <2>1. CASE futex[fn[t]] = 1
    BY <1>2, <2>1, SleeperHasHolder
  <2>2. CASE futex[fn[t]] # 1
    <3>1. at[t] = "wait" /\ fn' = fn /\ at' = [at EXCEPT ![t] = "try"]
      BY <1>2, <2>2 DEF FutexWait, Go, At
    <3> QED
      BY <1>0, <3>1, StaysReady DEF LockTypes, Ready, Holds
  <2> QED
    BY <2>1, <2>2
<1>3. ASSUME NEW t \in Threads,
             Exchange(t) \/ Store(t) \/ Clear(t) \/ GetBegin(t) \/ GetReturn(t)
      PROVE  SleepersAreSeen'
  <2>1. /\ fn' = fn
        /\ \/ at[t] = "try" /\ \E p \in {"in", "wait"} : at' = [at EXCEPT ![t] = p]
           \/ at[t] = "leave" /\ at' = [at EXCEPT ![t] = "wake"]
           \/ /\ at[t] \in {"in", "read"}
              /\ \E p \in {"read", "leave"} : at' = [at EXCEPT ![t] = p]
    BY <1>3 DEF Exchange, Store, Clear, GetBegin, GetReturn, Go, At
  <2> QED
    BY <1>0, <2>1, StaysReady DEF LockTypes, Ready, Holds
<1>4. ASSUME NEW t \in Threads, Log(t) PROVE SleepersAreSeen'
  <2>1. /\ at[t] = "in" /\ fn[t] = "log"
        /\ fn' = [fn EXCEPT ![t] = "clear"] /\ at' = [at EXCEPT ![t] = "try"]
    BY <1>4 DEF Log, Enter, At
  <2> QED
    BY <1>0, <2>1, StaysReady DEF LockTypes, Ready, Holds
<1>5. ASSUME NEW t \in Threads, Call(t) \/ Interrupt(t) PROVE SleepersAreSeen'
  <2>1. /\ fn' = fn /\ fn[t] # "clear"
        /\ at[t] \in {"idle", "asleep"} /\ at' = [at EXCEPT ![t] = "try"]
    BY <1>0, <1>5 DEF Call, Interrupt, Woken, Enter, Go, At, LockTypes, LockInv, OneAtATime
  <2> QED
    BY <1>0, <2>1, StaysReady DEF LockTypes, Ready, Holds
<1>6. ASSUME NEW t \in Threads, GetRecord(t) PROVE SleepersAreSeen'
  BY <1>6 DEF GetRecord, SleepersAreSeen, Ready, Asleep, At, Holds
<1> QED
  BY <1>1, <1>2, <1>3, <1>4, <1>5, <1>6, WakeSeesToSleepers DEF LagNext, Step

\* Elsewhere the sleepers of the three functions are in one queue, and somebody
\* is awake in the functions while there are any.
Active(t) == at[t] \notin {"idle", "asleep"}

SomeoneIsAwake ==
  (\E t \in Threads : at[t] = "asleep") => \E t \in Threads : Active(t)

\* Who goes to sleep leaves the holder of the lock awake, and who leaves wakes
\* a sleeper if there is one.
LEMMA AwakeNext ==
  build # "futex" /\ LockInv /\ SomeoneIsAwake /\ [LagNext]_lagVars => SomeoneIsAwake'
<1> SUFFICES ASSUME build # "futex", LockInv, SomeoneIsAwake, [LagNext]_lagVars,
                    NEW s \in Threads, at'[s] = "asleep"
             PROVE  \E t \in Threads : Active(t)'
  BY DEF SomeoneIsAwake
<1>0. LockTypes
  BY DEF LockInv
<1>1. CASE Tick \/ Rest \/ UNCHANGED lagVars
  BY <1>1 DEF Tick, Rest, lagVars, SomeoneIsAwake, Active
<1>2. ASSUME NEW t \in Threads, FutexWait(t), at'[t] = "asleep"
      PROVE  \E h \in Threads : Active(h)'
  <2>1. at[t] = "wait" /\ futex[fn[t]] = 1 /\ at' = [at EXCEPT ![t] = "asleep"]
    BY <1>0, <1>2 DEF FutexWait, Go, At, LockTypes
  <2>2. PICK h \in Threads : Holds(h, fn[t])
    BY <1>0, <2>1 DEF LockInv, FutexIsHeld, LockTypes
  <2>3. h # t
    BY <2>1, <2>2 DEF Holds, LockInv, OneAtATime
  <2>4. at[h] \notin {"idle", "asleep"}
    BY <1>0, <2>2 DEF Holds, LockInv, LockTypes, OneAtATime
  <2> QED
    BY <1>0, <2>1, <2>3, <2>4 DEF Active, LockTypes
<1>3. ASSUME NEW t \in Threads, FutexWake(t)
      PROVE  \E h \in Threads : Active(h)'
  <2>1. at[s] = "asleep" \/ s = t
    BY <1>0, <1>3 DEF FutexWake, Wakeable, Woken, LockTypes, At
  <2>2. at'[t] # "asleep"
    BY <1>0, <1>3 DEF FutexWake, Wakeable, Woken, After, LockTypes, At, Functions
  <2>3. Wakeable(t) # {}
    BY <2>1, <2>2 DEF Wakeable, At
  <2>4. PICK w \in Wakeable(t) : at' = [at EXCEPT ![t] = After(t).at, ![w] = Woken]
    BY <1>3, <2>3 DEF FutexWake
  <2>5. w \in Threads /\ at'[w] = "wait"
    BY <1>0, <2>4 DEF Wakeable, Woken, LockTypes
  <2> QED
    BY <2>5 DEF Active
<1>4. ASSUME NEW t \in Threads,
             \/ FutexWait(t) /\ at'[t] # "asleep"
             \/ Exchange(t) \/ Store(t) \/ Log(t) \/ Clear(t)
             \/ GetBegin(t) \/ GetReturn(t) \/ Call(t) \/ Interrupt(t)
      PROVE  \E h \in Threads : Active(h)'
  BY <1>0, <1>4 DEF FutexWait, Exchange, Store, Log, Clear, GetBegin, GetReturn, Call,
                    Interrupt, Woken, Go, Enter, At, LockTypes, Active
<1>5. ASSUME NEW t \in Threads, GetRecord(t) PROVE \E h \in Threads : Active(h)'
  BY <1>5 DEF GetRecord, At, Active
<1> QED
  BY <1>1, <1>2, <1>3, <1>4, <1>5 DEF LagNext, Step

WakeInv ==
  /\ build = "futex" => SleepersAreSeen
  /\ build # "futex" => SomeoneIsAwake

\* Nobody sleeps at first, and the build never changes.
LEMMA WakeInvHolds == LagSpec => []WakeInv
<1>1. LagInit => WakeInv
  BY DEF LagInit, WakeInv, SleepersAreSeen, SomeoneIsAwake, Asleep, At
<1>2. [LagNext]_lagVars => build' = build
  BY DEF LagNext, lagVars, Step, Rest, Tick, FutexWait, Exchange, Store, FutexWake,
         Log, Clear, GetBegin, GetRecord, GetReturn, Call, Interrupt, dataVars
<1>3. LockInv /\ WakeInv /\ [LagNext]_lagVars => WakeInv'
  BY <1>2, SeenNext, AwakeNext DEF WakeInv
<1> QED
  BY <1>1, <1>3, LockInvHolds, PTL DEF LagSpec

\* However many threads there are, none is left asleep on a free lock with
\* nobody on the way to wake it.
THEOREM WakeupsAreNotLost == LagSpec => []NoLostWakeup
<1>1. ASSUME LockInv, WakeInv PROVE NoLostWakeup
  <2>1. ASSUME NEW t \in Threads, NEW f \in Functions, Ready(t, f)
        PROVE  at[t] \notin {"idle", "asleep"}
    BY <1>1, <2>1 DEF Ready, Holds, LockInv, LockTypes, OneAtATime
  <2>2. CASE build = "futex"
    BY <1>1, <2>1, <2>2 DEF WakeInv, SleepersAreSeen, Ready, NoLostWakeup
  <2>3. CASE build # "futex"
    BY <1>1, <2>3 DEF WakeInv, SomeoneIsAwake, Active, Asleep, At, NoLostWakeup
  <2> QED
    BY <2>2, <2>3
<1> QED
  BY <1>1, LockInvHolds, WakeInvHolds, PTL

----------------------------------------------------------------------------
(* The records *)

\* The sequence s[k], s[k + 1], ... to the end.
From(s, k) == SubSeq(s, k, Len(s))

\* What clearOldRecords leaves of a queue: a suffix, whose first record is young
\* enough and before which all are old.
LEMMA PoppedIsSuffix ==
  ASSUME clock \in Nat, NEW s \in Seq(Records)
  PROVE  \E k \in 1 .. Len(s) + 1 :
           /\ Popped(s) = From(s, k)
           /\ k <= Len(s) => ~Old(s[k])
           /\ \A j \in 1 .. k - 1 : Old(s[j])
<1> DEFINE Kept(i) == /\ i <= Len(s) => ~Old(s[i])
                      /\ \A j \in 1 .. i - 1 : Old(s[j])
           T == {i \in 1 .. Len(s) + 1 : i <= Len(s) => ~Old(s[i])}
<1>1. Len(s) + 1 \in T /\ T \in SUBSET Nat
  BY LenProperties
<1>2. PICK k \in T : \A y \in T : k <= y
  BY <1>1, LeastElement
<1>3. \A j \in 1 .. k - 1 : Old(s[j])
  BY <1>1, <1>2, LenProperties
<1>4. \E i \in 1 .. Len(s) + 1 : Kept(i)
  BY <1>2, <1>3
<1>5. Popped(s) = From(s, CHOOSE i \in 1 .. Len(s) + 1 : Kept(i))
  BY DEF Popped, From
<1> HIDE DEF Kept
<1>6. PICK c : c = (CHOOSE i \in 1 .. Len(s) + 1 : Kept(i))
  OBVIOUS
<1>7. c \in 1 .. Len(s) + 1 /\ Kept(c)
  BY <1>4, <1>6
<1> QED
  BY <1>5, <1>6, <1>7 DEF Kept

\* Where the records of a suffix come from.
LEMMA SuffixProperties ==
  ASSUME NEW s \in Seq(Records), NEW k \in 1 .. Len(s) + 1
  PROVE  /\ From(s, k) \in Seq(Records)
         /\ Len(From(s, k)) = Len(s) - k + 1
         /\ \A i \in 1 .. Len(From(s, k)) : From(s, k)[i] = s[k + i - 1]
<1>1. Len(s) \in Nat /\ Len(s) \in k - 1 .. Len(s)
  BY LenProperties
<1> QED
  BY <1>1, SubSeqProperties DEF From

\* The records of a queue are of the past, and in the order of their stamps.
InOrder(s) ==
  /\ \A i \in DOMAIN s : s[i].stamp <= clock
  /\ \A i, j \in DOMAIN s : i < j => s[i].stamp <= s[j].stamp

\* What a clearing leaves of such a queue is in order, none of it is old, and
\* all that is missing is.
LEMMA ClearedQueue ==
  ASSUME clock \in Nat, NEW s \in Seq(Records), InOrder(s)
  PROVE  /\ Popped(s) \in Seq(Records)
         /\ InOrder(Popped(s))
         /\ \A i \in DOMAIN Popped(s) : ~Old(Popped(s)[i])
         /\ \A i \in DOMAIN s :
              Old(s[i]) \/ \E j \in DOMAIN Popped(s) : Popped(s)[j] = s[i]
<1>1. PICK k \in 1 .. Len(s) + 1 :
        /\ Popped(s) = From(s, k)
        /\ k <= Len(s) => ~Old(s[k])
        /\ \A j \in 1 .. k - 1 : Old(s[j])
  BY PoppedIsSuffix
<1> DEFINE p == Popped(s)
<1>2. /\ p \in Seq(Records) /\ Len(p) = Len(s) - k + 1
      /\ \A i \in 1 .. Len(p) : p[i] = s[k + i - 1]
  <2>1. /\ From(s, k) \in Seq(Records) /\ Len(From(s, k)) = Len(s) - k + 1
        /\ \A i \in 1 .. Len(From(s, k)) : From(s, k)[i] = s[k + i - 1]
    BY SuffixProperties
  <2>2. p = From(s, k)
    BY <1>1
  <2> HIDE DEF p
  <2> QED
    BY <2>1, <2>2
<1> HIDE DEF p
<1>3. /\ DOMAIN p = 1 .. Len(p) /\ DOMAIN s = 1 .. Len(s) /\ Len(s) \in Nat /\ Len(p) \in Nat
      /\ \A i \in DOMAIN s : s[i] \in Records
  BY <1>2, LenProperties, ElementOfSeq
<1>4. \A i \in DOMAIN s : s[i].stamp \in Nat /\ s[i].stamp <= clock
  BY <1>3, LagAssumption DEF InOrder, Records
<1>5. \A i, j \in DOMAIN s : i <= j => s[i].stamp <= s[j].stamp
  <2> TAKE i, j \in DOMAIN s
  <2>1. i < j => s[i].stamp <= s[j].stamp
    BY DEF InOrder
  <2>2. i = j => s[i].stamp <= s[j].stamp
    BY <1>4
  <2> QED
    BY <1>3, <2>1, <2>2
<1>6. \A i \in DOMAIN p :
        /\ k + i - 1 \in DOMAIN s /\ k \in DOMAIN s /\ k <= k + i - 1
        /\ p[i] = s[k + i - 1]
  BY <1>2, <1>3, SMTT(30)
<1>7. \A i \in DOMAIN p : ~Old(p[i])
  <2> TAKE i \in DOMAIN p
  <2>1. ~Old(s[k]) /\ s[k].stamp <= s[k + i - 1].stamp
    <3>1. k \in DOMAIN s /\ k + i - 1 \in DOMAIN s /\ k <= k + i - 1 /\ k <= Len(s)
      BY <1>3, <1>6
    <3> QED
      BY <1>1, <1>5, <3>1
  <2>2. s[k].stamp \in Nat /\ s[k + i - 1].stamp \in Nat
    BY <1>4, <1>6
  <2> QED
    BY <1>6, <2>1, <2>2, LagAssumption, SMTT(30) DEF Old
<1>8. InOrder(p)
  <2>1. ASSUME NEW i \in DOMAIN p, NEW j \in DOMAIN p, i < j
        PROVE  p[i].stamp <= p[j].stamp
    <3>1. k + i - 1 <= k + j - 1
      BY <1>3, <2>1
    <3> QED
      BY <1>5, <1>6, <3>1
  <2> QED
    BY <1>4, <1>6, <2>1 DEF InOrder
<1>9. ASSUME NEW i \in DOMAIN s, ~Old(s[i])
      PROVE  \E j \in DOMAIN p : p[j] = s[i]
  <2>1. i \notin 1 .. k - 1
    BY <1>1, <1>9
  <2>2. i - k + 1 \in DOMAIN p /\ k + (i - k + 1) - 1 = i
    BY <1>2, <1>3, <2>1
  <2> QED
    BY <1>6, <2>2
<1> QED
  BY <1>2, <1>7, <1>8, <1>9 DEF p

RecordTypes ==
  /\ clock \in 0 .. MaxTime
  /\ message_logs \in [Fds -> Seq(Records)]
  /\ timestamp \in [Threads -> 0 .. MaxTime]

\* No record was logged in the future.
StampsArePast ==
  \A fd \in Fds : \A i \in DOMAIN message_logs[fd] : message_logs[fd][i].stamp <= clock

\* Between the logging of its record and the end of the call.
HasLogged(t) ==
  fn[t] \in {"clear", "get"} \/ (fn[t] = "log" /\ at[t] \in {"leave", "wake"})

InLog(r, fd) == \E i \in DOMAIN message_logs[fd] : message_logs[fd][i] = r

\* The record of a call is in the log until it is old.
OwnIsLogged ==
  \A t \in Threads : HasLogged(t) => InLog(Own(t), ClientOf[t]) \/ Old(Own(t))

RecordInv == RecordTypes /\ StampsArePast /\ LogsAreOrdered /\ OwnIsLogged

\* A step that leaves the clock and the records alone, and no call logging.
LEMMA SameRecords ==
  ASSUME RecordInv, UNCHANGED <<clock, message_logs>>,
         timestamp' \in [Threads -> 0 .. MaxTime],
         \A u \in Threads : HasLogged(u)' => HasLogged(u) /\ timestamp'[u] = timestamp[u]
  PROVE  RecordInv'
<1>1. RecordTypes' /\ StampsArePast' /\ LogsAreOrdered'
  BY DEF RecordInv, RecordTypes, StampsArePast, LogsAreOrdered
<1>2. OwnIsLogged'
  BY DEF RecordInv, OwnIsLogged, Own, InLog, Old
<1> QED
  BY <1>1, <1>2 DEF RecordInv

\* The record a thread logs is dated with the current time, after all others.
LEMMA LogLemma ==
  ASSUME RecordInv, LockTypes, NEW t \in Threads, Log(t)
  PROVE  RecordInv'
<1> DEFINE r == [by |-> t, stamp |-> clock]
           c == ClientOf[t]
<1>0. /\ c \in Fds /\ r \in Records /\ clock' = clock /\ clock \in Nat
      /\ message_logs \in [Fds -> Seq(Records)]
      /\ message_logs' = [message_logs EXCEPT ![c] = Append(@, r)]
      /\ timestamp' = [timestamp EXCEPT ![t] = clock]
      /\ at[t] = "in" /\ fn[t] = "log"
      /\ at' = [at EXCEPT ![t] = "try"] /\ fn' = [fn EXCEPT ![t] = "clear"]
  <2>1. c \in Fds /\ clock \in 0 .. MaxTime /\ clock \in Nat
    BY LagAssumption DEF RecordInv, RecordTypes
  <2>2. r \in Records
    BY <2>1 DEF Records
  <2> QED
    BY <2>1, <2>2 DEF RecordInv, RecordTypes, Log, At, Enter
<1>1. /\ message_logs'[c] \in Seq(Records)
      /\ Len(message_logs'[c]) = Len(message_logs[c]) + 1
      /\ \A i \in 1 .. Len(message_logs[c]) : message_logs'[c][i] = message_logs[c][i]
      /\ message_logs'[c][Len(message_logs[c]) + 1] = r
  BY <1>0, AppendProperties
<1>2. \A fd \in Fds \ {c} : message_logs'[fd] = message_logs[fd]
  BY <1>0
<1>3. \A fd \in Fds : /\ message_logs'[fd] \in Seq(Records)
                      /\ DOMAIN message_logs[fd] = 1 .. Len(message_logs[fd])
                      /\ DOMAIN message_logs'[fd] = 1 .. Len(message_logs'[fd])
                      /\ Len(message_logs[fd]) \in Nat
  BY <1>0, <1>1, <1>2, LenProperties
<1> HIDE DEF c
<1>4. RecordTypes'
  BY <1>0, <1>3 DEF RecordInv, RecordTypes
<1>5. StampsArePast'
  BY <1>0, <1>1, <1>2, <1>3 DEF RecordInv, StampsArePast
<1>6. LogsAreOrdered'
  <2> SUFFICES ASSUME NEW fd \in Fds, NEW i \in DOMAIN message_logs'[fd],
                      NEW j \in DOMAIN message_logs'[fd], i < j
               PROVE  message_logs'[fd][i].stamp <= message_logs'[fd][j].stamp
    BY DEF LogsAreOrdered
  <2>1. CASE fd # c
    BY <1>2, <2>1 DEF RecordInv, LogsAreOrdered
  <2>2. CASE fd = c /\ j \in DOMAIN message_logs[fd]
    <3>1. i \in DOMAIN message_logs[fd]
      BY <1>3, <2>2
    <3>2. message_logs[fd][i].stamp <= message_logs[fd][j].stamp
      BY <2>2, <3>1 DEF RecordInv, LogsAreOrdered
    <3> QED
      BY <1>1, <1>3, <2>2, <3>1, <3>2
  <2>3. CASE fd = c /\ j \notin DOMAIN message_logs[fd]
    <3>1. j = Len(message_logs[c]) + 1 /\ i \in 1 .. Len(message_logs[c])
      BY <1>1, <1>3, <2>3
    <3> QED
      BY <1>0, <1>1, <1>3, <2>3, <3>1 DEF RecordInv, StampsArePast
  <2> QED
    BY <2>1, <2>2, <2>3
<1>7. OwnIsLogged'
  <2> SUFFICES ASSUME NEW u \in Threads, HasLogged(u)'
               PROVE  InLog(Own(u), ClientOf[u])' \/ Old(Own(u))'
    BY DEF OwnIsLogged
  <2>1. CASE u = t
    <3>1. Own(u)' = r
      BY <1>0, <2>1 DEF Own, RecordInv, RecordTypes
    <3>2. Len(message_logs[c]) + 1 \in DOMAIN message_logs'[c]
      BY <1>0, <1>1, <1>3
    <3>3. \E i \in DOMAIN message_logs'[c] : message_logs'[c][i] = r
      BY <1>1, <3>2
    <3> QED
      BY <2>1, <3>1, <3>3 DEF InLog, c
  <2>2. CASE u # t
    <3>1. HasLogged(u) /\ Own(u)' = Own(u)
      BY <1>0, <2>2 DEF HasLogged, Own, LockTypes, RecordInv, RecordTypes
    <3>2. ClientOf[u] \in Fds
      BY LagAssumption
    <3>3. CASE InLog(Own(u), ClientOf[u])
      <4>1. PICK i \in DOMAIN message_logs[ClientOf[u]] :
                   message_logs[ClientOf[u]][i] = Own(u)
        BY <3>3 DEF InLog
      <4>2. i \in DOMAIN message_logs'[ClientOf[u]]
        BY <1>1, <1>2, <1>3, <3>2
      <4>3. message_logs'[ClientOf[u]][i] = Own(u)'
        BY <1>1, <1>2, <1>3, <3>1, <3>2, <4>1
      <4> QED
        BY <4>2, <4>3 DEF InLog
    <3>4. CASE Old(Own(u))
      BY <1>0, <3>1, <3>4 DEF Old
    <3> QED
      BY <3>1, <3>3, <3>4 DEF RecordInv, OwnIsLogged
  <2> QED
    BY <2>1, <2>2
<1> QED
  BY <1>4, <1>5, <1>6, <1>7 DEF RecordInv

\* What a clearing removes was old.
LEMMA ClearLemma ==
  ASSUME RecordInv, LockTypes, NEW t \in Threads, Clear(t)
  PROVE  /\ RecordInv'
         /\ \A fd \in Fds : \A i \in DOMAIN message_logs'[fd] : ~Old(message_logs'[fd][i])
<1>0. /\ clock' = clock /\ timestamp' = timestamp /\ fn' = fn /\ clock \in Nat
      /\ message_logs \in [Fds -> Seq(Records)]
      /\ message_logs' = [fd \in Fds |-> Popped(message_logs[fd])]
      /\ at[t] = "in" /\ fn[t] = "clear" /\ at' = [at EXCEPT ![t] = "leave"]
  BY LagAssumption DEF RecordInv, RecordTypes, Clear, At, Go
<1>1. \A fd \in Fds : message_logs[fd] \in Seq(Records) /\ InOrder(message_logs[fd])
  BY <1>0 DEF RecordInv, StampsArePast, LogsAreOrdered, InOrder
<1>2. \A fd \in Fds : message_logs'[fd] = Popped(message_logs[fd])
  BY <1>0
<1>3. \A fd \in Fds :
        /\ message_logs'[fd] \in Seq(Records)
        /\ InOrder(message_logs'[fd])
        /\ \A i \in DOMAIN message_logs'[fd] : ~Old(message_logs'[fd][i])
        /\ \A i \in DOMAIN message_logs[fd] :
             \/ Old(message_logs[fd][i])
             \/ \E j \in DOMAIN message_logs'[fd] : message_logs'[fd][j] = message_logs[fd][i]
  BY <1>0, <1>1, <1>2, ClearedQueue
<1>4. RecordTypes'
  BY <1>0, <1>3 DEF RecordInv, RecordTypes
<1>5. StampsArePast' /\ LogsAreOrdered'
  BY <1>0, <1>3 DEF StampsArePast, LogsAreOrdered, InOrder
<1>6. OwnIsLogged'
  <2> SUFFICES ASSUME NEW u \in Threads, HasLogged(u)'
               PROVE  InLog(Own(u), ClientOf[u])' \/ Old(Own(u))'
    BY DEF OwnIsLogged
  <2>1. HasLogged(u) /\ Own(u)' = Own(u) /\ ClientOf[u] \in Fds
    BY <1>0, LagAssumption DEF HasLogged, Own, LockTypes
  <2>2. CASE InLog(Own(u), ClientOf[u])
    <3>1. PICK i \in DOMAIN message_logs[ClientOf[u]] :
                 message_logs[ClientOf[u]][i] = Own(u)
      BY <2>2 DEF InLog
    <3>2. CASE Old(message_logs[ClientOf[u]][i])
      BY <1>0, <2>1, <3>1, <3>2 DEF Old
    <3>3. CASE \E j \in DOMAIN message_logs'[ClientOf[u]] :
                 message_logs'[ClientOf[u]][j] = message_logs[ClientOf[u]][i]
      BY <2>1, <3>1, <3>3 DEF InLog
    <3> QED
      BY <1>3, <2>1, <3>1, <3>2, <3>3
  <2>3. CASE Old(Own(u))
    BY <1>0, <2>1, <2>3 DEF Old
  <2> QED
    BY <2>1, <2>2, <2>3 DEF RecordInv, OwnIsLogged
<1> QED
  BY <1>3, <1>4, <1>5, <1>6 DEF RecordInv

\* What is logged and dated stays so: no step but Log and Clear changes the
\* records, and to be old is for ever.
LEMMA RecordNext ==
  LockInv /\ RecordInv /\ [LagNext]_lagVars => RecordInv'
<1> SUFFICES ASSUME LockInv, RecordInv, [LagNext]_lagVars PROVE RecordInv'
  OBVIOUS
<1>0. LockTypes /\ OneAtATime /\ RecordTypes
  BY DEF LockInv, RecordInv
<1>1. CASE Rest \/ UNCHANGED lagVars
  BY <1>0, <1>1, SameRecords DEF Rest, lagVars, HasLogged, RecordTypes
<1>2. CASE Tick
  <2>1. /\ clock' = clock + 1 /\ clock' \in 0 .. MaxTime
        /\ UNCHANGED <<message_logs, timestamp, fn, at>>
        /\ clock \in Nat
    BY <1>0, <1>2, LagAssumption DEF Tick, RecordTypes
  <2>2. RecordTypes'
    BY <1>0, <2>1 DEF RecordTypes
  <2>3. \A fd \in Fds : \A i \in DOMAIN message_logs[fd] : message_logs[fd][i].stamp \in Nat
    <3>1. \A q \in Seq(Records) : \A i \in DOMAIN q : q[i] \in Records
      BY LenProperties, ElementOfSeq
    <3>2. \A r \in Records : r.stamp \in Nat
      BY LagAssumption DEF Records
    <3> QED
      BY <1>0, <3>1, <3>2 DEF RecordTypes
  <2>4. StampsArePast' /\ LogsAreOrdered'
    BY <2>1, <2>3 DEF RecordInv, StampsArePast, LogsAreOrdered
  <2>5. \A t \in Threads : Own(t)' = Own(t) /\ (Old(Own(t)) => Old(Own(t))')
    BY <1>0, <2>1, LagAssumption DEF Own, Old, RecordTypes
  <2>6. OwnIsLogged'
    BY <2>1, <2>5 DEF RecordInv, OwnIsLogged, InLog, HasLogged
  <2> QED
    BY <2>2, <2>4, <2>6 DEF RecordInv
<1>3. ASSUME NEW t \in Threads,
             \/ Call(t) \/ Interrupt(t) \/ Exchange(t) \/ FutexWait(t)
             \/ Store(t) \/ GetBegin(t) \/ GetRecord(t) \/ GetReturn(t)
      PROVE  RecordInv'
  <2>1. UNCHANGED <<clock, message_logs, timestamp>>
    BY <1>3 DEF Call, Interrupt, Exchange, FutexWait, Store, GetBegin, GetRecord,
                GetReturn, dataVars
  <2>2. \A u \in Threads \ {t} : at'[u] = at[u] /\ fn'[u] = fn[u]
    BY <1>0, <1>3 DEF Call, Interrupt, Exchange, FutexWait, Store, GetBegin, GetRecord,
                      GetReturn, Go, Enter, LockTypes
  <2>3. HasLogged(t)' => HasLogged(t)
    <3>1. CASE Call(t)
      BY <1>0, <3>1 DEF Call, Enter, LockTypes, HasLogged
    <3>2. CASE Interrupt(t) \/ FutexWait(t)
      BY <1>0, <3>2 DEF Interrupt, FutexWait, Woken, Go, At, LockTypes, HasLogged
    <3>3. CASE Exchange(t)
      <4>1. at'[t] \in {"in", "wait"} /\ fn'[t] = fn[t]
        BY <1>0, <3>3 DEF Exchange, Go, LockTypes
      <4> QED
        BY <4>1 DEF HasLogged
    <3>6. CASE Store(t)
      BY <1>0, <3>6 DEF Store, Go, At, LockTypes, HasLogged
    <3>4. CASE GetBegin(t) \/ GetReturn(t)
      BY <1>0, <3>4 DEF GetBegin, GetReturn, Go, At, LockTypes, HasLogged
    <3>5. CASE GetRecord(t)
      BY <3>5 DEF GetRecord, HasLogged
    <3> QED
      BY <1>3, <3>1, <3>2, <3>3, <3>4, <3>5, <3>6
  <2>4. \A u \in Threads : HasLogged(u)' => HasLogged(u)
    BY <2>2, <2>3 DEF HasLogged
  <2> QED
    BY <1>0, <2>1, <2>4, SameRecords DEF RecordTypes
<1>4. ASSUME NEW t \in Threads, FutexWake(t) PROVE RecordInv'
  <2>1. /\ UNCHANGED <<clock, message_logs>>
        /\ fn' = [fn EXCEPT ![t] = After(t).fn]
        /\ at[t] = "wake" /\ fn[t] \in Functions
        /\ timestamp' = IF fn[t] = "get" THEN [timestamp EXCEPT ![t] = 0] ELSE timestamp
    BY <1>0, <1>4 DEF FutexWake, At, LockTypes
  <2>2. /\ timestamp' \in [Threads -> 0 .. MaxTime]
        /\ \A u \in Threads \ {t} : timestamp'[u] = timestamp[u]
        /\ fn[t] # "get" => timestamp' = timestamp
    BY <1>0, <2>1, LagAssumption DEF RecordTypes
  <2>3. /\ fn'[t] = After(t).fn /\ at'[t] = After(t).at
        /\ \A u \in Threads \ {t} :
             fn'[u] = fn[u] /\ (at'[u] = at[u] \/ (at[u] = "asleep" /\ at'[u] \in {"try", "wait"}))
    BY <1>0, <1>4, <2>1 DEF FutexWake, Wakeable, Woken, Asleep, At, LockTypes
  <2>4. fn[t] = "get" => ~HasLogged(t)'
    BY <2>3 DEF After, HasLogged
  <2>5. \A u \in Threads : HasLogged(u)' => HasLogged(u)
    BY <2>1, <2>3, <2>4 DEF HasLogged, After, Functions
  <2> QED
    BY <2>1, <2>2, <2>4, <2>5, SameRecords
<1> QED
  BY <1>0, <1>1, <1>2, <1>3, <1>4, LogLemma, ClearLemma DEF LagNext, Step

\* The logs are empty at first.
LEMMA RecordInvHolds == LagSpec => []RecordInv
<1>1. LagInit => RecordInv
  <2> SUFFICES ASSUME LagInit PROVE RecordInv
    OBVIOUS
  <2>1. <<>> \in Seq(Records) /\ DOMAIN <<>> = {}
    OBVIOUS
  <2>2. RecordTypes
    BY <2>1, LagAssumption DEF LagInit, RecordTypes
  <2>3. \A fd \in Fds : DOMAIN message_logs[fd] = {}
    BY <2>1 DEF LagInit
  <2>4. \A t \in Threads : ~HasLogged(t)
    BY DEF LagInit, HasLogged
  <2> QED
    BY <2>2, <2>3, <2>4 DEF RecordInv, StampsArePast, LogsAreOrdered, OwnIsLogged
<1> QED
  BY <1>1, LockInvHolds, RecordNext, PTL DEF LagSpec

----------------------------------------------------------------------------
(* The reads *)

ReadTypes == read \in [Threads -> Reads]

\* Tearing a read changes nothing else about it.
LEMMA TornLemma ==
  ASSUME ReadTypes, NEW readers, read' = Torn(readers)
  PROVE  /\ ReadTypes'
         /\ \A t \in Threads :
              /\ read'[t].now = read[t].now /\ read'[t].ahead = read[t].ahead
              /\ read'[t].valid = read[t].valid
              /\ read[t].torn => read'[t].torn
  BY DEF ReadTypes, Torn, Reads

\* In a read that is not torn, the record of the call is before the iterator or
\* was copied.
OwnIsMet(t) ==
  at[t] = "read" /\ ~read[t].torn /\ Valid(Own(t), read[t].now) =>
    Own(t) \in read[t].valid \cup {read[t].ahead[i] : i \in DOMAIN read[t].ahead}

ReadInv == ReadTypes /\ \A t \in Threads : OwnIsMet(t)

\* The read of a thread that enters the loop has its record before it.
LEMMA BeginLemma ==
  ASSUME LockInv, RecordInv, ReadInv, NEW t \in Threads, GetBegin(t)
  PROVE  ReadTypes' /\ OwnIsMet(t)'
<1>0. /\ clock \in 0 .. MaxTime /\ clock \in Nat /\ message_logs[ClientOf[t]] \in Seq(Records)
      /\ timestamp[t] \in Nat /\ ValidAge \in Nat /\ KeepAge \in Nat /\ ValidAge <= KeepAge
  BY LagAssumption DEF RecordInv, RecordTypes
<1> DEFINE r == [now |-> clock, ahead |-> message_logs[ClientOf[t]], valid |-> {},
                 torn |-> \E u \in Threads : Writing(u)]
<1>1. /\ r \in Reads
      /\ r.now = clock /\ r.ahead = message_logs[ClientOf[t]]
      /\ read' = [read EXCEPT ![t] = r]
  BY <1>0 DEF GetBegin, Reads
<1> HIDE DEF r
<1>2. read'[t] = r
  BY <1>1 DEF ReadInv, ReadTypes
<1>3. ReadTypes'
  BY <1>1 DEF ReadInv, ReadTypes
<1>4. ASSUME Valid(Own(t), clock)
      PROVE  \E i \in DOMAIN r.ahead : r.ahead[i] = Own(t)
  <2>1. ~Old(Own(t))
    BY <1>0, <1>4 DEF Old, Valid, Own
  <2>2. HasLogged(t)
    BY DEF GetBegin, HasLogged
  <2> QED
    BY <1>1, <2>1, <2>2 DEF RecordInv, OwnIsLogged, InLog
<1>5. Own(t)' = Own(t)
  BY DEF GetBegin, Own
<1> QED
  BY <1>1, <1>2, <1>3, <1>4, <1>5 DEF OwnIsMet, Valid

\* A turn of the loop copies the record of the call when it comes to it.
LEMMA RecordLemma ==
  ASSUME ReadInv, NEW t \in Threads, GetRecord(t)
  PROVE  ReadTypes' /\ OwnIsMet(t)'
<1> DEFINE s == read[t].ahead
<1>0. /\ read[t] \in Reads /\ s \in Seq(Records) /\ s # <<>>
      /\ Own(t)' = Own(t) /\ at[t] = "read"
  BY DEF ReadInv, ReadTypes, Reads, GetRecord, At, Own
<1>1. /\ Head(s) \in Records /\ Tail(s) \in Seq(Records)
      /\ \A i \in DOMAIN s : s[i] = Head(s) \/ \E j \in DOMAIN Tail(s) : Tail(s)[j] = s[i]
  <2>1. /\ Len(s) \in Nat \ {0} /\ DOMAIN s = 1 .. Len(s) /\ Head(s) = s[1]
        /\ Tail(s) \in Seq(Records) /\ DOMAIN Tail(s) = 1 .. Len(s) - 1
        /\ \A j \in 1 .. Len(s) - 1 : Tail(s)[j] = s[j + 1]
    BY <1>0, HeadTailProperties, LenProperties, EmptySeq
  <2>2. Head(s) \in Records
    BY <1>0, <2>1, ElementOfSeq
  <2> HIDE DEF s
  <2>3. ASSUME NEW i \in DOMAIN s, i # 1
        PROVE  \E j \in DOMAIN Tail(s) : Tail(s)[j] = s[i]
    <3>1. i - 1 \in 1 .. Len(s) - 1 /\ (i - 1) + 1 = i
      BY <2>1, <2>3
    <3> QED
      BY <2>1, <3>1
  <2> QED
    BY <2>1, <2>2, <2>3
<1>2. PICK copied :
        /\ read' = [read EXCEPT ![t].ahead = Tail(s), ![t].valid = copied]
        /\ copied \in {read[t].valid, read[t].valid \cup {Head(s)}}
        /\ ~read[t].torn /\ Valid(Head(s), read[t].now) => copied = read[t].valid \cup {Head(s)}
        /\ ~read[t].torn /\ ~Valid(Head(s), read[t].now) => copied = read[t].valid
  BY DEF GetRecord
<1>3. /\ read'[t] = [read[t] EXCEPT !.ahead = Tail(s), !.valid = copied]
      /\ copied \in SUBSET Records
  BY <1>0, <1>1, <1>2 DEF ReadInv, ReadTypes, Reads
<1>4. ReadTypes'
  <2>1. read'[t] \in Reads
    BY <1>0, <1>1, <1>3 DEF Reads
  <2>2. read' = [u \in Threads |-> IF u = t THEN read'[t] ELSE read[u]]
    BY <1>2 DEF ReadInv, ReadTypes
  <2> QED
    BY <2>1, <2>2 DEF ReadInv, ReadTypes
<1>5. /\ read'[t].ahead = Tail(s) /\ read'[t].valid = copied
      /\ read'[t].torn = read[t].torn /\ read'[t].now = read[t].now
      /\ read[t].valid \subseteq copied
  BY <1>0, <1>2, <1>3 DEF Reads
<1> HIDE DEF s
<1>6. ASSUME ~read[t].torn, Valid(Own(t), read[t].now)
      PROVE  Own(t) \in copied \cup {Tail(s)[i] : i \in DOMAIN Tail(s)}
  <2>1. Own(t) \in read[t].valid \cup {s[i] : i \in DOMAIN s}
    BY <1>0, <1>6 DEF ReadInv, OwnIsMet, s
  <2>2. Own(t) = Head(s) => Own(t) \in copied
    BY <1>2, <1>6
  <2> QED
    BY <1>1, <1>5, <2>1, <2>2
<1> QED
  BY <1>0, <1>4, <1>5, <1>6 DEF OwnIsMet, Valid

\* A step that leaves the read of a thread in the loop as it was, or tears it,
\* and the date of its record.
LEMMA SameRead ==
  ASSUME ReadInv, ReadTypes', NEW t \in Threads,
         at'[t] = "read" => at[t] = "read" /\ timestamp'[t] = timestamp[t],
         read'[t].now = read[t].now, read'[t].ahead = read[t].ahead,
         read'[t].valid = read[t].valid, read[t].torn => read'[t].torn
  PROVE  OwnIsMet(t)'
  BY DEF ReadInv, OwnIsMet, Valid, Own

\* Only the loop and who changes the records of its client touch a read.
LEMMA ReadNext ==
  LockInv /\ RecordInv /\ ReadInv /\ [LagNext]_lagVars => ReadInv'
<1> SUFFICES ASSUME LockInv, RecordInv, ReadInv, [LagNext]_lagVars PROVE ReadInv'
  OBVIOUS
<1>0. LockTypes /\ ReadTypes /\ timestamp \in [Threads -> 0 .. MaxTime]
  BY DEF LockInv, RecordInv, RecordTypes, ReadInv
<1>1. ASSUME UNCHANGED <<read, timestamp>>, \A t \in Threads : at'[t] = "read" => at[t] = "read"
      PROVE  ReadInv'
  BY <1>0, <1>1, SameRead DEF ReadInv, ReadTypes
<1>2. CASE Tick \/ Rest \/ UNCHANGED lagVars
  BY <1>1, <1>2 DEF Tick, Rest, lagVars
<1>3. ASSUME NEW t \in Threads,
             Call(t) \/ Interrupt(t) \/ Exchange(t) \/ FutexWait(t) \/ Store(t)
      PROVE  ReadInv'
  BY <1>0, <1>1, <1>3 DEF Call, Interrupt, Exchange, FutexWait, Store, Woken, Go, Enter, At,
                          dataVars, LockTypes
<1>4. ASSUME NEW t \in Threads, FutexWake(t) PROVE ReadInv'
  <2>1. /\ read' = read /\ at[t] = "wake" /\ fn[t] \in Functions
        /\ timestamp' = IF fn[t] = "get" THEN [timestamp EXCEPT ![t] = 0] ELSE timestamp
    BY <1>0, <1>4 DEF FutexWake, At, LockTypes
  <2>2. \A u \in Threads : at'[u] = "read" => at[u] = "read"
    BY <1>0, <1>4, <2>1 DEF FutexWake, Wakeable, Woken, Asleep, After, At, Functions, LockTypes
  <2>3. \A u \in Threads : at[u] = "read" => timestamp'[u] = timestamp[u]
    BY <1>0, <2>1
  <2> QED
    BY <1>0, <2>1, <2>2, <2>3, SameRead DEF ReadInv, ReadTypes
<1>5. ASSUME NEW t \in Threads, Log(t) \/ Clear(t) PROVE ReadInv'
  <2>1. PICK readers : read' = Torn(readers)
    BY <1>5 DEF Log, Clear
  <2>2. \A u \in Threads :
          at'[u] = "read" => at[u] = "read" /\ timestamp'[u] = timestamp[u]
    BY <1>0, <1>5 DEF Log, Clear, Enter, Go, At, LockTypes
  <2>3. /\ ReadTypes'
        /\ \A u \in Threads :
             /\ read'[u].now = read[u].now /\ read'[u].ahead = read[u].ahead
             /\ read'[u].valid = read[u].valid
             /\ read[u].torn => read'[u].torn
    BY <1>0, <2>1, TornLemma
  <2> QED
    BY <2>2, <2>3, SameRead DEF ReadInv
<1>6. ASSUME NEW t \in Threads, GetBegin(t) \/ GetRecord(t) PROVE ReadInv'
  <2>1. ReadTypes' /\ OwnIsMet(t)'
    BY <1>6, BeginLemma, RecordLemma
  <2>2. \A u \in Threads \ {t} :
          read'[u] = read[u] /\ at'[u] = at[u] /\ timestamp'[u] = timestamp[u]
    BY <1>0, <1>6 DEF GetBegin, GetRecord, Go, ReadTypes, LockTypes
  <2>3. \A u \in Threads \ {t} : OwnIsMet(u)'
    BY <2>1, <2>2, SameRead
  <2> QED
    BY <2>1, <2>3 DEF ReadInv
<1>7. ASSUME NEW t \in Threads, GetReturn(t) PROVE ReadInv'
  <2>1. /\ read' = [read EXCEPT ![t] = NoRead] /\ timestamp' = timestamp
        /\ at' = [at EXCEPT ![t] = "leave"]
    BY <1>7 DEF GetReturn, Go
  <2>2. NoRead \in Reads
    BY LagAssumption, EmptySeq DEF NoRead, Reads
  <2>3. ReadTypes'
    BY <1>0, <2>1, <2>2 DEF ReadTypes
  <2>4. \A u \in Threads \ {t} :
          read'[u] = read[u] /\ at'[u] = at[u] /\ timestamp'[u] = timestamp[u]
    BY <1>0, <2>1 DEF ReadTypes, LockTypes
  <2>5. \A u \in Threads \ {t} : OwnIsMet(u)'
    BY <2>3, <2>4, SameRead
  <2>6. OwnIsMet(t)'
    BY <1>0, <2>1 DEF OwnIsMet, LockTypes
  <2> QED
    BY <2>3, <2>5, <2>6 DEF ReadInv
<1> QED
  BY <1>2, <1>3, <1>4, <1>5, <1>6, <1>7 DEF LagNext, Step

\* Nobody reads at first.
LEMMA ReadInvHolds == LagSpec => []ReadInv
<1>1. LagInit => ReadInv
  <2> SUFFICES ASSUME LagInit PROVE ReadInv
    OBVIOUS
  <2>1. NoRead \in Reads
    BY LagAssumption, EmptySeq DEF NoRead, Reads
  <2> QED
    BY <2>1 DEF LagInit, ReadInv, ReadTypes, OwnIsMet
<1> QED
  BY <1>1, LockInvHolds, RecordInvHolds, ReadNext, PTL DEF LagSpec

\* For every number of threads, clients and records, every variable has its
\* type.
THEOREM LagTypeCorrect == LagSpec => []LagTypeOK
<1>1. LagInit => build \in Builds
  BY DEF LagInit
<1>2. build \in Builds /\ [LagNext]_lagVars => (build \in Builds)'
  BY DEF LagNext, lagVars, Step, Rest, Tick, FutexWait, Exchange, Store, FutexWake,
         Log, Clear, GetBegin, GetRecord, GetReturn, Call, Interrupt, dataVars
<1>3. LockInv /\ RecordInv /\ ReadInv /\ build \in Builds => LagTypeOK
  BY DEF LockInv, LockTypes, RecordInv, RecordTypes, ReadInv, ReadTypes, LagTypeOK
<1> QED
  BY <1>1, <1>2, <1>3, LockInvHolds, RecordInvHolds, ReadInvHolds, PTL DEF LagSpec

\* However the calls of the threads interleave, the records of a client are in
\* the order of their timestamps.
THEOREM RecordsAreInOrder == LagSpec => []LogsAreOrdered
  BY RecordInvHolds, PTL DEF RecordInv

\* A clearing leaves no old record behind the young one it stops at.
THEOREM ClearingIsComplete == LagSpec => ClearIsComplete
<1>1. LockInv /\ RecordInv /\ [LagNext]_lagVars =>
        [\A t \in Threads : Clear(t) =>
           \A fd \in Fds : \A i \in DOMAIN message_logs'[fd] :
             ~Old(message_logs'[fd][i])]_lagVars
  BY ClearLemma DEF LockInv
<1> QED
  BY <1>1, LockInvHolds, RecordInvHolds, PTL DEF LagSpec, ClearIsComplete

\* No clearing by another thread takes from a call the record it has yet to
\* read, since what is dropped is too old to be valid; and a read that nobody
\* disturbs comes to it.
THEOREM OwnRecordIsKept == LagSpec => OwnMessageIsParsed
<1>1. ReadInv /\ [LagNext]_lagVars =>
        [\A t \in Threads :
           GetReturn(t) /\ ~read[t].torn /\ Valid(Own(t), read[t].now)
           => Own(t) \in read[t].valid]_lagVars
  BY DEF ReadInv, OwnIsMet, GetReturn, At
<1> QED
  BY <1>1, ReadInvHolds, PTL DEF LagSpec, OwnMessageIsParsed
=============================================================================
