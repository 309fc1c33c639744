--------------------------- MODULE ObjectsProofs ---------------------------
(***************************************************************************)
(* The invariants of the objects that threads and drivers share, for any    *)
(* number of them: the dispatcher objects (threads, timers, clients and any *)
(* limit of the semaphore), counted references, and the numbers of the      *)
(* processors of any machine.                                               *)
(***************************************************************************)
EXTENDS Dispatcher, Handles, TLAPS

-------------------------------------------------------------------------------
(* The timers.                                                               *)

\* A client inside KeSetTimer or KeCancelTimer holds the mutex, its timer has a
\* pool timer, and the one it cancels is not due any more.
ClientsExclusive ==
  \A c \in Clients : client[c].pc # "run" =>
    /\ mutex = c
    /\ client[c].timer \in Timers
    /\ ktimer[client[c].timer].tp = "open"
    /\ client[c].pc = "cancel" => pool[client[c].timer].due = "never"

PoolTimer ==
  [due : {"never", "once", "periodic"}, queued : BOOLEAN,
   callback : {"none", "signal", "insert"}]

TimerInv == TimerTypeOK /\ CancelIsFinal /\ ClientsExclusive

\* No timer has a pool timer, and no client is in a call, at the start.
LEMMA TimerInitially == TimerInit => TimerInv
<1> SUFFICES ASSUME TimerInit PROVE TimerInv
  OBVIOUS
<1>1. TimerTypeOK
  BY Zenon DEF TimerInit, TimerTypeOK, NoPoolTimer, Outside
<1>2. CancelIsFinal
  BY DEF TimerInit, CancelIsFinal
<1>3. ClientsExclusive
  BY DEF TimerInit, ClientsExclusive, Outside
<1> QED BY <1>1, <1>2, <1>3 DEF TimerInv

\* The calls of the clients keep the mutex and the list right: KeSetTimer,
\* KeCancelTimer, KeInitializeTimer and the clean-up of the pool timers.
LEMMA ClientStep ==
  ASSUME TimerInv,
         \/ \E c \in Clients, t \in Timers :
              KeSetCoalescableTimer(c, t) \/ KeCancelTimer(c, t)
         \/ \E c \in Clients, due \in {"once", "periodic"} : SetThreadpoolTimer(c, due)
         \/ \E c \in Clients : CancelFinish(c)
         \/ \E t \in Timers : KeInitializeTimer(t)
         \/ usersim_free_threadpool_timers
  PROVE  TimerInv'
<1> USE TimerAssumption DEF TimerInv
<1>1. ASSUME NEW c \in Clients, NEW t \in Timers, KeSetCoalescableTimer(c, t)
      PROVE  TimerInv'
  <2>1. TimerTypeOK'
    BY <1>1 DEF KeSetCoalescableTimer, TimerTypeOK, NoPoolTimer, Outside
  <2>2. CancelIsFinal'
    BY <1>1 DEF KeSetCoalescableTimer, TimerTypeOK, CancelIsFinal, ClientsExclusive, NoPoolTimer
  <2>3. ClientsExclusive'
    BY <1>1 DEF KeSetCoalescableTimer, TimerTypeOK, CancelIsFinal, ClientsExclusive, Outside
  <2> QED BY <2>1, <2>2, <2>3
<1>2. ASSUME NEW c \in Clients, NEW t \in Timers, KeCancelTimer(c, t)
      PROVE  TimerInv'
  <2>1. TimerTypeOK'
    BY <1>2, ZenonT(30) DEF KeCancelTimer, TimerTypeOK, NoPoolTimer, Outside
  <2>2. CancelIsFinal'
    BY <1>2, Zenon DEF KeCancelTimer, TimerTypeOK, CancelIsFinal, ClientsExclusive, NoPoolTimer
  <2>3. ClientsExclusive'
    BY <1>2 DEF KeCancelTimer, TimerTypeOK, CancelIsFinal, ClientsExclusive, Outside
  <2> QED BY <2>1, <2>2, <2>3
<1>3. ASSUME NEW c \in Clients, NEW due \in {"once", "periodic"},
             SetThreadpoolTimer(c, due)
      PROVE  TimerInv'
  <2>1. TimerTypeOK'
    BY <1>3, ZenonT(30) DEF SetThreadpoolTimer, TimerTypeOK, NoPoolTimer, Outside
  <2>2. CancelIsFinal'
    BY <1>3, Zenon DEF SetThreadpoolTimer, TimerTypeOK, CancelIsFinal, ClientsExclusive, NoPoolTimer
  <2>3. ClientsExclusive'
    BY <1>3 DEF SetThreadpoolTimer, TimerTypeOK, CancelIsFinal, ClientsExclusive, Outside
  <2> QED BY <2>1, <2>2, <2>3
<1>4. ASSUME NEW c \in Clients, CancelFinish(c)
      PROVE  TimerInv'
  <2> DEFINE t == client[c].timer
  <2>1. /\ t \in Timers
        /\ mutex = c
        /\ pool[t].due = "never"
        /\ pool[t].callback = "none"
    BY <1>4 DEF CancelFinish, ClientsExclusive
  <2>2. /\ pool' = [pool EXCEPT ![t].queued = FALSE]
        /\ ktimer' = [ktimer EXCEPT ![t] = [tp |-> "null", signaled |-> FALSE]]
        /\ timers' = timers \ {t}
        /\ mutex' = NoClient
        /\ client' = [client EXCEPT ![c] = Outside]
        /\ dpc' = dpc
    BY <1>4 DEF CancelFinish, CancelCleanup
  <2> HIDE DEF t
  <2>3. TimerTypeOK'
    <3>1. pool' \in [Timers -> PoolTimer]
      BY <2>1, <2>2, Zenon DEF TimerTypeOK, PoolTimer
    <3>2. ktimer' \in [Timers -> [tp : {"null", "open", "closed"}, signaled : BOOLEAN]]
      BY <2>1, <2>2 DEF TimerTypeOK
    <3> QED BY <2>1, <2>2, <3>1, <3>2 DEF TimerTypeOK, PoolTimer, Outside
  <2>4. CancelIsFinal'
    <3>1. pool'[t] = NoPoolTimer
      BY <2>1, <2>2, Zenon DEF TimerTypeOK, NoPoolTimer
    <3>2. \A u \in Timers \ {t} : pool'[u] = pool[u] /\ ktimer'[u] = ktimer[u]
      BY <2>1, <2>2 DEF TimerTypeOK
    <3>3. ktimer'[t].tp # "open"
      BY <2>1, <2>2 DEF TimerTypeOK
    <3> QED BY <2>1, <2>2, <3>1, <3>2, <3>3, ZenonT(30) DEF CancelIsFinal, NoPoolTimer
  <2>5. ClientsExclusive'
    BY <1>4, <2>1, <2>2 DEF TimerTypeOK, ClientsExclusive, Outside
  <2> QED BY <2>3, <2>4, <2>5
<1>5. ASSUME NEW t \in Timers, KeInitializeTimer(t)
      PROVE  TimerInv'
  <2>1. TimerTypeOK'
    BY <1>5 DEF KeInitializeTimer, TimerTypeOK, NoPoolTimer, Outside
  <2>2. CancelIsFinal'
    BY <1>5 DEF KeInitializeTimer, TimerTypeOK, CancelIsFinal, ClientsExclusive, NoPoolTimer
  <2>3. ClientsExclusive'
    BY <1>5 DEF KeInitializeTimer, TimerTypeOK, CancelIsFinal, ClientsExclusive, Outside
  <2> QED BY <2>1, <2>2, <2>3
<1>6. CASE usersim_free_threadpool_timers
  <2>1. TimerTypeOK'
    <3>1. ktimer' \in [Timers -> [tp : {"null", "open", "closed"}, signaled : BOOLEAN]]
      BY <1>6 DEF usersim_free_threadpool_timers, TimerTypeOK
    <3>2. pool' \in [Timers -> PoolTimer]
      BY <1>6 DEF usersim_free_threadpool_timers, TimerTypeOK, PoolTimer
    <3> QED BY <1>6, <3>1, <3>2 DEF usersim_free_threadpool_timers, TimerTypeOK, PoolTimer
  <2>2. CancelIsFinal'
    BY <1>6 DEF usersim_free_threadpool_timers, TimerTypeOK, CancelIsFinal, ClientsExclusive,
       NoPoolTimer
  <2>3. ClientsExclusive'
    BY <1>6 DEF usersim_free_threadpool_timers, TimerTypeOK, CancelIsFinal, ClientsExclusive,
       Outside
  <2> QED BY <2>1, <2>2, <2>3
<1> QED BY <1>1, <1>2, <1>3, <1>4, <1>5, <1>6

\* The threads of the pool, which do not take the mutex, keep them right too.
LEMMA PoolStep ==
  ASSUME TimerInv, NEW t \in Timers, Pool(t)
  PROVE  TimerInv'
<1> USE DEF TimerInv
<1>1. CASE Expire(t)
  <2>1. TimerTypeOK'
    <3>1. ktimer' \in [Timers -> [tp : {"null", "open", "closed"}, signaled : BOOLEAN]]
      BY <1>1 DEF Expire, TimerTypeOK
    <3>2. pool' \in [Timers -> PoolTimer]
      <4>1. pool[t] \in PoolTimer
        BY DEF TimerTypeOK, PoolTimer
      <4> DEFINE due == IF pool[t].due = "once" THEN "never" ELSE pool[t].due
                 expired == [pool[t] EXCEPT !.queued = TRUE, !.due = due]
      <4>2. expired \in PoolTimer
        BY <4>1, Zenon DEF PoolTimer
      <4>3. pool' = [pool EXCEPT ![t] = expired]
        BY <1>1, <4>1, Zenon DEF Expire, TimerTypeOK, PoolTimer
      <4> QED BY <4>2, <4>3 DEF TimerTypeOK, PoolTimer
    <3> QED BY <1>1, <3>1, <3>2 DEF Expire, TimerTypeOK, PoolTimer
  <2>2. CancelIsFinal'
    <3>1. pool[t] # NoPoolTimer
      BY <1>1 DEF Expire, NoPoolTimer
    <3>2. ktimer[t].tp = "open"
      BY <3>1 DEF CancelIsFinal
    <3>3. \A u \in Timers : ktimer'[u].tp = ktimer[u].tp /\ (u # t => pool'[u] = pool[u])
      BY <1>1 DEF Expire, TimerTypeOK
    <3> QED BY <1>1, <3>2, <3>3, Zenon DEF Expire, CancelIsFinal, NoPoolTimer
  <2>3. ClientsExclusive'
    BY <1>1 DEF Expire, TimerTypeOK, CancelIsFinal, ClientsExclusive, Outside
  <2> QED BY <2>1, <2>2, <2>3
<1>2. CASE CallbackStarts(t)
  <2>1. TimerTypeOK'
    BY <1>2 DEF CallbackStarts, TimerTypeOK, NoPoolTimer, Outside
  <2>2. CancelIsFinal'
    <3>1. pool[t] # NoPoolTimer
      BY <1>2 DEF CallbackStarts, NoPoolTimer
    <3>2. ktimer[t].tp = "open"
      BY <3>1 DEF CancelIsFinal
    <3>3. \A u \in Timers : ktimer'[u].tp = ktimer[u].tp /\ (u # t => pool'[u] = pool[u])
      BY <1>2 DEF CallbackStarts, TimerTypeOK
    <3> QED BY <1>2, <3>2, <3>3, Zenon DEF CallbackStarts, CancelIsFinal, NoPoolTimer
  <2>3. ClientsExclusive'
    BY <1>2 DEF CallbackStarts, TimerTypeOK, CancelIsFinal, ClientsExclusive, Outside
  <2> QED BY <2>1, <2>2, <2>3
<1>3. CASE _usersim_timer_callback(t)
  <2>1. TimerTypeOK'
    <3>1. ktimer' \in [Timers -> [tp : {"null", "open", "closed"}, signaled : BOOLEAN]]
      <4>1. [ktimer[t] EXCEPT !.signaled = TRUE]
              \in [tp : {"null", "open", "closed"}, signaled : BOOLEAN]
        <5>1. ktimer[t] \in [tp : {"null", "open", "closed"}, signaled : BOOLEAN]
          BY DEF TimerTypeOK
        <5> HIDE DEF TimerInv
        <5> QED BY <5>1, Zenon
      <4>2. ktimer' = [ktimer EXCEPT ![t] = [ktimer[t] EXCEPT !.signaled = TRUE]]
        BY <1>3 DEF _usersim_timer_callback
      <4> QED BY <4>1, <4>2 DEF TimerTypeOK
    <3>2. pool' \in [Timers -> PoolTimer]
      BY SMTT(30), <1>3 DEF _usersim_timer_callback, TimerTypeOK, PoolTimer
    <3> QED BY <1>3, <3>1, <3>2 DEF _usersim_timer_callback, TimerTypeOK, PoolTimer
  <2>2. CancelIsFinal'
    <3>1. pool[t] # NoPoolTimer
      BY <1>3 DEF _usersim_timer_callback, NoPoolTimer
    <3>2. ktimer[t].tp = "open"
      BY <3>1 DEF CancelIsFinal
    <3>3. \A u \in Timers : ktimer'[u].tp = ktimer[u].tp /\ (u # t => pool'[u] = pool[u])
      BY <1>3 DEF _usersim_timer_callback, TimerTypeOK
    <3> QED BY <1>3, <3>2, <3>3 DEF _usersim_timer_callback, CancelIsFinal, NoPoolTimer
  <2>3. ClientsExclusive'
    BY <1>3 DEF _usersim_timer_callback, TimerTypeOK, CancelIsFinal, ClientsExclusive, Outside
  <2> QED BY <2>1, <2>2, <2>3
<1>4. CASE CallbackInsertsDpc(t)
  <2>1. TimerTypeOK'
    BY <1>4 DEF CallbackInsertsDpc, TimerTypeOK, NoPoolTimer, Outside
  <2>2. CancelIsFinal'
    <3>1. pool[t] # NoPoolTimer
      BY <1>4 DEF CallbackInsertsDpc, NoPoolTimer
    <3>2. ktimer[t].tp = "open"
      BY <3>1 DEF CancelIsFinal
    <3>3. \A u \in Timers : ktimer'[u].tp = ktimer[u].tp /\ (u # t => pool'[u] = pool[u])
      BY <1>4 DEF CallbackInsertsDpc, TimerTypeOK
    <3> QED BY <1>4, <3>2, <3>3 DEF CallbackInsertsDpc, CancelIsFinal, NoPoolTimer
  <2>3. ClientsExclusive'
    BY <1>4 DEF CallbackInsertsDpc, TimerTypeOK, CancelIsFinal, ClientsExclusive, Outside
  <2> QED BY <2>1, <2>2, <2>3
<1> QED BY <1>1, <1>2, <1>3, <1>4 DEF Pool

\* A step of the waits, of the timers or of a DPC keeps the invariant of the
\* timers.
LEMMA TimerStep ==
  ASSUME TimerInv, [Next]_vars
  PROVE  TimerInv'
<1>1. CASE TimerNext
  BY <1>1, ClientStep, PoolStep DEF TimerNext
<1>2. CASE UNCHANGED timerVars
  BY <1>2 DEF timerVars, TimerInv, TimerTypeOK, CancelIsFinal, ClientsExclusive
<1>3. ASSUME NEW s \in Setters, DpcRuns(s)
      PROVE  TimerInv'
  BY <1>3, Zenon DEF DpcRuns, TimerInv, TimerTypeOK, CancelIsFinal, ClientsExclusive
<1> QED BY <1>1, <1>2, <1>3 DEF Next, vars

\* After KeCancelTimer has returned nothing of the timer is left in the pool,
\* whichever of any number of clients set and cancel it meanwhile.
THEOREM CancelAlwaysFinal == Spec => []CancelIsFinal
<1>1. Init => TimerInv
  BY TimerInitially DEF Init
<1>2. TimerInv /\ [Next]_vars => TimerInv'
  BY TimerStep
<1>3. TimerInv => CancelIsFinal
  BY DEF TimerInv
<1> QED BY <1>1, <1>2, <1>3, PTL DEF Spec

INSTANCE FiniteSetTheorems

-------------------------------------------------------------------------------
(* The event that lets one waiter through.                                   *)

\* A thread is inside only while the event is not signaled, and no other is.
LockInv ==
  /\ signaled \in [Events -> BOOLEAN]
  /\ \A t, u \in inside : t = u
  /\ signaled[Lock] => inside = {}

\* Only KeSetEvent, KeClearEvent and the test under the spin lock touch the
\* event or the threads inside.
LEMMA LockStep ==
  ASSUME LockInv, [Next]_vars
  PROVE  LockInv'
<1> USE WaitsAssumption DEF LockInv, Events
<1>1. ASSUME NEW t, SetLock(t)
      PROVE  LockInv'
  BY <1>1 DEF SetLock, KeSetEvent
<1>2. ASSUME NEW t, KeClearEvent(t)
      PROVE  LockInv'
  BY <1>2 DEF KeClearEvent
<1>3. ASSUME NEW t, EventCheck(t)
      PROVE  LockInv'
  <2>1. CASE signaled[wt[t].event] /\ wt[t].event = Lock
    BY <1>3, <2>1, Zenon DEF EventCheck
  <2>2. CASE ~(signaled[wt[t].event] /\ wt[t].event = Lock)
    BY <1>3, <2>2 DEF EventCheck
  <2> QED BY <2>1, <2>2
<1>4. ASSUME NEW t \in Setters, DpcRuns(t)
      PROVE  LockInv'
  BY <1>4 DEF DpcRuns, SetDone, KeSetEvent
<1>5. ASSUME UNCHANGED <<signaled, inside>>
      PROVE  LockInv'
  BY <1>5
<1>6. CASE WaitsNext
  <2>1. ASSUME NEW t \in Waiters, Calls(t)
        PROVE  LockInv'
    BY <2>1, <1>1, <1>2, <1>5, Zenon
       DEF Calls, WaitForEvent, WaitForSemaphore, KeReleaseSemaphore, KeReadStateSemaphore
  <2>2. ASSUME NEW t \in Threads, InsideCall(t)
        PROVE  LockInv'
    BY <2>2, <1>3, <1>5
       DEF InsideCall, WakeByAddressAll, WaitOnAddress, EventRecheck, ReadStateReleases
  <2>3. ASSUME NEW t \in Threads,
               \/ SpuriousWake(t) \/ EventTimeout(t)
               \/ SemaphoreAcquired(t) \/ SemaphoreTimeout(t)
        PROVE  LockInv'
    BY <2>3, <1>5 DEF SpuriousWake, EventTimeout, SemaphoreAcquired, SemaphoreTimeout
  <2> QED BY <1>6, <2>1, <2>2, <2>3 DEF WaitsNext
<1>7. CASE UNCHANGED waitVars
  BY <1>7, <1>5 DEF waitVars
<1> QED BY <1>4, <1>6, <1>7 DEF Next, vars

\* One set of a SynchronizationEvent lets one waiter through, for any number of
\* threads, wake-ups and timeouts.
THEOREM AlwaysOneInside == Spec => []OneInside
<1>1. Init => LockInv
  BY WaitsAssumption DEF Init, WaitsInit, LockInv, Events
<1>2. LockInv /\ [Next]_vars => LockInv'
  BY LockStep
<1>3. LockInv => OneInside
  <2> SUFFICES ASSUME LockInv PROVE OneInside
    OBVIOUS
  <2>1. CASE inside = {}
    BY <2>1, FS_EmptySet DEF OneInside
  <2>2. CASE inside # {}
    <3>1. PICK t \in inside : TRUE
      BY <2>2
    <3>2. inside = {t} /\ ~signaled[Lock]
      BY <2>2, <3>1 DEF LockInv
    <3>3. Cardinality(inside) = 1
      BY <3>2, FS_Singleton, Zenon
    <3> QED BY <3>2, <3>3 DEF OneInside
  <2> QED BY <2>1, <2>2
<1> QED BY <1>1, <1>2, <1>3, PTL DEF Spec

-------------------------------------------------------------------------------
(* The units of the semaphore.                                               *)

\* The two sets UnitsConserved counts.
Taken == {p \in Threads \X (1 .. Limit) : p[2] <= units[p[1]]}
Probing == {t \in Threads : wt[t].pc = "probe"}

\* What the waits of a thread are described by.
Waiting ==
  [pc : {"run", "set", "check", "captured", "asleep", "woken", "semaphore", "probe"},
   event : Events \cup {NoObject}, timeout : Timeouts]

\* A thread blocked on the semaphore has room for another unit.
UnitsInv ==
  /\ count \in Nat
  /\ units \in [Threads -> 0 .. Limit]
  /\ wt \in [Threads -> Waiting]
  /\ \A t \in Threads : wt[t].pc = "semaphore" => units[t] < Limit
  /\ UnitsConserved

\* Both sets are finite, as the threads are.
LEMMA UnitsFinite ==
  /\ IsFiniteSet(Taken) /\ IsFiniteSet(Probing)
  /\ Cardinality(Taken) \in Nat /\ Cardinality(Probing) \in Nat
<1>1. IsFiniteSet(Threads)
  BY FS_Union, WaitsAssumption, Zenon DEF Threads
<1>2. IsFiniteSet(1 .. Limit)
  BY FS_Interval, WaitsAssumption
<1>3. IsFiniteSet(Threads \X (1 .. Limit))
  BY <1>1, <1>2, FS_Product, Zenon
<1>4. IsFiniteSet(Taken)
  BY <1>3, FS_Subset DEF Taken
<1>5. IsFiniteSet(Probing)
  BY <1>1, FS_Subset DEF Probing
<1> QED BY <1>4, <1>5, FS_CardinalityType

\* The conservation of units in terms of the two sets.
LEMMA UnitsSum ==
  UnitsConserved <=> count + Cardinality(Taken) + Cardinality(Probing) = Limit
BY DEF UnitsConserved, Taken, Probing

\* A thread that goes somewhere else in a call keeps its event and timeout, and
\* the others stay where they are.
LEMMA GotoMoves ==
  ASSUME wt \in [Threads -> Waiting], NEW t \in Threads,
         NEW pc \in {"check", "captured", "asleep", "woken", "probe"}, Goto(t, pc)
  PROVE  /\ wt' \in [Threads -> Waiting]
         /\ wt'[t].pc = pc
         /\ \A u \in Threads \ {t} : wt'[u] = wt[u]
<1>1. [wt[t] EXCEPT !.pc = pc] \in Waiting
  BY DEF Waiting
<1>2. wt' = [wt EXCEPT ![t] = [wt[t] EXCEPT !.pc = pc]]
  BY DEF Goto
<1>3. [wt[t] EXCEPT !.pc = pc].pc = pc
  BY DEF Waiting
<1> QED BY <1>1, <1>2, <1>3

\* A thread that begins a call or returns from one.
LEMMA StateMoves ==
  ASSUME wt \in [Threads -> Waiting], NEW t \in Threads, NEW w \in Waiting,
         wt' = [wt EXCEPT ![t] = w]
  PROVE  /\ wt' \in [Threads -> Waiting]
         /\ wt'[t] = w
         /\ \A u \in Threads \ {t} : wt'[u] = wt[u]
OBVIOUS

\* A thread in no call.
LEMMA RunWaits == Run \in Waiting /\ Run.pc = "run"
BY DEF Run, Waiting, Timeouts

\* A step that leaves the semaphore alone: nobody begins or ends a probe, and
\* a thread that blocks on the semaphore has room.
LEMMA QuietStep ==
  ASSUME UnitsInv, UNCHANGED <<count, units>>, wt' \in [Threads -> Waiting],
         \A u \in Threads :
           /\ wt'[u].pc = "probe" <=> wt[u].pc = "probe"
           /\ wt'[u].pc = "semaphore" => wt[u].pc = "semaphore" \/ units[u] < Limit
  PROVE  UnitsInv'
<1>1. Taken' = Taken
  BY DEF Taken
<1>2. Probing' = Probing
  BY DEF Probing
<1>3. UnitsConserved'
  BY <1>1, <1>2, UnitsSum, Zenon DEF UnitsInv, UnitsConserved, Taken, Probing
<1> QED BY <1>3 DEF UnitsInv

\* A unit taken from the count is held by the thread that waited for it.
LEMMA AcquireStep ==
  ASSUME UnitsInv, NEW t \in Threads, SemaphoreAcquired(t)
  PROVE  UnitsInv'
<1> DEFINE unit == <<t, units[t] + 1>>
<1>1. /\ count > 0 /\ count' = count - 1
      /\ units' = [units EXCEPT ![t] = units[t] + 1]
      /\ wt' = [wt EXCEPT ![t] = Run]
      /\ wt[t].pc = "semaphore" /\ units[t] < Limit
  BY DEF SemaphoreAcquired, Return, UnitsInv
<1>2. /\ wt' \in [Threads -> Waiting]
      /\ wt'[t] = Run
      /\ \A u \in Threads \ {t} : wt'[u] = wt[u]
  BY <1>1, StateMoves, RunWaits DEF UnitsInv
<1>3. units' \in [Threads -> 0 .. Limit]
  BY <1>1, WaitsAssumption DEF UnitsInv
<1>4. Probing' = Probing
  BY <1>1, <1>2, RunWaits DEF Probing
<1>5. Taken' = Taken \cup {unit} /\ unit \notin Taken
  <2>1. \A u \in Threads, n \in 1 .. Limit :
          n <= units'[u] <=> (n <= units[u] \/ (u = t /\ n = units[t] + 1))
    BY <1>1, WaitsAssumption DEF UnitsInv
  <2>2. unit \in Threads \X (1 .. Limit)
    BY <1>1, WaitsAssumption DEF UnitsInv
  <2> QED BY <2>1, <2>2, WaitsAssumption DEF Taken, UnitsInv
<1>6. Cardinality(Taken') = Cardinality(Taken) + 1
  BY <1>5, FS_AddElement, UnitsFinite, Zenon
<1>7. UnitsConserved'
  <2>1. count + Cardinality(Taken) + Cardinality(Probing) = Limit
    BY UnitsSum DEF UnitsInv
  <2>2. count' + Cardinality(Taken') + Cardinality(Probing') = Limit
    BY <1>1, <1>4, <1>6, <2>1, UnitsFinite DEF UnitsInv
  <2> QED BY <2>2 DEF UnitsConserved, Taken, Probing
<1>8. \A u \in Threads : wt'[u].pc = "semaphore" => units'[u] < Limit
  BY <1>1, <1>2, RunWaits DEF UnitsInv
<1> QED BY <1>1, <1>2, <1>3, <1>7, <1>8 DEF UnitsInv

\* KeReleaseSemaphore moves a unit of the thread back to the count.
LEMMA ReleaseStep ==
  ASSUME UnitsInv, NEW t \in Threads, KeReleaseSemaphore(t)
  PROVE  UnitsInv'
<1> DEFINE unit == <<t, units[t]>>
<1>1. /\ units[t] > 0 /\ count' = count + 1
      /\ units' = [units EXCEPT ![t] = units[t] - 1]
      /\ wt' = wt
  BY DEF KeReleaseSemaphore
<1>2. units' \in [Threads -> 0 .. Limit]
  BY <1>1, WaitsAssumption DEF UnitsInv
<1>3. Probing' = Probing
  BY <1>1 DEF Probing
<1>4. Taken' = Taken \ {unit} /\ unit \in Taken
  <2>1. \A u \in Threads, n \in 1 .. Limit :
          n <= units'[u] <=> (n <= units[u] /\ ~(u = t /\ n = units[t]))
    BY <1>1, WaitsAssumption DEF UnitsInv
  <2>2. unit \in Threads \X (1 .. Limit)
    BY <1>1, WaitsAssumption DEF UnitsInv
  <2> QED BY <2>1, <2>2, WaitsAssumption DEF Taken, UnitsInv
<1>5. Cardinality(Taken') = Cardinality(Taken) - 1
  BY <1>4, FS_RemoveElement, UnitsFinite, Zenon
<1>6. UnitsConserved'
  <2>1. count + Cardinality(Taken) + Cardinality(Probing) = Limit
    BY UnitsSum DEF UnitsInv
  <2>2. count' + Cardinality(Taken') + Cardinality(Probing') = Limit
    BY <1>1, <1>3, <1>5, <2>1, UnitsFinite DEF UnitsInv
  <2> QED BY <2>2 DEF UnitsConserved, Taken, Probing
<1>7. \A u \in Threads : wt'[u].pc = "semaphore" => units'[u] < Limit
  BY <1>1, WaitsAssumption DEF UnitsInv
<1> QED BY <1>1, <1>2, <1>6, <1>7 DEF UnitsInv

\* KeReadStateSemaphore takes a unit for as long as it probes.
LEMMA ReadStateStep ==
  ASSUME UnitsInv, NEW t \in Threads, KeReadStateSemaphore(t)
  PROVE  UnitsInv'
<1>1. /\ wt[t].pc = "run" /\ count > 0 /\ count' = count - 1
      /\ units' = units /\ Goto(t, "probe")
  BY DEF KeReadStateSemaphore
<1>2. /\ wt' \in [Threads -> Waiting]
      /\ wt'[t].pc = "probe"
      /\ \A u \in Threads \ {t} : wt'[u] = wt[u]
  BY <1>1, GotoMoves DEF UnitsInv
<1>3. Taken' = Taken
  BY <1>1 DEF Taken
<1>4. Probing' = Probing \cup {t} /\ t \notin Probing
  BY <1>1, <1>2 DEF Probing
<1>5. Cardinality(Probing') = Cardinality(Probing) + 1
  BY <1>4, FS_AddElement, UnitsFinite, Zenon
<1>6. UnitsConserved'
  <2>1. count + Cardinality(Taken) + Cardinality(Probing) = Limit
    BY UnitsSum DEF UnitsInv
  <2>2. count' + Cardinality(Taken') + Cardinality(Probing') = Limit
    BY <1>1, <1>3, <1>5, <2>1, UnitsFinite DEF UnitsInv
  <2> QED BY <2>2 DEF UnitsConserved, Taken, Probing
<1> QED BY <1>1, <1>2, <1>6 DEF UnitsInv

\* ... and gives it back.
LEMMA ReadReleasesStep ==
  ASSUME UnitsInv, NEW t \in Threads, ReadStateReleases(t)
  PROVE  UnitsInv'
<1>1. /\ wt[t].pc = "probe" /\ count' = count + 1
      /\ units' = units /\ wt' = [wt EXCEPT ![t] = Run]
  BY DEF ReadStateReleases, Return
<1>2. /\ wt' \in [Threads -> Waiting]
      /\ wt'[t] = Run
      /\ \A u \in Threads \ {t} : wt'[u] = wt[u]
  BY <1>1, StateMoves, RunWaits DEF UnitsInv
<1>3. Taken' = Taken
  BY <1>1 DEF Taken
<1>4. Probing' = Probing \ {t} /\ t \in Probing
  BY <1>1, <1>2, RunWaits DEF Probing
<1>5. Cardinality(Probing') = Cardinality(Probing) - 1
  BY <1>4, FS_RemoveElement, UnitsFinite, Zenon
<1>6. UnitsConserved'
  <2>1. count + Cardinality(Taken) + Cardinality(Probing) = Limit
    BY UnitsSum DEF UnitsInv
  <2>2. count' + Cardinality(Taken') + Cardinality(Probing') = Limit
    BY <1>1, <1>3, <1>5, <2>1, UnitsFinite DEF UnitsInv
  <2> QED BY <2>2 DEF UnitsConserved, Taken, Probing
<1>7. \A u \in Threads : wt'[u].pc = "semaphore" => units'[u] < Limit
  BY <1>1, <1>2, RunWaits DEF UnitsInv
<1> QED BY <1>1, <1>2, <1>6, <1>7 DEF UnitsInv

\* A thread that was in no probe, and is in none and not blocked on the
\* semaphore after the step, disturbs no unit.
LEMMA MoveStep ==
  ASSUME UnitsInv, UNCHANGED <<count, units>>, NEW t \in Threads,
         wt[t].pc # "probe", wt' \in [Threads -> Waiting],
         wt'[t].pc \notin {"probe", "semaphore"},
         \A u \in Threads \ {t} : wt'[u] = wt[u]
  PROVE  UnitsInv'
BY QuietStep

\* The same of a thread that returns.
LEMMA ReturnStep ==
  ASSUME UnitsInv, UNCHANGED <<count, units>>, NEW t \in Threads,
         wt[t].pc # "probe", Return(t)
  PROVE  UnitsInv'
<1>1. wt' = [wt EXCEPT ![t] = Run]
  BY DEF Return
<1> QED BY <1>1, StateMoves, RunWaits, MoveStep DEF UnitsInv

\* The same of a thread that goes on in a wait for an event.
LEMMA GotoStep ==
  ASSUME UnitsInv, UNCHANGED <<count, units>>, NEW t \in Threads,
         wt[t].pc # "probe",
         NEW pc \in {"check", "captured", "asleep", "woken"}, Goto(t, pc)
  PROVE  UnitsInv'
BY GotoMoves, MoveStep DEF UnitsInv

\* KeSetEvent does not touch the semaphore.
LEMMA SetStep ==
  ASSUME UnitsInv, NEW t \in Threads, NEW e \in Events, KeSetEvent(t, e)
  PROVE  UnitsInv'
<1> DEFINE w == [Run EXCEPT !.pc = "set", !.event = e]
<1>1. w \in Waiting /\ w.pc = "set"
  BY Zenon DEF Run, Waiting, Timeouts
<1>2. /\ wt[t].pc = "run" /\ wt' = [wt EXCEPT ![t] = w]
      /\ UNCHANGED <<count, units>>
  BY DEF KeSetEvent
<1> HIDE DEF w
<1> QED BY <1>1, <1>2, StateMoves, MoveStep DEF UnitsInv

\* The calls of the waiters.
LEMMA CallStep ==
  ASSUME UnitsInv, NEW t \in Threads, Calls(t)
  PROVE  UnitsInv'
<1>1. CASE SetLock(t)
  BY <1>1, SetStep DEF SetLock, Events
<1>2. CASE KeClearEvent(t)
  BY <1>2, QuietStep DEF KeClearEvent, UnitsInv
<1>3. ASSUME NEW e \in Events, NEW timeout \in Timeouts, WaitForEvent(t, e, timeout)
      PROVE  UnitsInv'
  <2> DEFINE w == [pc |-> "check", event |-> e, timeout |-> timeout]
  <2>1. w \in Waiting /\ w.pc = "check"
    BY DEF Waiting
  <2>2. /\ wt[t].pc = "run" /\ wt' = [wt EXCEPT ![t] = w]
        /\ UNCHANGED <<count, units>>
    BY <1>3 DEF WaitForEvent
  <2> HIDE DEF w
  <2> QED BY <2>1, <2>2, StateMoves, MoveStep DEF UnitsInv
<1>4. ASSUME NEW timeout \in Timeouts, WaitForSemaphore(t, timeout)
      PROVE  UnitsInv'
  <2> DEFINE w == [Run EXCEPT !.pc = "semaphore", !.timeout = timeout]
  <2>1. w \in Waiting /\ w.pc = "semaphore"
    BY Zenon DEF Run, Waiting, Timeouts
  <2>2. /\ wt[t].pc = "run" /\ units[t] < Limit /\ wt' = [wt EXCEPT ![t] = w]
        /\ UNCHANGED <<count, units>>
    BY <1>4 DEF WaitForSemaphore
  <2> HIDE DEF w
  <2>3. /\ wt' \in [Threads -> Waiting] /\ wt'[t] = w
        /\ \A u \in Threads \ {t} : wt'[u] = wt[u]
    BY <2>1, <2>2, StateMoves DEF UnitsInv
  <2>4. \A u \in Threads :
          /\ wt'[u].pc = "probe" <=> wt[u].pc = "probe"
          /\ wt'[u].pc = "semaphore" => wt[u].pc = "semaphore" \/ units[u] < Limit
    BY <2>1, <2>2, <2>3
  <2> QED BY <2>2, <2>3, <2>4, QuietStep
<1> QED BY <1>1, <1>2, <1>3, <1>4, ReleaseStep, ReadStateStep
           DEF Calls, Events, Timeouts

\* What happens inside the calls.
LEMMA InsideStep ==
  ASSUME UnitsInv, NEW t \in Threads, InsideCall(t)
  PROVE  UnitsInv'
<1>1. CASE WakeByAddressAll(t)
  <2>1. \A u \in Threads : [wt[u] EXCEPT !.pc = "woken"] \in Waiting
    BY DEF UnitsInv, Waiting
  <2>2. \A u \in Threads : [wt[u] EXCEPT !.pc = "woken"].pc = "woken"
    BY DEF UnitsInv, Waiting
  <2>3. /\ wt[t].pc = "set" /\ UNCHANGED <<count, units>>
        /\ wt' = [u \in Threads |->
                    IF u = t THEN Run
                    ELSE IF wt[u].pc = "asleep" /\ wt[u].event = wt[t].event
                         THEN [wt[u] EXCEPT !.pc = "woken"] ELSE wt[u]]
    BY <1>1 DEF WakeByAddressAll
  <2>4. wt' \in [Threads -> Waiting]
    BY <2>1, <2>3, RunWaits DEF UnitsInv
  <2>5. \A u \in Threads :
          /\ wt'[u].pc = "probe" <=> wt[u].pc = "probe"
          /\ wt'[u].pc = "semaphore" => wt[u].pc = "semaphore"
    BY <2>2, <2>3, RunWaits
  <2> QED BY <2>3, <2>4, <2>5, QuietStep
<1>2. CASE EventCheck(t)
  BY <1>2, ReturnStep, GotoStep, Zenon DEF EventCheck
<1>3. CASE WaitOnAddress(t)
  BY <1>3, GotoStep DEF WaitOnAddress
<1>4. CASE EventRecheck(t)
  BY <1>4, ReturnStep, GotoStep DEF EventRecheck
<1>5. CASE ReadStateReleases(t)
  BY <1>5, ReadReleasesStep
<1> QED BY <1>1, <1>2, <1>3, <1>4, <1>5 DEF InsideCall

\* Every step conserves the units.
LEMMA UnitsStep ==
  ASSUME UnitsInv, [Next]_vars
  PROVE  UnitsInv'
<1>1. CASE WaitsNext
  <2>1. ASSUME NEW t \in Threads,
               \/ SpuriousWake(t) \/ EventTimeout(t)
               \/ SemaphoreAcquired(t) \/ SemaphoreTimeout(t)
        PROVE  UnitsInv'
    BY <2>1, AcquireStep, ReturnStep, GotoStep
       DEF SpuriousWake, EventTimeout, SemaphoreTimeout
  <2> QED BY <1>1, <2>1, CallStep, InsideStep DEF WaitsNext, Threads
<1>2. ASSUME NEW s \in Setters, DpcRuns(s)
      PROVE  UnitsInv'
  BY <1>2, SetStep DEF DpcRuns, SetDone, Threads, Events
<1>3. CASE UNCHANGED waitVars
  BY <1>3, QuietStep DEF waitVars, UnitsInv
<1> QED BY <1>1, <1>2, <1>3 DEF Next, vars

\* No unit of the semaphore is lost or made, for any number of threads and any
\* limit: each is in the count, with a thread, or in KeReadStateSemaphore.
THEOREM UnitsAlwaysConserved == Spec => []UnitsConserved
<1>1. Init => UnitsInv
  <2> SUFFICES ASSUME Init PROVE UnitsInv
    OBVIOUS
  <2>1. /\ count = Limit /\ units = [t \in Threads |-> 0]
        /\ wt = [t \in Threads |-> Run]
    BY DEF Init, WaitsInit
  <2>2. Taken = {} /\ Probing = {}
    BY <2>1, RunWaits, WaitsAssumption DEF Taken, Probing
  <2>3. UnitsConserved
    BY <2>1, <2>2, FS_EmptySet, UnitsSum, WaitsAssumption
  <2> QED BY <2>1, <2>3, RunWaits, WaitsAssumption DEF UnitsInv
<1>2. UnitsInv /\ [Next]_vars => UnitsInv'
  BY UnitsStep
<1>3. UnitsInv => UnitsConserved
  BY DEF UnitsInv
<1> QED BY <1>1, <1>2, <1>3, PTL DEF Spec

-----------------------------------------------------------------------------
(* Counts.                                                                   *)

\* The references that f says the drivers have, one by one.
Counted(f) == {x \in Drivers \X (1..MaxRefs) : x[2] <= f[x[1]]}

\* They are finitely many,
LEMMA CountedFinite ==
  ASSUME NEW f
  PROVE  IsFiniteSet(Counted(f)) /\ Cardinality(Counted(f)) \in Nat
<1>1. IsFiniteSet(1..MaxRefs)
  BY HandlesAssumption, FS_Interval
<1>2. IsFiniteSet(Drivers \X (1..MaxRefs))
  BY <1>1, HandlesAssumption, FS_Product
<1>3. Counted(f) \in SUBSET (Drivers \X (1..MaxRefs))
  BY DEF Counted
<1> QED BY <1>2, <1>3, FS_Subset, FS_CardinalityType

\* one more when a driver takes one,
LEMMA CountedTaken ==
  ASSUME NEW f \in [Drivers -> 0..MaxRefs], NEW d \in Drivers, f[d] < MaxRefs,
         NEW g \in [Drivers -> 0..MaxRefs], g[d] = f[d] + 1,
         \A e \in Drivers \ {d} : g[e] = f[e]
  PROVE  Cardinality(Counted(g)) = Cardinality(Counted(f)) + 1
<1>1. MaxRefs \in Nat
  BY HandlesAssumption
<1>2. PICK n \in Nat : f[d] = n
  BY <1>1
<1>3. <<d, n + 1>> \in Drivers \X (1..MaxRefs)
  BY <1>1, <1>2
<1>4. <<d, n + 1>> \notin Counted(f)
  BY <1>2 DEF Counted
<1>5. ASSUME NEW e \in Drivers, NEW i \in 1..MaxRefs
      PROVE  i <= g[e] <=> (i <= f[e] \/ <<e, i>> = <<d, n + 1>>)
  <2>1. CASE e = d
    BY <1>1, <1>2, <2>1
  <2>2. CASE e # d
    BY <2>2
  <2> QED BY <2>1, <2>2
<1>6. Counted(g) = Counted(f) \cup {<<d, n + 1>>}
  <2>1. ASSUME NEW x PROVE x \in Counted(g) <=> x \in Counted(f) \/ x = <<d, n + 1>>
    BY <1>3, <1>5 DEF Counted
  <2>2. \A x : x \in Counted(g) <=> x \in Counted(f) \cup {<<d, n + 1>>}
    BY <2>1
  <2>3. Counted(g) \subseteq Counted(f) \cup {<<d, n + 1>>}
    BY <2>2
  <2>4. Counted(f) \cup {<<d, n + 1>>} \subseteq Counted(g)
    BY <2>2
  <2> QED BY <2>3, <2>4
<1>7. PICK S, x : S = Counted(f) /\ x = <<d, n + 1>>
  BY Zenon
<1>8. IsFiniteSet(S) /\ x \notin S
  BY <1>4, <1>7, CountedFinite
<1>9. Cardinality(S \cup {x}) = Cardinality(S) + 1
  BY <1>8, FS_AddElement, Zenon
<1> QED BY <1>6, <1>7, <1>9

\* one less when it returns one, which it has.
LEMMA CountedReturned ==
  ASSUME NEW f \in [Drivers -> 0..MaxRefs], NEW d \in Drivers, f[d] > 0,
         NEW g \in [Drivers -> 0..MaxRefs], g[d] = f[d] - 1,
         \A e \in Drivers \ {d} : g[e] = f[e]
  PROVE  Cardinality(Counted(f)) = Cardinality(Counted(g)) + 1
<1>1. MaxRefs \in Nat
  BY HandlesAssumption
<1>2. g[d] < MaxRefs /\ f[d] = g[d] + 1
  BY <1>1
<1>3. \A e \in Drivers \ {d} : f[e] = g[e]
  OBVIOUS
<1> QED BY <1>2, <1>3, CountedTaken

\* There is none at all only if no driver has one.
LEMMA CountedNone ==
  ASSUME NEW f \in [Drivers -> 0..MaxRefs], Cardinality(Counted(f)) = 0
  PROVE  \A d \in Drivers : f[d] = 0
<1>1. Counted(f) = {}
  BY CountedFinite, FS_EmptySet
<1>2. MaxRefs \in Nat
  BY HandlesAssumption
<1> SUFFICES ASSUME NEW d \in Drivers, f[d] # 0 PROVE FALSE
  OBVIOUS
<1>3. 1 \in 1..MaxRefs /\ 1 <= f[d]
  BY <1>2
<1>4. <<d, 1>> \in Counted(f)
  BY <1>3 DEF Counted
<1> QED BY <1>1, <1>4

\* The functions that have nobody's reference count to nothing.
LEMMA CountedNothing ==
  ASSUME NEW f, \A d \in Drivers : f[d] = 0
  PROVE  Cardinality(Counted(f)) = 0
<1>1. MaxRefs \in Nat
  BY HandlesAssumption
<1>2. ASSUME NEW x \in Counted(f) PROVE FALSE
  <2>1. PICK d \in Drivers, i \in 1..MaxRefs : x = <<d, i>> /\ i <= f[d]
    BY DEF Counted
  <2> QED BY <1>1, <2>1
<1>3. Counted(f) = {}
  BY <1>2
<1> QED BY <1>3, FS_EmptySet

\* A set of naturals that is not empty has a first element.
LEMMA FirstExists ==
  ASSUME NEW S \in SUBSET Nat, S # {}
  PROVE  FirstOf(S) \in S /\ \A h \in S : FirstOf(S) <= h
<1>1. \E x \in S : \A y \in S : ~ (<<y, x>> \in OpToRel(<, Nat))
  BY NatLessThanWellFounded, WFMin, Zenon
<1>2. PICK x \in S : \A y \in S : ~ (<<y, x>> \in OpToRel(<, Nat))
  BY <1>1, Zenon
<1>3. \A y \in S : ~ (y < x)
  BY <1>2, Zenon DEF OpToRel
<1>4. \E g \in S : \A h \in S : g <= h
  BY <1>3
<1> QED BY <1>4, Zenon DEF FirstOf

-----------------------------------------------------------------------------
(* References.                                                               *)

\* The counts of the objects and of the token are those of the references.
ReferenceInv ==
  /\ refs \in [Drivers -> [Objects -> 0..MaxRefs]]
  /\ _object_references \in [Objects -> Nat]
  /\ tokens \in [Drivers -> 0..MaxRefs]
  /\ _primary_token_ref_count \in Nat
  /\ ReferencesCounted

\* What a driver has of an object.
RefsOf(o) == [d \in Drivers |-> refs[d][o]]

\* The references to an object, as a count of a function.
LEMMA RefsOfCounted ==
  ASSUME NEW o \in Objects
  PROVE  ReferencesTo(o) = Counted(RefsOf(o)) /\ ReferencesTo(o)' = Counted(RefsOf(o)')
BY DEF ReferencesTo, Counted, RefsOf

\* The references to the token, as a count of a function.
LEMMA TokensCounted ==
  TokenReferences = Counted(tokens) /\ TokenReferences' = Counted(tokens')
BY DEF TokenReferences, Counted

\* The objects that a step does not touch keep their counts.
LEMMA OtherObjects ==
  ASSUME ReferenceInv, NEW d \in Drivers, NEW o \in Objects, NEW n \in 0..MaxRefs,
         refs' = [refs EXCEPT ![d][o] = n],
         NEW m \in Nat, _object_references' = [_object_references EXCEPT ![o] = m],
         open \ {o} \subseteq open',
         UNCHANGED <<tokens, _primary_token_ref_count>>,
         m = Cardinality(Counted(RefsOf(o)')),
         (\E e \in Drivers : refs'[e][o] > 0) => o \in open'
  PROVE  ReferenceInv'
<1>1. refs' \in [Drivers -> [Objects -> 0..MaxRefs]] /\ _object_references' \in [Objects -> Nat]
  BY DEF ReferenceInv
<1>2. ASSUME NEW p \in Objects
      PROVE  /\ _object_references'[p] = Cardinality(ReferencesTo(p)')
             /\ (\E e \in Drivers : refs'[e][p] > 0) => p \in open'
  <2>1. CASE p = o
    BY <2>1, RefsOfCounted DEF ReferenceInv
  <2>2. CASE p # o
    <3>1. _object_references'[p] = _object_references[p] /\ (p \in open => p \in open')
      BY <2>2 DEF ReferenceInv
    <3>2. \A e \in Drivers : refs'[e][p] = refs[e][p]
      BY <2>2 DEF ReferenceInv
    <3>3. ReferencesTo(p)' = ReferencesTo(p)
      BY <3>2 DEF ReferencesTo
    <3> QED BY <3>1, <3>2, <3>3 DEF ReferenceInv, ReferencesCounted
  <2> QED BY <2>1, <2>2
<1>3. TokenReferences' = TokenReferences
  BY DEF TokenReferences
<1> QED BY <1>1, <1>2, <1>3 DEF ReferenceInv, ReferencesCounted

\* A reference counts one more for its object, which is open.
LEMMA ReferenceStep ==
  ASSUME ReferenceInv, NEW d \in Drivers, NEW o \in Objects, NEW information \in BOOLEAN,
         ObReferenceObjectByHandle(d, o, information)
  PROVE  ReferenceInv'
<1>1. CASE information
  BY <1>1 DEF ObReferenceObjectByHandle, ReferenceInv, ReferencesCounted, ReferencesTo,
     TokenReferences
<1>2. CASE ~ information
  <2>1. /\ o \in open /\ refs[d][o] < MaxRefs
        /\ _object_references' = [_object_references EXCEPT ![o] = _object_references[o] + 1]
        /\ refs' = [refs EXCEPT ![d][o] = refs[d][o] + 1]
        /\ UNCHANGED <<open, tokens, _primary_token_ref_count>>
    BY <1>2 DEF ObReferenceObjectByHandle, ObfReferenceObject
  <2>2. PICK n \in Nat : refs[d][o] = n /\ n + 1 \in 0..MaxRefs
    BY <2>1, HandlesAssumption DEF ReferenceInv
  <2>3. PICK m \in Nat : _object_references[o] = m /\ m = Cardinality(Counted(RefsOf(o)))
    BY RefsOfCounted DEF ReferenceInv, ReferencesCounted
  <2>4. /\ RefsOf(o) \in [Drivers -> 0..MaxRefs] /\ RefsOf(o)' \in [Drivers -> 0..MaxRefs]
        /\ RefsOf(o)[d] = n /\ RefsOf(o)'[d] = n + 1
        /\ \A e \in Drivers \ {d} : RefsOf(o)'[e] = RefsOf(o)[e]
    BY <2>1, <2>2 DEF RefsOf, ReferenceInv
  <2>5. n < MaxRefs
    BY <2>2, HandlesAssumption
  <2>6. m + 1 = Cardinality(Counted(RefsOf(o)'))
    <3>1. PICK f, g : f = RefsOf(o) /\ g = RefsOf(o)'
      OBVIOUS
    <3>2. /\ f \in [Drivers -> 0..MaxRefs] /\ g \in [Drivers -> 0..MaxRefs]
          /\ f[d] < MaxRefs /\ g[d] = f[d] + 1 /\ \A e \in Drivers \ {d} : g[e] = f[e]
      BY <2>4, <2>5, <3>1
    <3>3. Cardinality(Counted(g)) = Cardinality(Counted(f)) + 1
      BY <3>2, CountedTaken, Zenon
    <3> QED BY <2>3, <3>1, <3>3
  <2>7. PICK k, l : k = n + 1 /\ l = m + 1
    OBVIOUS
  <2>8. /\ k \in 0..MaxRefs /\ l \in Nat /\ l = Cardinality(Counted(RefsOf(o)'))
        /\ refs' = [refs EXCEPT ![d][o] = k]
        /\ _object_references' = [_object_references EXCEPT ![o] = l]
        /\ open \ {o} \subseteq open' /\ o \in open'
    BY <2>1, <2>2, <2>3, <2>6, <2>7
  <2> QED BY <2>1, <2>8, OtherObjects, Zenon
<1> QED BY <1>1, <1>2

\* The return of one counts one less, and closes the object after the last.
LEMMA CloseStep ==
  ASSUME ReferenceInv, NEW d \in Drivers, NEW o \in Objects, ObCloseHandle(d, o)
  PROVE  ReferenceInv'
<1>1. /\ refs[d][o] > 0
      /\ _object_references' = [_object_references EXCEPT ![o] = _object_references[o] - 1]
      /\ open' = IF _object_references'[o] = 0 THEN open \ {o} ELSE open
      /\ refs' = [refs EXCEPT ![d][o] = refs[d][o] - 1]
      /\ UNCHANGED <<tokens, _primary_token_ref_count>>
  BY DEF ObCloseHandle, ObfDereferenceObject
<1>2. PICK n \in Nat : refs[d][o] = n /\ n > 0 /\ n - 1 \in 0..MaxRefs
  BY <1>1, HandlesAssumption DEF ReferenceInv
<1>3. PICK m \in Nat : _object_references[o] = m /\ m = Cardinality(Counted(RefsOf(o)))
  BY RefsOfCounted DEF ReferenceInv, ReferencesCounted
<1>4. /\ RefsOf(o) \in [Drivers -> 0..MaxRefs] /\ RefsOf(o)' \in [Drivers -> 0..MaxRefs]
      /\ RefsOf(o)[d] = n /\ RefsOf(o)'[d] = n - 1
      /\ \A e \in Drivers \ {d} : RefsOf(o)'[e] = RefsOf(o)[e]
  BY <1>1, <1>2 DEF RefsOf, ReferenceInv
<1>5. PICK k \in Nat : k = Cardinality(Counted(RefsOf(o)'))
  BY CountedFinite
<1>6. m = k + 1
  <2>1. PICK f, g : f = RefsOf(o) /\ g = RefsOf(o)'
    OBVIOUS
  <2>2. /\ f \in [Drivers -> 0..MaxRefs] /\ g \in [Drivers -> 0..MaxRefs]
        /\ f[d] > 0 /\ g[d] = f[d] - 1 /\ \A e \in Drivers \ {d} : g[e] = f[e]
    BY <1>2, <1>4, <2>1
  <2>3. Cardinality(Counted(f)) = Cardinality(Counted(g)) + 1
    BY <2>2, CountedReturned, Zenon
  <2> QED BY <1>3, <1>5, <2>1, <2>3
<1>7. m - 1 = k /\ m - 1 \in Nat /\ _object_references'[o] = m - 1
  BY <1>1, <1>3, <1>6 DEF ReferenceInv
<1>8. (\E e \in Drivers : refs'[e][o] > 0) => o \in open'
  <2> SUFFICES ASSUME NEW e \in Drivers, refs'[e][o] > 0 PROVE o \in open'
    OBVIOUS
  <2>1. o \in open
    BY <1>1, <1>2 DEF ReferenceInv, ReferencesCounted
  <2>2. RefsOf(o)'[e] # 0
    BY DEF RefsOf
  <2>3. k # 0
    BY <1>4, <1>5, <2>2, CountedNone
  <2> QED BY <1>1, <1>7, <2>1, <2>3
<1>9. open \ {o} \subseteq open'
  BY <1>1
<1>10. PICK i : i = n - 1
  OBVIOUS
<1>11. /\ i \in 0..MaxRefs /\ refs' = [refs EXCEPT ![d][o] = i]
       /\ _object_references' = [_object_references EXCEPT ![o] = k]
  BY <1>1, <1>2, <1>3, <1>7, <1>10, Zenon
<1> QED BY <1>1, <1>5, <1>8, <1>9, <1>11, OtherObjects, Zenon

\* The same for the token.
LEMMA TokenStep ==
  ASSUME ReferenceInv, NEW d \in Drivers,
         PsReferencePrimaryToken(d) \/ PsDereferencePrimaryToken(d)
  PROVE  ReferenceInv'
<1>1. UNCHANGED <<_object_references, open, refs>>
  BY DEF PsReferencePrimaryToken, PsDereferencePrimaryToken
<1>2. \A o \in Objects : ReferencesTo(o)' = ReferencesTo(o)
  BY <1>1, Zenon DEF ReferencesTo
<1>3. PICK n \in 0..MaxRefs : tokens[d] = n
  BY DEF ReferenceInv
<1>4. PICK m \in Nat : _primary_token_ref_count = m /\ m = Cardinality(Counted(tokens))
  BY TokensCounted DEF ReferenceInv, ReferencesCounted
<1>5. tokens \in [Drivers -> 0..MaxRefs] /\ MaxRefs \in Nat
  BY HandlesAssumption DEF ReferenceInv
<1>6. /\ tokens' \in [Drivers -> 0..MaxRefs] /\ _primary_token_ref_count' \in Nat
      /\ _primary_token_ref_count' = Cardinality(Counted(tokens'))
  <2>1. CASE PsReferencePrimaryToken(d)
    <3>1. n < MaxRefs /\ tokens' = [tokens EXCEPT ![d] = n + 1] /\ _primary_token_ref_count' = m + 1
      BY <1>3, <1>4, <2>1 DEF PsReferencePrimaryToken
    <3>2. /\ tokens' \in [Drivers -> 0..MaxRefs]
          /\ tokens'[d] = n + 1
          /\ \A e \in Drivers \ {d} : tokens'[e] = tokens[e]
      BY <1>3, <1>5, <3>1
    <3>3. PICK g : g = tokens'
      OBVIOUS
    <3>4. /\ g \in [Drivers -> 0..MaxRefs] /\ tokens[d] < MaxRefs /\ g[d] = tokens[d] + 1
          /\ \A e \in Drivers \ {d} : g[e] = tokens[e]
      BY <1>3, <3>1, <3>2, <3>3
    <3>5. Cardinality(Counted(g)) = Cardinality(Counted(tokens)) + 1
      BY <1>5, <3>4, CountedTaken, Zenon
    <3> QED BY <1>4, <3>1, <3>2, <3>3, <3>5
  <2>2. CASE PsDereferencePrimaryToken(d)
    <3>1. n > 0 /\ m > 0 /\ tokens' = [tokens EXCEPT ![d] = n - 1] /\ _primary_token_ref_count' = m - 1
      BY <1>3, <1>4, <2>2 DEF PsDereferencePrimaryToken
    <3>2. /\ tokens' \in [Drivers -> 0..MaxRefs]
          /\ tokens'[d] = n - 1
          /\ \A e \in Drivers \ {d} : tokens'[e] = tokens[e]
      BY <1>3, <1>5, <3>1
    <3>3. PICK g : g = tokens'
      OBVIOUS
    <3>4. /\ g \in [Drivers -> 0..MaxRefs] /\ tokens[d] > 0 /\ g[d] = tokens[d] - 1
          /\ \A e \in Drivers \ {d} : g[e] = tokens[e]
      BY <1>3, <3>1, <3>2, <3>3
    <3>5. Cardinality(Counted(tokens)) = Cardinality(Counted(g)) + 1
      BY <1>5, <3>4, CountedReturned, Zenon
    <3>6. Cardinality(Counted(g)) \in Nat
      BY CountedFinite
    <3> QED BY <1>4, <3>1, <3>2, <3>3, <3>5, <3>6
  <2> QED BY <2>1, <2>2
<1> QED BY <1>1, <1>2, <1>6, TokensCounted DEF ReferenceInv, ReferencesCounted

\* A step that touches no reference.
LEMMA ReferencesKept ==
  ASSUME ReferenceInv, UNCHANGED <<_object_references, open, refs, _primary_token_ref_count, tokens>>
  PROVE  ReferenceInv'
BY Zenon DEF ReferenceInv, ReferencesCounted, ReferencesTo, TokenReferences

-----------------------------------------------------------------------------
(* Processors.                                                               *)

\* The processors of the groups before the next one,
LEMMA NoProcessors == ProcessorsBefore(0) = {}
BY DEF ProcessorsBefore

\* which adds its own.
LEMMA ProcessorsOfNext ==
  ASSUME groups \in Seq(Nat), NEW g \in Nat, g < Len(groups), IsFiniteSet(ProcessorsBefore(g))
  PROVE  /\ IsFiniteSet(ProcessorsBefore(g + 1))
         /\ Cardinality(ProcessorsBefore(g + 1)) = Cardinality(ProcessorsBefore(g)) + groups[g + 1]
<1> DEFINE own == {g + 1} \X (1..groups[g + 1])
<1>1. groups[g + 1] \in Nat
  OBVIOUS
<1>2. ProcessorsBefore(g + 1) = ProcessorsBefore(g) \cup own
  <2>1. 1..(g + 1) = (1..g) \cup {g + 1}
    OBVIOUS
  <2>2. ProcessorsBefore(g + 1) \subseteq ProcessorsBefore(g) \cup own
    <3> SUFFICES ASSUME NEW x \in ProcessorsBefore(g + 1) PROVE x \in ProcessorsBefore(g) \cup own
      OBVIOUS
    <3>1. PICK i \in 1..(g + 1) : x \in {i} \X (1..groups[i])
      BY DEF ProcessorsBefore
    <3>2. CASE i \in 1..g
      BY <3>1, <3>2 DEF ProcessorsBefore
    <3>3. CASE i = g + 1
      BY <3>1, <3>3
    <3> QED BY <2>1, <3>2, <3>3
  <2>3. ProcessorsBefore(g) \cup own \subseteq ProcessorsBefore(g + 1)
    BY <2>1 DEF ProcessorsBefore
  <2> QED BY <2>2, <2>3
<1>3. ProcessorsBefore(g) \cap own = {}
  <2> SUFFICES ASSUME NEW x, x \in ProcessorsBefore(g), x \in own PROVE FALSE
    BY Zenon
  <2>1. PICK i \in 1..g : x \in {i} \X (1..groups[i])
    BY DEF ProcessorsBefore
  <2>2. x[1] = i /\ x[1] = g + 1
    BY <2>1
  <2> QED BY <2>2
<1>4. IsFiniteSet(own) /\ Cardinality(own) = groups[g + 1]
  <2>1. IsFiniteSet({g + 1}) /\ Cardinality({g + 1}) = 1
    BY FS_Singleton, Zenon
  <2>2. IsFiniteSet(1..groups[g + 1]) /\ Cardinality(1..groups[g + 1]) = groups[g + 1]
    <3>1. PICK n \in Nat : groups[g + 1] = n
      BY <1>1
    <3>2. 1 \in Int /\ n \in Int
      OBVIOUS
    <3>3. IsFiniteSet(1..n) /\ Cardinality(1..n) = IF 1 > n THEN 0 ELSE n - 1 + 1
      BY <3>2, FS_Interval, Zenon
    <3> QED BY <3>1, <3>3
  <2>3. IsFiniteSet(own) /\ Cardinality(own) = Cardinality({g + 1}) * Cardinality(1..groups[g + 1])
    BY <2>1, <2>2, FS_Product, Zenon
  <2> QED BY <1>1, <2>1, <2>2, <2>3
<1>5. /\ IsFiniteSet(ProcessorsBefore(g) \cup own)
      /\ Cardinality(ProcessorsBefore(g) \cup own) = Cardinality(ProcessorsBefore(g)) + Cardinality(own) - Cardinality(ProcessorsBefore(g) \cap own)
  BY <1>4, FS_Union, Zenon
<1>6. Cardinality(ProcessorsBefore(g)) \in Nat
  BY FS_CardinalityType
<1>7. Cardinality(ProcessorsBefore(g) \cap own) = 0
  BY <1>3, FS_EmptySet, Zenon
<1> HIDE DEF own
<1>8. PICK a \in Nat, n \in Nat :
        /\ Cardinality(ProcessorsBefore(g)) = a /\ groups[g + 1] = n /\ Cardinality(own) = n
  BY <1>1, <1>4, <1>6
<1>9. Cardinality(ProcessorsBefore(g) \cup own) = a + n - 0
  BY <1>5, <1>7, <1>8
<1>10. a + n - 0 = a + n
  OBVIOUS
<1> QED BY <1>2, <1>5, <1>8, <1>9, <1>10, Zenon

\* A table holds the processors before each of its groups, and the sum that
\* goes with it those before the next.
Sums(table, sum) ==
  /\ table \in Seq(Nat) /\ sum \in Nat /\ Len(table) <= Len(groups)
  /\ \A g \in 0..Len(table) : IsFiniteSet(ProcessorsBefore(g))
  /\ \A g \in 1..Len(table) : table[g] = Cardinality(ProcessorsBefore(g - 1))
  /\ sum = Cardinality(ProcessorsBefore(Len(table)))

\* The tables of the two libraries.
ProcessorInv ==
  /\ groups \in Seq(Nat) /\ groups # << >>
  /\ Sums(Offset, current_processor_count)
  /\ Sums(_usersim_platform_group_to_index_map, base_index)
  /\ _usersim_platform_group_to_index_map # << >> => Len(Offset) = Len(groups)

\* A round of either loop appends the sum and adds the size of the group.
LEMMA Round ==
  ASSUME groups \in Seq(Nat), NEW table, NEW sum, Sums(table, sum), Len(table) + 1 <= Len(groups)
  PROVE  Sums(Append(table, sum), sum + groups[Len(table) + 1])
<1>1. PICK n \in Nat : Len(table) = n
  BY DEF Sums
<1>2. table \in Seq(Nat) /\ sum \in Nat /\ n < Len(groups) /\ Len(groups) \in Nat
  BY <1>1 DEF Sums
<1>3. groups[n + 1] \in Nat
  BY <1>1, <1>2
<1>4. PICK t : t = Append(table, sum)
  BY Zenon
<1>5. t \in Seq(Nat) /\ Len(t) = n + 1 /\ (\A g \in 1..n : t[g] = table[g]) /\ t[n + 1] = sum
  BY <1>1, <1>2, <1>4
<1>6. /\ IsFiniteSet(ProcessorsBefore(n + 1))
      /\ Cardinality(ProcessorsBefore(n + 1)) = Cardinality(ProcessorsBefore(n)) + groups[n + 1]
  BY <1>1, <1>2, ProcessorsOfNext DEF Sums
<1>7. sum = Cardinality(ProcessorsBefore(n))
  BY <1>1 DEF Sums
<1>8. \A g \in 0..(n + 1) : IsFiniteSet(ProcessorsBefore(g))
  <2> SUFFICES ASSUME NEW g \in 0..(n + 1) PROVE IsFiniteSet(ProcessorsBefore(g))
    OBVIOUS
  <2>1. g \in 0..n \/ g = n + 1
    OBVIOUS
  <2> QED BY <1>1, <1>6, <2>1 DEF Sums
<1>9. \A g \in 1..(n + 1) : t[g] = Cardinality(ProcessorsBefore(g - 1))
  <2> SUFFICES ASSUME NEW g \in 1..(n + 1) PROVE t[g] = Cardinality(ProcessorsBefore(g - 1))
    OBVIOUS
  <2>1. CASE g \in 1..n
    BY <1>1, <1>5, <2>1 DEF Sums
  <2>2. CASE g = n + 1
    <3>1. g - 1 = n
      BY <2>2
    <3> QED BY <1>5, <1>7, <2>2, <3>1
  <2> QED BY <2>1, <2>2
<1>10. sum + groups[n + 1] \in Nat /\ n + 1 <= Len(groups)
  BY <1>2, <1>3
<1>11. sum + groups[n + 1] = Cardinality(ProcessorsBefore(n + 1))
  BY <1>6, <1>7
<1> QED BY <1>1, <1>4, <1>5, <1>8, <1>9, <1>10, <1>11 DEF Sums

\* No group has been summed at the start.
LEMMA NothingSummed ==
  ASSUME groups \in Seq(Nat)
  PROVE  Sums(<< >>, 0)
<1>1. IsFiniteSet(ProcessorsBefore(0)) /\ Cardinality(ProcessorsBefore(0)) = 0
  BY NoProcessors, FS_EmptySet, Zenon
<1> QED BY <1>1 DEF Sums

\* Nothing but the tables and the sums is in them, if the groups are the same.
LEMMA SumsKept ==
  ASSUME UNCHANGED groups
  PROVE  /\ Sums(Offset', current_processor_count') => Sums(Offset, current_processor_count)'
         /\ Sums(_usersim_platform_group_to_index_map', base_index')
              => Sums(_usersim_platform_group_to_index_map, base_index)'
<1>1. \A g : ProcessorsBefore(g)' = ProcessorsBefore(g)
  BY DEF ProcessorsBefore
<1> QED BY <1>1, Zenon DEF Sums

\* A step that touches no number of a processor.
LEMMA ProcessorsKept ==
  ASSUME ProcessorInv, UNCHANGED groups, UNCHANGED processorVars
  PROVE  ProcessorInv'
<1>1. UNCHANGED <<Offset, current_processor_count, _usersim_platform_group_to_index_map, base_index>>
  BY DEF processorVars
<1> QED BY <1>1, SumsKept DEF ProcessorInv

\* A step of either loop over the groups.
LEMMA ProcessorStep ==
  ASSUME ProcessorInv, AddGroupOffset \/ AddGroupIndex
  PROVE  ProcessorInv'
<1>1. groups \in Seq(Nat) /\ groups # << >> /\ groups' = groups
  BY DEF ProcessorInv, AddGroupOffset, AddGroupIndex
<1>2. /\ Sums(Offset', current_processor_count') => Sums(Offset, current_processor_count)'
      /\ Sums(_usersim_platform_group_to_index_map', base_index')
           => Sums(_usersim_platform_group_to_index_map, base_index)'
  BY <1>1, SumsKept
<1>3. /\ Sums(Offset, current_processor_count)
      /\ Sums(_usersim_platform_group_to_index_map, base_index)
      /\ _usersim_platform_group_to_index_map # << >> => Len(Offset) = Len(groups)
  BY DEF ProcessorInv
<1>4. CASE AddGroupOffset
  <2>1. /\ Len(Offset) + 1 <= Len(groups)
        /\ Offset' = Append(Offset, current_processor_count)
        /\ current_processor_count' = current_processor_count + groups[Len(Offset) + 1]
        /\ UNCHANGED <<_usersim_platform_group_to_index_map, base_index>>
    BY <1>4 DEF AddGroupOffset
  <2>2. Sums(Offset', current_processor_count')
    BY <1>1, <1>3, <2>1, Round
  <2>3. _usersim_platform_group_to_index_map = << >>
    BY <1>1, <1>3, <2>1 DEF Sums
  <2>4. Sums(_usersim_platform_group_to_index_map', base_index')
    BY <1>3, <2>1
  <2> QED BY <1>1, <1>2, <2>1, <2>2, <2>3, <2>4 DEF ProcessorInv
<1>5. CASE AddGroupIndex
  <2>1. /\ Len(_usersim_platform_group_to_index_map) + 1 <= Len(groups) /\ Len(Offset) = Len(groups)
        /\ _usersim_platform_group_to_index_map' = Append(_usersim_platform_group_to_index_map, base_index)
        /\ base_index' = base_index + groups[Len(_usersim_platform_group_to_index_map) + 1]
        /\ UNCHANGED <<Offset, current_processor_count>>
    BY <1>5 DEF AddGroupIndex
  <2>2. Sums(_usersim_platform_group_to_index_map', base_index')
    BY <1>1, <1>3, <2>1, Round
  <2>3. Sums(Offset', current_processor_count')
    BY <1>3, <2>1
  <2> QED BY <1>1, <1>2, <2>1, <2>2, <2>3 DEF ProcessorInv
<1> QED BY <1>4, <1>5

\* What the tables say when both are complete.
LEMMA Complete ==
  ASSUME ProcessorInv, Started
  PROVE  /\ Len(groups) \in Nat /\ Len(groups) > 0
         /\ ProcessorCount \in Nat
         /\ \A g \in 1..Len(groups) :
              /\ groups[g] \in Nat
              /\ _usersim_platform_group_to_index_map[g] \in Nat
              /\ Offset[g] = _usersim_platform_group_to_index_map[g]
              /\ g < Len(groups) =>
                   _usersim_platform_group_to_index_map[g + 1] = _usersim_platform_group_to_index_map[g] + groups[g]
              /\ g = Len(groups) => ProcessorCount = _usersim_platform_group_to_index_map[g] + groups[g]
         /\ _usersim_platform_group_to_index_map[1] = 0
<1>1. groups \in Seq(Nat) /\ groups # << >>
  BY DEF ProcessorInv
<1>2. PICK n \in Nat : Len(groups) = n /\ n > 0
  BY <1>1
<1>3. PICK m : m = _usersim_platform_group_to_index_map
  OBVIOUS
<1>4. m \in Seq(Nat) /\ Len(m) = n /\ Len(Offset) = n
  <2>1. m \in Seq(Nat) /\ Len(m) = n
    BY <1>2, <1>3 DEF ProcessorInv, Started, Sums
  <2>2. m # << >>
    BY <1>2, <2>1
  <2> QED BY <1>2, <1>3, <2>1, <2>2 DEF ProcessorInv
<1>5. /\ \A g \in 0..n : IsFiniteSet(ProcessorsBefore(g))
      /\ \A g \in 1..n : m[g] = Cardinality(ProcessorsBefore(g - 1))
      /\ \A g \in 1..n : Offset[g] = Cardinality(ProcessorsBefore(g - 1))
  BY <1>3, <1>4 DEF ProcessorInv, Sums
<1>6. ProcessorCount = Cardinality(ProcessorsBefore(n)) /\ ProcessorCount \in Nat
  BY <1>2, <1>5, FS_CardinalityType DEF ProcessorCount
<1>7. ASSUME NEW g \in 1..n
      PROVE  Cardinality(ProcessorsBefore(g)) = m[g] + groups[g]
  <2>1. PICK f \in Nat : f = g - 1
    OBVIOUS
  <2>2. f < Len(groups) /\ f + 1 = g /\ f \in 0..n
    BY <1>2, <2>1
  <2>3. Cardinality(ProcessorsBefore(f + 1)) = Cardinality(ProcessorsBefore(f)) + groups[f + 1]
    BY <1>1, <1>5, <2>2, ProcessorsOfNext, Zenon
  <2>4. m[g] = Cardinality(ProcessorsBefore(f))
    BY <1>5, <2>1
  <2> QED BY <2>2, <2>3, <2>4, Zenon
<1>8. ASSUME NEW g \in 1..n, g < n PROVE m[g + 1] = m[g] + groups[g]
  <2>1. g + 1 \in 1..n /\ (g + 1) - 1 = g
    BY <1>8
  <2>2. m[g + 1] = Cardinality(ProcessorsBefore(g))
    BY <1>5, <2>1
  <2> QED BY <1>7, <2>2
<1>9. m[1] = 0
  <2>1. 1 \in 1..n /\ 1 - 1 = 0
    BY <1>2
  <2>2. m[1] = Cardinality(ProcessorsBefore(0))
    BY <1>5, <2>1
  <2> QED BY <2>2, NoProcessors, FS_EmptySet
<1>10. ASSUME NEW g \in 1..n PROVE groups[g] \in Nat /\ m[g] \in Nat /\ Offset[g] = m[g]
  <2>1. groups[g] \in Nat
    BY <1>1, <1>2
  <2>2. m[g] \in Nat
    BY <1>4
  <2> QED BY <1>5, <2>1, <2>2
<1>11. \A g \in 1..n : g = n => ProcessorCount = m[g] + groups[g]
  BY <1>6, <1>7
<1> QED BY <1>2, <1>3, <1>6, <1>8, <1>9, <1>10, <1>11, Zenon

\* The processor of an index is one of the group that the search finds: the
\* group before it would start behind the index, the one after it does.
LEMMA IndexToNumber ==
  ASSUME ProcessorInv, Started, NEW index \in 0..(ProcessorCount - 1)
  PROVE  LET n == KeGetProcessorNumberFromIndex(index)
         IN  /\ n.group \in 0..(Len(groups) - 1)
             /\ n.number \in 0..(groups[n.group + 1] - 1)
             /\ KeGetProcessorIndexFromNumber(n) = index
             /\ cxplat_get_current_processor_number(n) = index
<1> DEFINE behind == {g \in 0..(Len(groups) - 1) : index < GroupToIndex(g)}
           group == (IF behind # {} THEN FirstOf(behind) ELSE Len(groups)) - 1
<1>1. PICK l \in Nat, c \in Nat : l = Len(groups) /\ l > 0 /\ c = ProcessorCount
  BY Complete
<1>0. PICK m : m = _usersim_platform_group_to_index_map
  OBVIOUS
<1>2. index \in Nat /\ index < c
  BY <1>1
<1>3. \A g \in 1..l : /\ groups[g] \in Nat /\ m[g] \in Nat /\ Offset[g] = m[g]
                     /\ (g < l => m[g + 1] = m[g] + groups[g])
                     /\ (g = l => c = m[g] + groups[g])
  BY <1>0, <1>1, Complete, Zenon
<1>4. m[1] = 0
  BY <1>0, Complete
<1>5. \A g : GroupToIndex(g) = m[g + 1]
  BY <1>0 DEF GroupToIndex
<1>6. PICK k \in 1..l : group = k - 1 /\ m[k] <= index /\ index < m[k] + groups[k]
  <2>1. CASE behind = {}
    <3>1. group = l - 1
      BY <1>1, <2>1
    <3>2. l - 1 \in 0..(l - 1) /\ (l - 1) + 1 = l /\ l \in 1..l
      BY <1>1
    <3>3. ~ (index < m[l])
      BY <1>1, <1>5, <2>1, <3>2, Zenon
    <3>4. groups[l] \in Nat /\ m[l] \in Nat /\ c = m[l] + groups[l]
      BY <1>3, <3>2
    <3>5. m[l] <= index /\ index < m[l] + groups[l]
      BY <1>2, <3>3, <3>4
    <3> QED BY <3>1, <3>2, <3>5, Zenon
  <2>2. CASE behind # {}
    <3>1. PICK f : f = FirstOf(behind)
      BY Zenon
    <3>2. behind \in SUBSET Nat
      BY <1>1
    <3>3. f \in behind /\ \A h \in behind : f <= h
      BY <2>2, <3>1, <3>2, FirstExists, Zenon
    <3>4. f \in 0..(l - 1) /\ index < m[f + 1]
      BY <1>1, <1>5, <3>3
    <3>5. f # 0
      <4> SUFFICES ASSUME f = 0 PROVE FALSE
        OBVIOUS
      <4>1. index < m[1]
        BY <3>4
      <4> QED BY <1>2, <1>4, <4>1
    <3>6. f \in 1..l /\ f < l /\ f - 1 \in 0..(l - 1) /\ (f - 1) + 1 = f
      BY <3>4, <3>5
    <3>7. f - 1 \notin behind
      BY <3>3, <3>6
    <3>8. ~ (index < m[f])
      BY <1>1, <1>5, <3>6, <3>7
    <3>9. group = f - 1
      BY <2>2, <3>1
    <3>10. groups[f] \in Nat /\ m[f] \in Nat /\ m[f + 1] = m[f] + groups[f]
      BY <1>3, <3>6
    <3>11. m[f] <= index /\ index < m[f] + groups[f]
      BY <1>2, <3>4, <3>8, <3>10
    <3> QED BY <3>6, <3>9, <3>11, Zenon
  <2> QED BY <2>1, <2>2, Zenon
<1>7. KeGetProcessorNumberFromIndex(index) = [group |-> group, number |-> index - GroupToIndex(group)]
  BY Zenon DEF KeGetProcessorNumberFromIndex
<1> HIDE DEF group
<1>8. PICK n : n = KeGetProcessorNumberFromIndex(index)
  OBVIOUS
<1>9. n.group = k - 1 /\ n.group + 1 = k /\ n.number = index - m[k]
  <2>1. n.group = group /\ n.number = index - GroupToIndex(group)
    BY <1>7, <1>8
  <2>2. GroupToIndex(group) = m[k]
    BY <1>5, <1>6
  <2> QED BY <1>6, <2>1, <2>2
<1>10. groups[k] \in Nat /\ m[k] \in Nat /\ Offset[k] = m[k]
  BY <1>3, <1>6
<1>11. n.group \in 0..(Len(groups) - 1) /\ n.number \in 0..(groups[n.group + 1] - 1)
  BY <1>1, <1>2, <1>6, <1>9, <1>10
<1>12. KeGetProcessorIndexFromNumber(n) = index
  BY <1>2, <1>5, <1>9, <1>10 DEF KeGetProcessorIndexFromNumber
<1>13. cxplat_get_current_processor_number(n) = index
  BY <1>2, <1>9, <1>10 DEF cxplat_get_current_processor_number
<1> QED BY <1>8, <1>11, <1>12, <1>13, Zenon

-----------------------------------------------------------------------------
\* Every step keeps both invariants.
LEMMA HandleStep ==
  ASSUME ReferenceInv, ProcessorInv, HandleNext
  PROVE  ReferenceInv' /\ ProcessorInv'
<1>1. CASE AddGroupOffset \/ AddGroupIndex
  <2>1. UNCHANGED <<_object_references, open, refs, _primary_token_ref_count, tokens>>
    BY <1>1, Zenon DEF AddGroupOffset, AddGroupIndex, referenceVars
  <2> QED BY <1>1, <2>1, ProcessorStep, ReferencesKept
<1>2. ASSUME NEW d \in Drivers, DriverStep(d) PROVE ReferenceInv' /\ ProcessorInv'
  <2>1. UNCHANGED <<groups, processorVars>>
    BY <1>2, Zenon DEF DriverStep, ObReferenceObjectByHandle, ObCloseHandle,
       PsReferencePrimaryToken,
         PsDereferencePrimaryToken, PsSetCreateProcessNotifyRoutineEx
  <2>2. ProcessorInv'
    BY <2>1, ProcessorsKept
  <2>3. CASE \E remove \in BOOLEAN : PsSetCreateProcessNotifyRoutineEx(d, remove)
    <3>1. UNCHANGED <<_object_references, open, refs, _primary_token_ref_count, tokens>>
      BY <2>3, Zenon DEF PsSetCreateProcessNotifyRoutineEx
    <3> QED BY <2>2, <3>1, ReferencesKept
  <2> QED BY <1>2, <2>2, <2>3, ReferenceStep, CloseStep, TokenStep, Zenon DEF DriverStep
<1> QED BY <1>1, <1>2, Zenon DEF HandleNext

\* Both invariants hold at the start.
LEMMA HandleStart ==
  ASSUME HandleInit
  PROVE  ReferenceInv /\ ProcessorInv
<1>1. MaxRefs \in Nat /\ 0 \in 0..MaxRefs
  BY HandlesAssumption
<1>2. /\ refs = [d \in Drivers |-> [o \in Objects |-> 0]] /\ tokens = [d \in Drivers |-> 0]
      /\ _object_references = [o \in Objects |-> 0] /\ _primary_token_ref_count = 0
      /\ open = Objects
  BY DEF HandleInit
<1>3. /\ refs \in [Drivers -> [Objects -> 0..MaxRefs]] /\ tokens \in [Drivers -> 0..MaxRefs]
      /\ _object_references \in [Objects -> Nat] /\ _primary_token_ref_count \in Nat
  BY <1>1, <1>2
<1>4. \A o \in Objects : Cardinality(ReferencesTo(o)) = 0
  <2> SUFFICES ASSUME NEW o \in Objects PROVE Cardinality(Counted(RefsOf(o))) = 0
    BY RefsOfCounted
  <2>1. \A d \in Drivers : RefsOf(o)[d] = 0
    BY <1>2 DEF RefsOf
  <2> QED BY <2>1, CountedNothing
<1>5. Cardinality(TokenReferences) = 0
  BY <1>2, TokensCounted, CountedNothing
<1>6. ReferenceInv
  BY <1>2, <1>3, <1>4, <1>5 DEF ReferenceInv, ReferencesCounted
<1>7. groups \in Seq(Nat) /\ groups # << >>
  BY HandlesAssumption DEF HandleInit
<1>8. ProcessorInv
  BY <1>7, NothingSummed DEF HandleInit, ProcessorInv
<1> QED BY <1>6, <1>8

\* The invariants say what the two properties say.
LEMMA HandleInvImplies ==
  ASSUME ReferenceInv, ProcessorInv
  PROVE  ReferencesCounted /\ ProcessorsNumberedAlike
BY IndexToNumber, Zenon DEF ReferenceInv, ProcessorsNumberedAlike

\* A step that changes nothing.
LEMMA HandlesKept ==
  ASSUME ReferenceInv, ProcessorInv, UNCHANGED handleVars
  PROVE  ReferenceInv' /\ ProcessorInv'
BY ReferencesKept, ProcessorsKept DEF handleVars, referenceVars

\* Both invariants hold always.
LEMMA HandlesSound == HandleSpec => [](ReferenceInv /\ ProcessorInv)
<1>1. HandleInit => ReferenceInv /\ ProcessorInv
  BY HandleStart
<1>2. ReferenceInv /\ ProcessorInv /\ [HandleNext]_handleVars => (ReferenceInv /\ ProcessorInv)'
  BY HandleStep, HandlesKept
<1> QED BY <1>1, <1>2, PTL DEF HandleSpec

\* The counts of the objects and of the token are the references of the drivers,
\* and a referenced object is open: for any drivers, objects and references.
THEOREM ReferencesAlwaysCounted == HandleSpec => []ReferencesCounted
<1>1. ReferenceInv /\ ProcessorInv => ReferencesCounted
  BY HandleInvImplies
<1> QED BY <1>1, HandlesSound, PTL

\* Index, group and place of a processor agree in both libraries on every
\* machine: any number of groups of any sizes, empty ones included.
THEOREM ProcessorsAlwaysNumberedAlike == HandleSpec => []ProcessorsNumberedAlike
<1>1. ReferenceInv /\ ProcessorInv => ProcessorsNumberedAlike
  BY HandleInvImplies
<1> QED BY <1>1, HandlesSound, PTL

=============================================================================
