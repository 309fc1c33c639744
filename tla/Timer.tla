-------------------------------- MODULE Timer --------------------------------
(***************************************************************************)
(* KTIMERs on top of the timers of the Win32 thread pool (src/src/ke.cpp).  *)
(* A mutex protects the list of pool timers and each KTIMER's pointer; the  *)
(* callback of a pool timer runs without it.                                *)
(***************************************************************************)
CONSTANTS
  Timers,
  Clients,   \* threads that set and cancel timers
  NoClient, NoTimer

ASSUME TimerAssumption == NoClient \notin Clients /\ NoTimer \notin Timers

VARIABLES
  ktimer,   \* each KTIMER: its pool timer and its signaled member
  timers,   \* g_usersim_threadpool_timers, by the KTIMER they were created for
  pool,     \* each pool timer: when it is due, a queued and a running callback
  mutex,    \* the holder of g_usersim_threadpool_mutex
  client,   \* each client: where it is, and the timer
  dpc       \* the timers' DPC is in the queue

timerVars == <<ktimer, timers, pool, mutex, client, dpc>>

TimerTypeOK ==
  /\ ktimer \in [Timers -> [tp : {"null", "open", "closed"}, signaled : BOOLEAN]]
  /\ timers \subseteq Timers
  /\ pool \in [Timers -> [due : {"never", "once", "periodic"}, queued : BOOLEAN,
                          callback : {"none", "signal", "insert"}]]
  /\ mutex \in Clients \cup {NoClient}
  /\ client \in [Clients -> [pc : {"run", "set", "cancel"}, timer : Timers \cup {NoTimer}]]
  /\ dpc \in BOOLEAN

NoPoolTimer == [due |-> "never", queued |-> FALSE, callback |-> "none"]
Outside == [pc |-> "run", timer |-> NoTimer]

\* KeInitializeTimer has been called for every timer.
TimerInit ==
  /\ ktimer = [t \in Timers |-> [tp |-> "null", signaled |-> FALSE]]
  /\ timers = {}
  /\ pool = [t \in Timers |-> NoPoolTimer]
  /\ mutex = NoClient
  /\ client = [c \in Clients |-> Outside]
  /\ dpc = FALSE

\* KeInitializeTimer, of a timer that is not set.
KeInitializeTimer(t) ==
  /\ ktimer[t].tp = "closed"
  /\ ktimer' = [ktimer EXCEPT ![t] = [tp |-> "null", signaled |-> FALSE]]
  /\ UNCHANGED <<timers, pool, mutex, client, dpc>>

\* KeSetCoalescableTimer, KeSetTimer, KeSetTimerEx: the pool timer is created
\* the first time, and the timer is not signaled any more...
KeSetCoalescableTimer(c, t) ==
  /\ client[c].pc = "run" /\ mutex = NoClient
  /\ ktimer[t].tp # "closed"
  /\ mutex' = c
  /\ client' = [client EXCEPT ![c] = [pc |-> "set", timer |-> t]]
  /\ ktimer' = [ktimer EXCEPT ![t] = [tp |-> "open", signaled |-> FALSE]]
  /\ timers' = timers \cup {t}
  /\ UNCHANGED <<pool, dpc>>

\* ... then SetThreadpoolTimer arms the pool timer; what is queued stays.
SetThreadpoolTimer(c, due) ==
  /\ client[c].pc = "set"
  /\ pool' = [pool EXCEPT ![client[c].timer].due = due]
  /\ mutex' = NoClient
  /\ client' = [client EXCEPT ![c] = Outside]
  /\ UNCHANGED <<ktimer, timers, dpc>>

\* KeCancelTimer up to the wait: no new callback is queued.
KeCancelTimer(c, t) ==
  /\ client[c].pc = "run" /\ mutex = NoClient
  /\ ktimer[t].tp = "open"
  /\ mutex' = c
  /\ client' = [client EXCEPT ![c] = [pc |-> "cancel", timer |-> t]]
  /\ pool' = [pool EXCEPT ![t].due = "never"]
  /\ UNCHANGED <<ktimer, timers, dpc>>

\* The clean-up of KeCancelTimer; it returns whether the timer was not signaled.
CancelCleanup(c, t) ==
  /\ timers' = timers \ {t}
  /\ ktimer' = [ktimer EXCEPT ![t] = [tp |-> "null", signaled |-> FALSE]]
  /\ mutex' = NoClient
  /\ client' = [client EXCEPT ![c] = Outside]
  /\ UNCHANGED dpc

\* Mutant of CancelFinish: running callbacks are not waited for.
CancelFinishAtOnce(c) ==
  LET t == client[c].timer IN
  /\ client[c].pc = "cancel"
  /\ pool' = [pool EXCEPT ![t].queued = FALSE]
  /\ CancelCleanup(c, t)

\* WaitForThreadpoolTimerCallbacks cancels a queued callback and waits for a
\* running one, with the mutex held.
CancelFinish(c) ==
  LET t == client[c].timer IN
  /\ client[c].pc = "cancel" /\ pool[t].callback = "none"
  /\ pool' = [pool EXCEPT ![t].queued = FALSE]
  /\ CancelCleanup(c, t)

\* usersim_free_threadpool_timers, once no timer is due or in a callback.
usersim_free_threadpool_timers ==
  /\ mutex = NoClient
  /\ \A t \in Timers : pool[t] = NoPoolTimer
  /\ ktimer' = [t \in Timers |->
                  IF t \in timers THEN [ktimer[t] EXCEPT !.tp = "closed"] ELSE ktimer[t]]
  /\ timers' = {}
  /\ UNCHANGED <<pool, mutex, client, dpc>>

\* The pool: a timer that is due queues its callback, and one of its threads
\* calls it.
Expire(t) ==
  /\ pool[t].due # "never" /\ ~pool[t].queued
  /\ pool' = [pool EXCEPT ![t].queued = TRUE,
                          ![t].due = IF @ = "once" THEN "never" ELSE @]
  /\ UNCHANGED <<ktimer, timers, mutex, client, dpc>>

CallbackStarts(t) ==
  /\ pool[t].queued /\ pool[t].callback = "none"
  /\ pool' = [pool EXCEPT ![t].queued = FALSE, ![t].callback = "signal"]
  /\ UNCHANGED <<ktimer, timers, mutex, client, dpc>>

\* Mutant of _usersim_timer_callback: it takes the mutex.
_usersim_timer_callback_locks(t) ==
  /\ pool[t].callback = "signal" /\ mutex = NoClient
  /\ ktimer' = [ktimer EXCEPT ![t].signaled = TRUE]
  /\ pool' = [pool EXCEPT ![t].callback = "insert"]
  /\ UNCHANGED <<timers, mutex, client, dpc>>

\* _usersim_timer_callback marks the timer...
_usersim_timer_callback(t) ==
  /\ pool[t].callback = "signal"
  /\ ktimer' = [ktimer EXCEPT ![t].signaled = TRUE]
  /\ pool' = [pool EXCEPT ![t].callback = "insert"]
  /\ UNCHANGED <<timers, mutex, client, dpc>>

\* Mutant of CallbackInsertsDpc: the DPC of a timer that is cancelled is dropped.
CallbackDropsDpc(t) ==
  /\ pool[t].callback = "insert"
  /\ pool' = [pool EXCEPT ![t].callback = "none"]
  /\ dpc' = (dpc \/ pool[t].due # "never")
  /\ UNCHANGED <<ktimer, timers, mutex, client>>

\* ... and inserts its DPC, which changes nothing if it is in the queue.
CallbackInsertsDpc(t) ==
  /\ pool[t].callback = "insert"
  /\ pool' = [pool EXCEPT ![t].callback = "none"]
  /\ dpc' = TRUE
  /\ UNCHANGED <<ktimer, timers, mutex, client>>

Pool(t) ==
  \/ Expire(t)
  \/ CallbackStarts(t)
  \/ _usersim_timer_callback(t)
  \/ CallbackInsertsDpc(t)

TimerNext ==
  \/ \E c \in Clients, t \in Timers : KeSetCoalescableTimer(c, t) \/ KeCancelTimer(c, t)
  \/ \E c \in Clients, due \in {"once", "periodic"} : SetThreadpoolTimer(c, due)
  \/ \E c \in Clients : CancelFinish(c)
  \/ \E t \in Timers : Pool(t) \/ KeInitializeTimer(t)
  \/ usersim_free_threadpool_timers

-------------------------------------------------------------------------------
\* After KeCancelTimer has returned, nothing of the timer is left in the pool:
\* no callback is queued or running that could mark the timer or insert its
\* DPC, and the list holds the open pool timers exactly.
CancelIsFinal ==
  /\ \A t \in Timers : ktimer[t].tp # "open" => pool[t] = NoPoolTimer
  /\ timers = {t \in Timers : ktimer[t].tp = "open"}
===============================================================================
