-------------------------------- MODULE Waits --------------------------------
(***************************************************************************)
(* KEVENTs, KSEMAPHOREs and KeWaitForSingleObject (src/src/ke.cpp).  A wait *)
(* for an event is a loop around WaitOnAddress; a semaphore is a semaphore  *)
(* of Win32.  Time is not counted: a wait with a finite number of           *)
(* milliseconds may expire at any moment, one with INFINITE never does.     *)
(***************************************************************************)
EXTENDS Naturals, FiniteSets

CONSTANTS
  Waiters,  \* threads that make every call but KeSetEvent on Done
  Setters,  \* threads that only set Done
  Lock,     \* a SynchronizationEvent, used to keep other threads out
  Done,     \* a NotificationEvent
  NoObject,
  Watchers, \* the waiters that wait for Done; the others use the semaphore
  Limit     \* the limit and the initial count of the semaphore

ASSUME WaitsAssumption ==
  /\ IsFiniteSet(Waiters) /\ IsFiniteSet(Setters) /\ Waiters \cap Setters = {}
  /\ Lock # Done /\ NoObject \notin {Lock, Done} /\ Limit \in Nat \ {0}

VARIABLES
  signaled,  \* each event's signaled member
  count,     \* the count of the semaphore's handle
  wt,        \* each thread: where it is, the event, its timeout
  inside,    \* threads whose wait for Lock succeeded and that have not set it
  units      \* the units of the semaphore each thread has taken

waitVars == <<signaled, count, wt, inside, units>>

Threads == Waiters \cup Setters
Events == {Lock, Done}

\* nullptr, and any number of milliseconds.
Timeouts == {"null", "finite"}

Run == [pc |-> "run", event |-> NoObject, timeout |-> "null"]

WaitsTypeOK ==
  /\ signaled \in [Events -> BOOLEAN]
  /\ count \in 0 .. Limit
  /\ wt \in [Threads -> [pc : {"run", "set", "check", "captured", "asleep", "woken",
                               "semaphore", "probe"},
                         event : Events \cup {NoObject}, timeout : Timeouts]]
  /\ inside \subseteq Threads
  /\ units \in [Threads -> 0 .. Limit]

\* KeInitializeEvent and KeInitializeSemaphore.
WaitsInit ==
  /\ signaled = [e \in Events |-> e = Lock]
  /\ count = Limit
  /\ wt = [t \in Threads |-> Run]
  /\ inside = {}
  /\ units = [t \in Threads |-> 0]

Goto(t, pc) == wt' = [wt EXCEPT ![t].pc = pc]
Return(t) == wt' = [wt EXCEPT ![t] = Run]

-------------------------------------------------------------------------------
(* Events.                                                                   *)

\* Mutant of KeSetEvent: the waiters are not woken once the event is set.
KeSetEventNoWake(t, e) ==
  /\ wt[t].pc = "run"
  /\ signaled' = [signaled EXCEPT ![e] = TRUE]
  /\ UNCHANGED <<count, wt, units>>

\* KeSetEvent under the spin lock.
KeSetEvent(t, e) ==
  /\ wt[t].pc = "run"
  /\ signaled' = [signaled EXCEPT ![e] = TRUE]
  /\ wt' = [wt EXCEPT ![t] = [Run EXCEPT !.pc = "set", !.event = e]]
  /\ UNCHANGED <<count, units>>

\* KeSetEvent after the spin lock is released.
WakeByAddressAll(t) ==
  /\ wt[t].pc = "set"
  /\ wt' = [u \in Threads |->
              IF u = t THEN Run
              ELSE IF wt[u].pc = "asleep" /\ wt[u].event = wt[t].event
                   THEN [wt[u] EXCEPT !.pc = "woken"] ELSE wt[u]]
  /\ UNCHANGED <<signaled, count, inside, units>>

\* Only the thread inside sets Lock.
SetLock(t) == t \in inside /\ KeSetEvent(t, Lock) /\ inside' = inside \ {t}
SetDone(t) == KeSetEvent(t, Done) /\ UNCHANGED inside

KeClearEvent(t) ==
  /\ wt[t].pc = "run"
  /\ signaled' = [signaled EXCEPT ![Done] = FALSE]
  /\ UNCHANGED <<count, wt, inside, units>>

\* KeWaitForSingleObject, _wait_for_kevent.
WaitForEvent(t, e, timeout) ==
  /\ wt[t].pc = "run" /\ t \notin inside
  /\ wt' = [wt EXCEPT ![t] = [pc |-> "check", event |-> e, timeout |-> timeout]]
  /\ UNCHANGED <<signaled, count, inside, units>>

\* Mutant of EventCheck: an event that resets itself stays signaled.
EventCheckKeeps(t) ==
  /\ wt[t].pc = "check" /\ signaled[wt[t].event]
  /\ inside' = IF wt[t].event = Lock THEN inside \cup {t} ELSE inside
  /\ Return(t)
  /\ UNCHANGED <<signaled, count, units>>

\* The test of signaled under the spin lock.
EventCheck(t) ==
  LET e == wt[t].event IN
  /\ wt[t].pc = "check"
  /\ IF signaled[e]
     THEN /\ signaled' = [signaled EXCEPT ![e] = (e # Lock)]
          /\ inside' = IF e = Lock THEN inside \cup {t} ELSE inside
          /\ Return(t)
     ELSE Goto(t, "captured") /\ UNCHANGED <<signaled, inside>>
  /\ UNCHANGED <<count, units>>

\* WaitOnAddress sleeps only while the value is the captured one.
WaitOnAddress(t) ==
  /\ wt[t].pc = "captured"
  /\ Goto(t, IF signaled[wt[t].event] THEN "woken" ELSE "asleep")
  /\ UNCHANGED <<signaled, count, inside, units>>

\* WaitOnAddress returns although nobody has changed the value.
SpuriousWake(t) ==
  /\ wt[t].pc = "asleep"
  /\ Goto(t, "woken")
  /\ UNCHANGED <<signaled, count, inside, units>>

\* The 64-bit difference, cast to a DWORD, is a finite number of milliseconds
\* even for a null timeout.
EventExpires(timeout) == timeout \in Timeouts

\* WaitOnAddress returns FALSE: STATUS_TIMEOUT.
EventTimeout(t) ==
  /\ wt[t].pc = "asleep" /\ EventExpires(wt[t].timeout)
  /\ Return(t)
  /\ UNCHANGED <<signaled, count, inside, units>>

\* The test of the clock after a wake-up: STATUS_TIMEOUT, or another round.
\* The end of a wait without a timeout is never reached.
EventRecheck(t) ==
  /\ wt[t].pc = "woken"
  /\ \/ Goto(t, "check")
     \/ wt[t].timeout # "null" /\ Return(t)
  /\ UNCHANGED <<signaled, count, inside, units>>

-------------------------------------------------------------------------------
(* Semaphores.                                                               *)

\* KeWaitForSingleObject on the semaphore blocks in WaitForSingleObject.
WaitForSemaphore(t, timeout) ==
  /\ wt[t].pc = "run" /\ units[t] < Limit
  /\ wt' = [wt EXCEPT ![t] = [Run EXCEPT !.pc = "semaphore", !.timeout = timeout]]
  /\ UNCHANGED <<signaled, count, inside, units>>

SemaphoreAcquired(t) ==
  /\ wt[t].pc = "semaphore" /\ count > 0
  /\ count' = count - 1
  /\ units' = [units EXCEPT ![t] = @ + 1]
  /\ Return(t)
  /\ UNCHANGED <<signaled, inside>>

\* A null timeout is INFINITE.
SemaphoreTimeout(t) ==
  /\ wt[t].pc = "semaphore" /\ count = 0 /\ wt[t].timeout # "null"
  /\ Return(t)
  /\ UNCHANGED <<signaled, count, inside, units>>

\* A thread releases what it has taken.
KeReleaseSemaphore(t) ==
  /\ wt[t].pc = "run" /\ units[t] > 0
  /\ count' = count + 1
  /\ units' = [units EXCEPT ![t] = @ - 1]
  /\ UNCHANGED <<signaled, wt, inside>>

\* KeReadStateSemaphore takes a unit if there is one...
KeReadStateSemaphore(t) ==
  /\ wt[t].pc = "run" /\ count > 0
  /\ count' = count - 1
  /\ Goto(t, "probe")
  /\ UNCHANGED <<signaled, inside, units>>

\* Mutant of ReadStateReleases: the unit is not given back.
ReadStateKeeps(t) ==
  /\ wt[t].pc = "probe"
  /\ Return(t)
  /\ UNCHANGED <<signaled, count, inside, units>>

\* ... and gives it back.
ReadStateReleases(t) ==
  /\ wt[t].pc = "probe"
  /\ count' = count + 1
  /\ Return(t)
  /\ UNCHANGED <<signaled, inside, units>>

-------------------------------------------------------------------------------
\* What a thread does inside a call of the API.
InsideCall(t) ==
  \/ WakeByAddressAll(t)
  \/ EventCheck(t)
  \/ WaitOnAddress(t)
  \/ EventRecheck(t)
  \/ ReadStateReleases(t)

\* The calls a thread may make.
Calls(t) ==
  \/ SetLock(t)
  \/ KeClearEvent(t)
  \/ WaitForEvent(t, Lock, "finite")
  \/ \E timeout \in Timeouts :
       IF t \in Watchers THEN WaitForEvent(t, Done, timeout) ELSE WaitForSemaphore(t, timeout)
  \/ KeReleaseSemaphore(t)
  \/ KeReadStateSemaphore(t)

WaitsNext ==
  \/ \E t \in Waiters : Calls(t)
  \/ \E t \in Threads :
       \/ InsideCall(t)
       \/ SpuriousWake(t)
       \/ EventTimeout(t)
       \/ SemaphoreAcquired(t)
       \/ SemaphoreTimeout(t)

-------------------------------------------------------------------------------
\* One set of a SynchronizationEvent lets one waiter through, whatever the
\* wake-ups, the timeouts and the threads that come late.
OneInside == Cardinality(inside) + (IF signaled[Lock] THEN 1 ELSE 0) <= 1

\* Every unit of the semaphore is in the count, with a thread that took it, or
\* in KeReadStateSemaphore between its two calls.
UnitsConserved ==
  LET taken == {p \in Threads \X (1 .. Limit) : p[2] <= units[p[1]]}
      probing == {t \in Threads : wt[t].pc = "probe"} IN
  count + Cardinality(taken) + Cardinality(probing) = Limit

===============================================================================
