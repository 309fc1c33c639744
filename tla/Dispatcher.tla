----------------------------- MODULE Dispatcher -----------------------------
(***************************************************************************)
(* The dispatcher objects of src/src/ke.cpp together: threads wait for      *)
(* events and semaphores while others set and cancel timers, and the DPC a  *)
(* timer inserts sets the event Done on a thread of its own.                *)
(***************************************************************************)
EXTENDS Waits, Timer

vars == <<waitVars, timerVars>>

TypeOK == WaitsTypeOK /\ TimerTypeOK

Init == WaitsInit /\ TimerInit

\* The DPC's routine sets the event.
DpcRuns(s) ==
  /\ dpc
  /\ SetDone(s)
  /\ dpc' = FALSE
  /\ UNCHANGED <<ktimer, timers, pool, mutex, client>>

Next ==
  \/ WaitsNext /\ UNCHANGED timerVars
  \/ TimerNext /\ UNCHANGED waitVars
  \/ \E s \in Setters : DpcRuns(s)

Spec == Init /\ [][Next]_vars

\* A thread inside a call goes on, the thread pool runs what is queued, and a
\* DPC in the queue runs.
FairSpec ==
  /\ Spec
  /\ \A t \in Threads : WF_vars(InsideCall(t) /\ UNCHANGED timerVars)
  /\ \A t \in Timers : WF_vars(Pool(t) /\ UNCHANGED waitVars)
  /\ \A c \in Clients : WF_vars(CancelFinish(c) /\ UNCHANGED waitVars)
  /\ \A s \in Setters : WF_vars(DpcRuns(s))

-------------------------------------------------------------------------------
\* When an event stays signaled, no thread waits for it for ever: a woken
\* thread that finds the event reset goes back to a wait that is woken again.
WaitEnds ==
  \A t \in Waiters :
    <>[](signaled[Done]) => []<>(wt[t].event # Done)

\* Once the callback of a timer has begun to run, its DPC is inserted and sets
\* the event: re-setting or cancelling the timer does not lose the expiry.
ExpiryReachesEvent ==
  \A t \in Timers : pool[t].callback # "none" ~> signaled[Done]

\* KeCancelTimer returns: the callbacks it waits for with the mutex held do not
\* need the mutex.
CancelReturns ==
  \A c \in Clients : client[c].pc = "cancel" ~> client[c].pc = "run"
=============================================================================
