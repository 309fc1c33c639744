------------------------------ MODULE DpcQueue ------------------------------
(***************************************************************************)
(* The queue of emulated DPCs of one processor: class _usersim_emulated_dpc*)
(* of src/src/ke.cpp on the intrusive lists of src/src/framework.h.        *)
(*                                                                         *)
(* The links are modelled as they are, because KeInsertQueueDpc and        *)
(* KeRemoveQueueDpc take "linked to itself" for "not queued", and the      *)
(* flush uses one list entry per processor as its marker.  A step is what  *)
(* a thread does while it holds the mutex of the queue, or, for the DPC    *)
(* thread, what it does between two critical sections.                     *)
(***************************************************************************)
EXTENDS Integers, Sequences

CONSTANTS
  Dpcs,            \* addresses of KDPC structures targeted at this processor
  Params,          \* values of the two system arguments
  Flushers,        \* threads that call KeFlushQueuedDpcs
  Overlapping,     \* two of them may do so at the same time
  head,            \* the list head
  Flush,           \* flush_entry
  Idle,            \* the DPC thread runs no routine
  MaxRaises,       \* how often other threads of the processor raise the IRQL
  Terminates,      \* the queue may be destroyed
  AssertsEnabled   \* CXPLAT_DEBUG_ASSERT

ASSUME DpcAssumption ==
  /\ {head, Flush, Idle} \cap (Dpcs \cup (Dpcs \X Params)) = {} /\ head # Flush
  /\ MaxRaises \in Nat /\ {Overlapping, Terminates, AssertsEnabled} \subseteq BOOLEAN

Entries == Dpcs \cup {head, Flush}

VARIABLES
  Flink, Blink,   \* of every list entry
  parameter,      \* the arguments stored in a KDPC by an insertion
  pc,             \* of the DPC thread: see TypeOK
  notified,       \* the DPC thread was woken while waiting
  current,        \* the DPC taken off the list with its arguments, or Idle
  terminate,      \* the destructor has run
  flushing,       \* flushers waiting for the marker to be processed
  woken,          \* flushers that were woken
  lock,           \* holder of the processor's dispatch lock
  raises,         \* how often other threads took it
  list,           \* history: the entries queued, oldest first
  credit,         \* history: insertions accepted and neither removed nor finished
  before,         \* history: of those, the ones older than a flush in progress (Idle
                  \* stands for the one in current)
  process         \* running, or stopped by an assertion

links == <<Flink, Blink>>
dpcThread == <<pc, notified, current>>
flushVars == <<flushing, woken>>
lockVars == <<lock, raises>>
history == <<list, credit, before>>
vars == <<links, parameter, dpcThread, terminate, flushVars, lockVars, history, process>>

\* The DPC thread holds the mutex in "loop" only; in "waiting" it is in the
\* condition variable.
TypeOK ==
  /\ Flink \in [Entries -> Entries] /\ Blink \in [Entries -> Entries]
  /\ parameter \in [Dpcs -> Params]
  /\ pc \in {"start", "loop", "waiting", "unlocked", "routine", "relock", "exited"}
  /\ notified \in BOOLEAN
  /\ current \in (Dpcs \X Params) \cup {Idle}
  /\ terminate \in BOOLEAN
  /\ flushing \subseteq Flushers /\ woken \subseteq flushing
  /\ lock \in {"free", "dpc", "thread"}
  /\ raises \in 0..MaxRaises
  /\ list \in Seq(Dpcs \cup {Flush})
  /\ credit \in [Dpcs \X Params -> 0..2]
  /\ before \in [Flushers -> SUBSET (Dpcs \cup {Idle})]
  /\ process \in {"running", "assertion"}

Init ==
  /\ Flink = [e \in Entries |-> e] /\ Blink = [e \in Entries |-> e]
  /\ parameter \in [Dpcs -> Params]
  /\ pc = "start" /\ notified = FALSE /\ current = Idle
  /\ terminate = FALSE
  /\ flushing = {} /\ woken = {}
  /\ lock = "free" /\ raises = 0
  /\ list = << >>
  /\ credit = [x \in Dpcs \X Params |-> 0]
  /\ before = [f \in Flushers |-> {}]
  /\ process = "running"

----------------------------------------------------------------------------
(* framework.h, on the links of one state.                                 *)

\* usersim_list_is_empty; of an entry: not in a list.
IsEmpty(flink, e) == flink[e] = e

\* usersim_list_initialize.
Initialize(l, e) == [flink |-> [l.flink EXCEPT ![e] = e], blink |-> [l.blink EXCEPT ![e] = e]]

\* Mutant of InsertTail: the entry becomes the first one.
InsertTailFirst(l, e) ==
  LET next == l.flink[head] IN
    [flink |-> [[l.flink EXCEPT ![e] = next] EXCEPT ![head] = e],
     blink |-> [[l.blink EXCEPT ![e] = head] EXCEPT ![next] = e]]

\* usersim_list_insert_tail: four assignments, in this order.
InsertTail(l, e) ==
  LET previous == l.blink[head] IN
    [flink |-> [[l.flink EXCEPT ![e] = head] EXCEPT ![previous] = e],
     blink |-> [[l.blink EXCEPT ![e] = previous] EXCEPT ![head] = e]]

\* The two assertions at the end of usersim_list_insert_tail.
TailAssertions(l) == l.flink[l.blink[head]] = head /\ l.blink[l.flink[head]] = head

\* usersim_list_remove_entry.
RemoveEntry(l, e) ==
  Initialize([flink |-> [l.flink EXCEPT ![l.blink[e]] = l.flink[e]],
              blink |-> [l.blink EXCEPT ![l.flink[e]] = l.blink[e]]], e)

\* usersim_list_remove_head_entry, of a list that is not empty.
RemoveHead(l) ==
  LET removed == l.flink[head] IN
    [flink |-> [l.flink EXCEPT ![head] = l.flink[removed]],
     blink |-> [l.blink EXCEPT ![l.flink[removed]] = head]]

List == [flink |-> Flink, blink |-> Blink]
SetList(l) == Flink' = l.flink /\ Blink' = l.blink

----------------------------------------------------------------------------
\* A sequence without its k-th element, and without an element.
WithoutAt(s, k) == [i \in 1 .. Len(s) - 1 |-> s[IF i < k THEN i ELSE i + 1]]
Without(s, e) ==
  IF \E i \in 1 .. Len(s) : s[i] = e THEN WithoutAt(s, CHOOSE i \in 1 .. Len(s) : s[i] = e) ELSE s

MutexFree == pc # "loop"

\* condition_variable.notify_all wakes the DPC thread and the flushers.
NotifyAll ==
  /\ notified' = (pc = "waiting" \/ notified)
  /\ woken' = flushing

\* insert finds the DPC queued and returns false.
InsertRefused(d) ==
  /\ MutexFree
  /\ ~IsEmpty(Flink, d)
  /\ UNCHANGED vars

\* Mutant of Insert: a DPC that is queued gets the new arguments.
InsertOverwrites(d, p) ==
  /\ MutexFree
  /\ parameter' = [parameter EXCEPT ![d] = p]
  /\ IF IsEmpty(Flink, d)
     THEN /\ SetList(InsertTail(List, d))
          /\ list' = Append(list, d)
          /\ credit' = [credit EXCEPT ![<<d, p>>] = @ + 1]
          /\ NotifyAll
     ELSE UNCHANGED <<links, list, credit, notified, woken>>
  /\ UNCHANGED <<pc, current, terminate, flushing, lockVars, before, process>>

\* insert, called by KeInsertQueueDpc, also from a DPC routine.
Insert(d, p) ==
  /\ MutexFree
  /\ IsEmpty(Flink, d)
  /\ parameter' = [parameter EXCEPT ![d] = p]
  /\ SetList(InsertTail(List, d))
  /\ process' = IF AssertsEnabled /\ ~TailAssertions(InsertTail(List, d))
                THEN "assertion" ELSE process
  /\ NotifyAll
  /\ list' = Append(list, d)
  /\ credit' = [credit EXCEPT ![<<d, p>>] = @ + 1]
  /\ UNCHANGED <<pc, current, terminate, flushing, lockVars, before>>

\* remove, called by KeRemoveQueueDpc, of a DPC that is queued.
Remove(d) ==
  /\ MutexFree
  /\ ~IsEmpty(Flink, d)
  /\ SetList(RemoveEntry(List, d))
  /\ list' = Without(list, d)
  /\ credit' = [credit EXCEPT ![<<d, parameter[d]>>] = @ - 1]
  /\ before' = [f \in Flushers |-> before[f] \ {d}]
  /\ UNCHANGED <<parameter, dpcThread, terminate, flushVars, lockVars, process>>

\* flush_queue up to its wait: the marker is put at the end of the queue.
FlushQueue(f) ==
  /\ MutexFree
  /\ f \notin flushing /\ (flushing = {} \/ Overlapping)
  /\ LET l == InsertTail(Initialize(List, Flush), Flush) IN
       /\ SetList(l)
       /\ process' = IF AssertsEnabled /\ ~TailAssertions(l) THEN "assertion" ELSE process
       /\ IF terminate \/ IsEmpty(l.flink, Flush)
          THEN UNCHANGED <<flushing, before>>
          ELSE /\ flushing' = flushing \cup {f}
               /\ before' = [before EXCEPT ![f] = {d \in Dpcs : ~IsEmpty(Flink, d)}
                                                  \cup (IF current = Idle THEN {} ELSE {Idle})]
  /\ list' = Append(Without(list, Flush), Flush)
  /\ NotifyAll
  /\ UNCHANGED <<parameter, pc, current, terminate, lockVars, credit>>

\* flush_queue is woken: it returns or waits on.
FlushReturns(f) ==
  /\ MutexFree
  /\ f \in woken
  /\ terminate \/ IsEmpty(Flink, Flush)
  /\ flushing' = flushing \ {f}
  /\ woken' = woken \ {f}
  /\ UNCHANGED <<links, parameter, dpcThread, terminate, lockVars, history, process>>

FlushWaitsOn(f) ==
  /\ MutexFree
  /\ f \in woken
  /\ ~terminate /\ ~IsEmpty(Flink, Flush)
  /\ woken' = woken \ {f}
  /\ UNCHANGED <<links, parameter, dpcThread, terminate, flushing, lockVars, history, process>>

\* The destructor, up to the join of the thread; the threads that use the
\* queue are gone.
Destroy ==
  /\ Terminates
  /\ MutexFree
  /\ ~terminate /\ flushing = {}
  /\ terminate' = TRUE
  /\ notified' = (pc = "waiting" \/ notified)
  /\ UNCHANGED <<links, parameter, pc, current, flushVars, lockVars, history, process>>

----------------------------------------------------------------------------
(* The DPC thread.                                                         *)

\* The wait at the end of the loop: it returns at once if there is something
\* to do in the list with these forward links.
WaitForWork(flink) ==
  /\ pc' = IF terminate \/ ~IsEmpty(flink, head) THEN "loop" ELSE "waiting"
  /\ notified' = FALSE

\* The thread starts and takes the mutex.
Start ==
  /\ pc = "start"
  /\ pc' = "loop"
  /\ UNCHANGED <<links, parameter, notified, current, terminate, flushVars, lockVars, history, process>>

\* The loop finds the flag to terminate.
Exit ==
  /\ pc = "loop" /\ terminate
  /\ pc' = "exited"
  /\ UNCHANGED <<links, parameter, notified, current, terminate, flushVars, lockVars, history, process>>

\* The first entry is the marker of a flush.
TakeMarker ==
  /\ pc = "loop" /\ ~terminate
  /\ Flink[head] = Flush
  /\ LET l == Initialize(RemoveHead(List), Flush) IN
       /\ SetList(l)
       /\ WaitForWork(l.flink)
  /\ woken' = flushing
  /\ list' = Without(list, Flush)
  /\ UNCHANGED <<parameter, current, terminate, flushing, lockVars, credit, before, process>>

\* The first entry is a DPC: its arguments are read, it is marked as unlinked,
\* and the mutex is released.
TakeDpc ==
  /\ pc = "loop" /\ ~terminate
  /\ Flink[head] \in Dpcs
  /\ LET d == Flink[head] IN
       /\ SetList(Initialize(RemoveHead(List), d))
       /\ list' = Without(list, d)
       /\ current' = <<d, parameter[d]>>
       /\ before' = [f \in Flushers |-> IF d \in before[f] THEN (before[f] \ {d}) \cup {Idle} ELSE before[f]]
  /\ pc' = "unlocked"
  /\ UNCHANGED <<parameter, notified, terminate, flushVars, lockVars, credit, process>>

\* The list is empty when the loop starts; only the first round can find it so.
NothingToDo ==
  /\ pc = "loop" /\ ~terminate
  /\ IsEmpty(Flink, head)
  /\ WaitForWork(Flink)
  /\ UNCHANGED <<links, parameter, current, terminate, flushVars, lockVars, history, process>>

\* The thread takes the dispatch lock of its processor and calls the routine.
StartRoutine ==
  /\ pc = "unlocked"
  /\ lock = "free"
  /\ lock' = "dpc"
  /\ pc' = "routine"
  /\ UNCHANGED <<links, parameter, notified, current, terminate, flushVars, raises, history, process>>

\* The routine returns and the dispatch lock is released.
FinishRoutine ==
  /\ pc = "routine"
  /\ lock' = "free"
  /\ pc' = "relock"
  /\ credit' = [credit EXCEPT ![current] = @ - 1]
  /\ before' = [f \in Flushers |-> before[f] \ {Idle}]
  /\ current' = Idle
  /\ UNCHANGED <<links, parameter, notified, terminate, flushVars, raises, list, process>>

\* Mutant of Relock: the wait does not look at the list first, and misses what
\* was inserted while the routine ran.
RelockWaits ==
  /\ pc = "relock"
  /\ pc' = "waiting" /\ notified' = FALSE
  /\ UNCHANGED <<links, parameter, current, terminate, flushVars, lockVars, history, process>>

\* The thread takes the mutex again after a routine.
Relock ==
  /\ pc = "relock"
  /\ WaitForWork(Flink)
  /\ UNCHANGED <<links, parameter, current, terminate, flushVars, lockVars, history, process>>

\* The thread is woken in its wait.
Wake ==
  /\ pc = "waiting" /\ notified
  /\ WaitForWork(Flink)
  /\ UNCHANGED <<links, parameter, current, terminate, flushVars, lockVars, history, process>>

----------------------------------------------------------------------------
(* Other threads of the processor, as far as they use its dispatch lock    *)
(* (KfRaiseIrql, KeLowerIrql).                                             *)
Raise ==
  /\ lock = "free" /\ raises < MaxRaises
  /\ lock' = "thread" /\ raises' = raises + 1
  /\ UNCHANGED <<links, parameter, dpcThread, terminate, flushVars, history, process>>

Lower ==
  /\ lock = "thread"
  /\ lock' = "free"
  /\ UNCHANGED <<links, parameter, dpcThread, terminate, flushVars, raises, history, process>>

DpcThreadStep ==
  \/ Start \/ Exit \/ TakeMarker \/ TakeDpc \/ NothingToDo
  \/ StartRoutine \/ FinishRoutine \/ Relock \/ Wake

FlushStep(f) == FlushReturns(f) \/ FlushWaitsOn(f)

Next ==
  /\ process = "running"
  /\ \/ DpcThreadStep
     \/ \E d \in Dpcs :
          \/ ~terminate /\ (Remove(d) \/ InsertRefused(d))
          \/ \E p \in Params : ~terminate /\ Insert(d, p)
     \/ \E f \in Flushers : (~terminate /\ FlushQueue(f)) \/ FlushStep(f)
     \/ Destroy \/ Raise \/ Lower

Spec == Init /\ [][Next]_vars

\* The DPC thread runs whenever it can, and a thread that raised the level
\* lowers it.
FairSpec ==
  /\ Spec
  /\ WF_vars(process = "running" /\ DpcThreadStep)
  /\ WF_vars(process = "running" /\ Lower)
----------------------------------------------------------------------------
(* Properties.                                                             *)

\* The circle that the links of a list with these entries make: its head is both
\* before the first entry and after the last.
Node(s, i) == IF i \in 1 .. Len(s) THEN s[i] ELSE head

\* The links l are those of a list with the entries of s, each of them once; any
\* other entry is linked to itself.
Links(l, s) ==
  /\ \A i, j \in 1 .. Len(s) : s[i] = s[j] => i = j
  /\ \A i \in 0 .. Len(s) : l.flink[Node(s, i)] = Node(s, i + 1) /\ l.blink[Node(s, i + 1)] = Node(s, i)
  /\ \A e \in Entries \ {head} :
       (\A i \in 1 .. Len(s) : s[i] # e) => l.flink[e] = e /\ l.blink[e] = e

\* The list is well formed after any sequence of insertions, removals and
\* flushes: its links are those of the entries queued, in their order, and an
\* entry is linked exactly if it is queued.  That is what lets KeInsertQueueDpc
\* and KeRemoveQueueDpc take "linked to itself" for "not queued".
ListWellFormed ==
  /\ Links(List, list)
  /\ \A e \in Entries \ {head} : IsEmpty(Flink, e) <=> \A i \in 1 .. Len(list) : list[i] # e

\* Every accepted insertion is in the queue or in the hands of the DPC thread,
\* with its own arguments, until it is removed or its routine has returned:
\* none is lost, run twice, or run with the arguments of another.
AcceptedAccounted ==
  \A d \in Dpcs, p \in Params :
    credit[<<d, p>>] = (IF ~IsEmpty(Flink, d) /\ parameter[d] = p THEN 1 ELSE 0)
                     + (IF current = <<d, p>> THEN 1 ELSE 0)

\* A flush returns only when every DPC that was queued or running when it was
\* called has been removed or has finished, unless the queue is destroyed.
FlushCovers ==
  [][\A f \in Flushers : f \in flushing /\ f \notin flushing' /\ ~terminate => before[f] = {}]_vars

\* Nobody sleeps through what they wait for: the thread when there is work,
\* a flusher when its marker has been processed.
NoLostWakeup ==
  /\ pc = "waiting" /\ ~notified => IsEmpty(Flink, head) /\ ~terminate
  /\ \A f \in flushing \ woken : ~IsEmpty(Flink, Flush)

\* A queued DPC is run, or removed, in the end, unless the queue is destroyed.
QueuedRuns == \A d \in Dpcs : ~IsEmpty(Flink, d) ~> (IsEmpty(Flink, d) \/ terminate)

\* The marker of every flush is processed and the flusher woken, so that all
\* it still needs is the mutex (which std::mutex does not promise to hand out
\* fairly).
FlushWoken ==
  \A f \in Flushers :
    f \in flushing ~> (f \notin flushing \/ (f \in woken /\ IsEmpty(Flink, Flush)))

\* A queue that is destroyed stops its thread, so that the join returns.
ThreadExits == terminate ~> pc = "exited"

\* The queue stays consistent, for all its users: its list is well formed, the
\* assertions of usersim_list_insert_tail hold, every insertion is accounted
\* for, and nobody sleeps through what they wait for.
QueueConsistent ==
  TypeOK /\ ListWellFormed /\ process # "assertion" /\ AcceptedAccounted /\ NoLostWakeup

\* Nobody waits for the DPC thread for ever: queued DPCs run, flushers are
\* woken, and the destructor's join returns.
NobodyStuck == QueuedRuns /\ FlushWoken /\ ThreadExits

\* The linked list with its marker implements a first-in, first-out queue.
Queue == [k \in 1 .. Len(list) |-> IF list[k] = Flush THEN Flush ELSE <<list[k], parameter[list[k]]>>]
Fifo == INSTANCE DpcFifo WITH Marker <- Flush, queue <- Queue

ImplementsFifo == Fifo!Spec
=============================================================================
