------------------------------ MODULE WorkItem ------------------------------
(***************************************************************************)
(* Preemptible work items (src/cxplat/src/cxplat_winuser/                  *)
(* workitem_winuser.cpp) and the I/O work items built on them (src/src/    *)
(* io.cpp): every queued item holds a reference on one rundown reference,  *)
(* which the pool's thread releases after the routine has returned, and    *)
(* which the termination waits for.                                        *)
(***************************************************************************)
EXTENDS Rundown, FiniteSets

CONSTANTS
  Items,           \* addresses of work items
  PoolRef,         \* _cxplat_preemptible_work_items_rundown_reference
  NoItem,
  AssertsEnabled,  \* CXPLAT_RUNTIME_ASSERT is assert: nothing under NDEBUG
  LateQueue        \* drivers may queue an item after a wait has started

ASSUME WorkItemAssumption ==
  /\ PoolRef \in Refs
  /\ IsFiniteSet(Items) /\ NoItem \notin Items
  /\ AssertsEnabled \in BOOLEAN /\ LateQueue \in BOOLEAN

VARIABLES
  pool,     \* _pool is not null
  item,     \* each item: not allocated, allocated, or closed with the pool
  pending,  \* items submitted to the pool and not called yet
  running,  \* the item the pool's only thread is called for
  stage,    \* how far _cxplat_preemptible_routine has got
  waited,   \* a wait for the completion of the work items has returned
  process   \* running, or stopped by an assertion or an exception

poolVars == <<pool, item, pending, running, stage>>
workItemVars == <<rundownVars, poolVars, waited, process>>

PoolTypeOK ==
  /\ RundownTypeOK
  /\ pool \in BOOLEAN
  /\ item \in [Items -> {"none", "allocated", "closed"}]
  /\ pending \subseteq Items
  /\ running \in Items \cup {NoItem}
  /\ stage \in {"idle", "called", "routine", "release"}
  /\ waited \in BOOLEAN
  /\ process \in {"running", "assertion", "exception"}

PoolInit ==
  /\ RundownInit
  /\ pool = FALSE
  /\ item = [i \in Items |-> "none"]
  /\ pending = {}
  /\ running = NoItem
  /\ stage = "idle"
  /\ waited = FALSE
  /\ process = "running"

\* cxplat_winuser_initialize_thread_pool succeeds.
InitializeThreadPool ==
  /\ ~pool
  /\ \A w \in Waiters : waiting_for[w] # PoolRef
  /\ InitializeRundownRef(PoolRef)
  /\ pool' = TRUE
  /\ waited' = FALSE
  /\ UNCHANGED <<item, pending, running, stage, process>>

\* cxplat_winuser_initialize_thread_pool fails after it has initialised the
\* rundown reference: the pool is closed again.
InitializeThreadPoolFails ==
  /\ ~pool
  /\ \A w \in Waiters : waiting_for[w] # PoolRef
  /\ InitializeRundownRef(PoolRef)
  /\ waited' = FALSE
  /\ UNCHANGED <<poolVars, process>>

\* IoAllocateWorkItem, cxplat_allocate_preemptible_work_item; a failure frees
\* what was allocated.
Allocate(i) ==
  /\ pool
  /\ item[i] = "none"
  /\ item' = [item EXCEPT ![i] = "allocated"]
  /\ UNCHANGED <<rundownVars, pool, pending, running, stage, waited, process>>

\* A driver queues an item that is allocated and whose previous run, if any,
\* has reached the routine.
MayQueue(i) ==
  /\ pool
  /\ item[i] = "allocated"
  /\ i \notin pending
  /\ ~(running = i /\ stage = "called")
  /\ LateQueue \/ ~table[PoolRef].rundown

\* Mutant of Queue: no reference is acquired.
QueueUnprotected(i) ==
  /\ MayQueue(i)
  /\ pending' = pending \cup {i}
  /\ UNCHANGED <<rundownVars, pool, item, running, stage, waited, process>>

\* IoQueueWorkItem, cxplat_queue_preemptible_work_item: the result of the
\* acquisition only decides whether an assertion fails.
Queue(i) ==
  /\ MayQueue(i)
  /\ \/ /\ AcquireRundownRef(PoolRef)
        /\ pending' = pending \cup {i}
        /\ UNCHANGED process
     \/ /\ AcquireRefused(PoolRef)
        /\ IF AssertsEnabled
           THEN process' = "assertion" /\ UNCHANGED pending
           ELSE pending' = pending \cup {i} /\ UNCHANGED process
  /\ UNCHANGED <<pool, item, running, stage, waited>>

\* The pool's thread takes a submitted item and enters
\* _cxplat_preemptible_routine.
Call(i) ==
  /\ stage = "idle"
  /\ i \in pending
  /\ pending' = pending \ {i}
  /\ running' = i
  /\ stage' = "called"
  /\ UNCHANGED <<rundownVars, pool, item, waited, process>>

\* Mutant of Run: the reference is released before the routine is called.
RunAfterRelease ==
  /\ stage = "called"
  /\ stage' = "routine"
  /\ ReleaseRundownRef(PoolRef)
  /\ UNCHANGED <<pool, item, pending, running, waited, process>>

\* The routine and its context are read from the item and the routine runs.
Run ==
  /\ stage = "called"
  /\ stage' = "routine"
  /\ UNCHANGED <<rundownVars, pool, item, pending, running, waited, process>>

\* The routine returns.
RoutineReturns ==
  /\ stage = "routine"
  /\ stage' = "release"
  /\ UNCHANGED <<rundownVars, pool, item, pending, running, waited, process>>

\* Mutant of Return: the routine returns without releasing its reference when
\* its item was freed meanwhile.
ReturnKeepsReference ==
  /\ stage = "release"
  /\ \/ item[running] = "allocated" /\ ReleaseRundownRef(PoolRef) /\ UNCHANGED process
     \/ item[running] # "allocated" /\ UNCHANGED <<rundownVars, process>>
  /\ stage' = "idle"
  /\ running' = NoItem
  /\ UNCHANGED <<pool, item, pending, waited>>

\* _cxplat_preemptible_routine releases the reference and returns; an
\* exception of the release ends the process.
Return ==
  /\ stage = "release"
  /\ \/ ReleaseRundownRef(PoolRef) /\ UNCHANGED process
     \/ ReleaseThrows(PoolRef) /\ process' = "exception"
  /\ stage' = "idle"
  /\ running' = NoItem
  /\ UNCHANGED <<pool, item, pending, waited>>

\* IoFreeWorkItem, cxplat_free_preemptible_work_item.  A driver frees an item
\* that is not queued (in its routine, or when it has not been queued since),
\* and any item once a wait for the work items has returned.
Free(i) ==
  /\ pool
  /\ item[i] = "allocated"
  /\ waited \/ (i \notin pending /\ ~(running = i /\ stage = "called"))
  /\ item' = [item EXCEPT ![i] = "none"]
  /\ UNCHANGED <<rundownVars, pool, pending, running, stage, waited, process>>

\* cxplat_wait_for_preemptible_work_items_complete, entered by w.
WaitForPool(w) ==
  /\ pool
  /\ \/ WaitNotNeeded(w, PoolRef) /\ waited' = TRUE
     \/ WaitBlocks(w, PoolRef) /\ UNCHANGED waited
  /\ UNCHANGED <<poolVars, process>>

\* The wait of w wakes up.
WakeFromPool(w) ==
  /\ \/ WaitReturns(w) /\ waited' = TRUE
     \/ WaitsOn(w) /\ UNCHANGED waited
  /\ UNCHANGED <<poolVars, process>>

\* The condition variable wakes w without a notification.
SpuriousOfPool(w) ==
  /\ SpuriousWakeup(w)
  /\ UNCHANGED <<poolVars, waited, process>>

\* cxplat_winuser_clean_up_thread_pool: closing the members of the cleanup
\* group waits for the callbacks and closes the work objects not freed yet.
CleanUpThreadPool ==
  /\ pool
  /\ pending = {} /\ stage = "idle"
  /\ \A w \in Waiters : waiting_for[w] = NoRef
  /\ pool' = FALSE
  /\ item' = [i \in Items |-> IF item[i] = "allocated" THEN "closed" ELSE item[i]]
  /\ UNCHANGED <<rundownVars, pending, running, stage, waited, process>>

WorkerStep == process = "running" /\ (Run \/ RoutineReturns \/ Return \/ \E i \in Items : Call(i))

PoolNext ==
  \/ WorkerStep
  \/ /\ process = "running"
     /\ \/ InitializeThreadPool \/ InitializeThreadPoolFails \/ CleanUpThreadPool
        \/ \E i \in Items : Allocate(i) \/ Queue(i) \/ Free(i)
        \/ \E w \in Waiters : WaitForPool(w) \/ WakeFromPool(w) \/ SpuriousOfPool(w)

PoolSpec == PoolInit /\ [][PoolNext]_workItemVars

\* The pool's thread runs while there is work, routines return, and threads
\* that were woken run.
PoolFairSpec ==
  /\ PoolSpec
  /\ WF_workItemVars(WorkerStep)
  /\ \A w \in Waiters : WF_workItemVars(process = "running" /\ WakeFromPool(w))

----------------------------------------------------------------------------
(* Properties.                                                             *)

\* The references held are those of the items pending and of the callback that
\* has not released its own yet, so that the release in
\* _cxplat_preemptible_routine never throws.
ReferencesExact ==
  /\ pool => table[PoolRef].ref_count = Cardinality(pending) + (IF stage = "idle" THEN 0 ELSE 1)
  /\ process # "exception"

\* When cxplat_wait_for_preemptible_work_items_complete has returned no work
\* item is queued and no routine is running, and none will: a driver may unload.
WaitCoversWorkItems == waited => pending = {} /\ stage = "idle"

\* The pool's thread never reads an item that was freed, although drivers free
\* items in their routines, while idle, and at will after a wait.
ItemAliveWhenCalled ==
  /\ \A i \in pending : item[i] = "allocated"
  /\ stage = "called" => item[running] = "allocated"

\* The inductive invariant: with the three properties above, what the pool and
\* a wait that has returned or is in progress say about the table.
PoolInv ==
  /\ PoolTypeOK
  /\ ReferencesExact /\ WaitCoversWorkItems /\ ItemAliveWhenCalled
  /\ pool => Initialized(PoolRef)
  /\ ~pool => pending = {} /\ stage = "idle"
  /\ pool /\ waited => table[PoolRef].rundown
  /\ stage # "idle" => running \in Items
  /\ \A w \in Waiters :
       /\ waiting_for[w] # NoRef => pool /\ waiting_for[w] = PoolRef /\ table[PoolRef].rundown
       /\ w \in awake => waiting_for[w] # NoRef

\* A wait for the work items returns, unless an assertion stops the process:
\* once it has started nothing new is added to what it waits for.
PoolWaitEnds ==
  \A w \in Waiters :
    (waiting_for[w] = PoolRef) ~> (waiting_for[w] = NoRef \/ process # "running")
=============================================================================
