-------------------------------- MODULE Irql --------------------------------
(***************************************************************************)
(* Emulated interrupt request levels, thread affinity and spin locks of    *)
(* src/src/ke.cpp.                                                         *)
(*                                                                         *)
(* A thread that raises its level to DISPATCH_LEVEL pins itself to the     *)
(* processor it runs on and takes the dispatch lock of that processor; the *)
(* DPC thread of a processor takes the same lock around every routine.     *)
(* Everything else a thread reads and writes here is thread-local, so that *)
(* a call is one step up to the point where it may block.                  *)
(***************************************************************************)
EXTENDS Integers

CONSTANTS
  Cpus,                \* processors, of one group
  Threads,             \* threads of drivers and tests
  SpinLocks,
  Masks,               \* affinity masks that threads ask for; {} is no override
  NoOne, NoLock,
  AffinityAtDispatch   \* threads that set their affinity at DISPATCH_LEVEL, too

PASSIVE_LEVEL == 0
APC_LEVEL == 1
DISPATCH_LEVEL == 2
Levels == {PASSIVE_LEVEL, APC_LEVEL, DISPATCH_LEVEL}

ASSUME IrqlAssumption ==
  /\ Masks \subseteq SUBSET Cpus
  /\ Threads \cap Cpus = {} /\ NoOne \notin Threads \cup Cpus /\ NoLock \notin SpinLocks
  /\ AffinityAtDispatch \subseteq Threads

VARIABLES
  cpu,            \* where a thread runs
  affinity,       \* where the operating system lets it run
  cache,          \* _usersim_group_affinity_cache
  before_raise,   \* _usersim_group_before_raise_irql
  wanted,         \* history: the mask the thread last asked for
  irql,           \* _usersim_current_irql
  priority,       \* _usersim_thread_priority_cache and the thread's priority
  priority_before,\* _usersim_thread_priority_before_raise_irql
  pc,             \* running, blocked on a dispatch lock or a spin lock, or in
                  \* KeReleaseSpinLock before it lowers the level
  want,           \* the spin lock that KeAcquireSpinLock will take
  dispatch_lock,  \* holders of _usersim_dispatch_locks: a thread, a DPC thread
                  \* (named by its processor), or NoOne
  spin            \* holders of spin locks

affinityVars == <<cpu, affinity, cache, before_raise, wanted>>
priorityVars == <<priority, priority_before>>
lockVars == <<dispatch_lock, spin>>
vars == <<affinityVars, irql, priorityVars, pc, want, lockVars>>

Priorities == {"normal", "above_normal", "time_critical"}

TypeOK ==
  /\ cpu \in [Threads -> Cpus]
  /\ affinity \in [Threads -> SUBSET Cpus]
  /\ cache \in [Threads -> SUBSET Cpus]
  /\ before_raise \in [Threads -> SUBSET Cpus]
  /\ wanted \in [Threads -> SUBSET Cpus]
  /\ irql \in [Threads -> Levels]
  /\ priority \in [Threads -> Priorities]
  /\ priority_before \in [Threads -> Priorities]
  /\ pc \in [Threads -> {"running", "locking", "spinning", "lowering"}]
  /\ want \in [Threads -> SpinLocks \cup {NoLock}]
  /\ dispatch_lock \in [Cpus -> Threads \cup Cpus \cup {NoOne}]
  /\ spin \in [SpinLocks -> Threads \cup Cpus \cup {NoOne}]

Init ==
  /\ cpu \in [Threads -> Cpus]
  /\ affinity = [t \in Threads |-> Cpus]
  /\ cache = [t \in Threads |-> {}]
  /\ before_raise = [t \in Threads |-> {}]
  /\ wanted = [t \in Threads |-> {}]
  /\ irql = [t \in Threads |-> PASSIVE_LEVEL]
  /\ priority = [t \in Threads |-> "normal"]
  /\ priority_before = [t \in Threads |-> "normal"]
  /\ pc = [t \in Threads |-> "running"]
  /\ want = [t \in Threads |-> NoLock]
  /\ dispatch_lock = [p \in Cpus |-> NoOne]
  /\ spin = [l \in SpinLocks |-> NoOne]

\* The processors a mask allows; no override means those of the process.
Allowed(mask) == IF mask = {} THEN Cpus ELSE mask

\* usersim_set_current_thread_affinity: nothing happens if the cache has the
\* mask already; otherwise the operating system moves the thread at once.
SetCurrentThreadAffinity(t, mask) ==
  IF mask = cache[t]
  THEN UNCHANGED <<cpu, affinity, cache>>
  ELSE /\ affinity' = [affinity EXCEPT ![t] = Allowed(mask)]
       /\ cache' = [cache EXCEPT ![t] = mask]
       /\ IF cpu[t] \in Allowed(mask)
          THEN UNCHANGED cpu
          ELSE \E p \in Allowed(mask) : cpu' = [cpu EXCEPT ![t] = p]

\* _get_irql_thread_priority.
IrqlThreadPriority(level) ==
  CASE level = PASSIVE_LEVEL -> "normal"
    [] level = APC_LEVEL -> "above_normal"
    [] level = DISPATCH_LEVEL -> "time_critical"

\* _set_current_thread_priority_by_irql, called when _usersim_current_irql is
\* current.
SetPriorityByIrql(t, current, level) ==
  IF current = level THEN UNCHANGED priorityVars
  ELSE IF level >= DISPATCH_LEVEL
  THEN /\ priority' = [priority EXCEPT ![t] = IrqlThreadPriority(level)]
       /\ priority_before' = [priority_before EXCEPT ![t] = priority[t]]
  ELSE /\ priority' = [priority EXCEPT ![t] = priority_before[t]]
       /\ UNCHANGED priority_before

\* The operating system moves a thread to another processor.
Migrate(t) ==
  /\ \E p \in affinity[t] \ {cpu[t]} : cpu' = [cpu EXCEPT ![t] = p]
  /\ UNCHANGED <<affinity, cache, before_raise, wanted, irql, priorityVars, pc, want, lockVars>>

\* KeSetSystemAffinityThreadEx, KeRevertToUserAffinityThreadEx.
KeSetSystemAffinityThreadEx(t, mask) ==
  /\ pc[t] = "running"
  /\ irql[t] >= DISPATCH_LEVEL => t \in AffinityAtDispatch
  /\ wanted' = [wanted EXCEPT ![t] = mask]
  /\ IF irql[t] >= DISPATCH_LEVEL
     THEN /\ cache' = [cache EXCEPT ![t] = mask]
          /\ before_raise' = [before_raise EXCEPT ![t] = mask]
          /\ UNCHANGED <<cpu, affinity>>
     ELSE SetCurrentThreadAffinity(t, mask) /\ UNCHANGED before_raise
  /\ UNCHANGED <<irql, priorityVars, pc, want, lockVars>>

\* Mutant of Pin: the thread does not pin itself.
PinNot(t) ==
  /\ before_raise' = [before_raise EXCEPT ![t] = cache[t]]
  /\ UNCHANGED <<cpu, affinity, cache, wanted>>

\* A thread that enters DISPATCH_LEVEL pins itself to its processor.
Pin(t) ==
  /\ SetCurrentThreadAffinity(t, {cpu[t]})
  /\ before_raise' = [before_raise EXCEPT ![t] = cache[t]]
  /\ UNCHANGED wanted

\* KfRaiseIrql up to the dispatch lock.  The level is assigned before the
\* priority is computed from it.
RaiseTo(t, level) ==
  /\ irql' = [irql EXCEPT ![t] = level]
  /\ SetPriorityByIrql(t, level, level)
  /\ IF level >= DISPATCH_LEVEL /\ irql[t] < DISPATCH_LEVEL
     THEN Pin(t) /\ pc' = [pc EXCEPT ![t] = "locking"]
     ELSE UNCHANGED affinityVars /\ pc' = [pc EXCEPT ![t] = IF want'[t] = NoLock THEN "running" ELSE "spinning"]
  /\ UNCHANGED lockVars

KeRaiseIrql(t, level) ==
  /\ pc[t] = "running"
  /\ level >= irql[t]
  /\ UNCHANGED want
  /\ RaiseTo(t, level)

\* Mutant of KeAcquireSpinLock: the spin lock is taken before the level is
\* raised.
KeAcquireSpinLockThenRaise(t, l) ==
  /\ pc[t] = "running"
  /\ spin[l] = NoOne
  /\ spin' = [spin EXCEPT ![l] = t]
  /\ irql' = [irql EXCEPT ![t] = DISPATCH_LEVEL]
  /\ IF irql[t] < DISPATCH_LEVEL
     THEN Pin(t) /\ pc' = [pc EXCEPT ![t] = "locking"]
     ELSE UNCHANGED <<affinityVars, pc>>
  /\ UNCHANGED <<priorityVars, want, dispatch_lock>>

\* KeAcquireSpinLock, KeAcquireSpinLockRaiseToDpc and, at DISPATCH_LEVEL,
\* KeAcquireSpinLockAtDpcLevel; a thread does not acquire a lock it holds.
KeAcquireSpinLock(t, l) ==
  /\ pc[t] = "running"
  /\ spin[l] # t
  /\ want' = [want EXCEPT ![t] = l]
  /\ RaiseTo(t, DISPATCH_LEVEL)

\* The thread takes the dispatch lock; KfRaiseIrql returns.
LockDispatch(t) ==
  /\ pc[t] = "locking"
  /\ dispatch_lock[cpu[t]] = NoOne
  /\ dispatch_lock' = [dispatch_lock EXCEPT ![cpu[t]] = t]
  /\ pc' = [pc EXCEPT ![t] = IF want[t] = NoLock THEN "running" ELSE "spinning"]
  /\ UNCHANGED <<affinityVars, irql, priorityVars, want, spin>>

\* The thread takes the spin lock.
LockSpin(t) ==
  /\ pc[t] = "spinning"
  /\ spin[want[t]] = NoOne
  /\ spin' = [spin EXCEPT ![want[t]] = t]
  /\ want' = [want EXCEPT ![t] = NoLock]
  /\ pc' = [pc EXCEPT ![t] = "running"]
  /\ UNCHANGED <<affinityVars, irql, priorityVars, dispatch_lock>>

\* Mutant of KeLowerIrql: the affinity is not restored.
KeLowerIrqlStaysPinned(t, level) ==
  /\ pc[t] \in {"running", "lowering"}
  /\ level <= irql[t]
  /\ level < DISPATCH_LEVEL => \A l \in SpinLocks : spin[l] # t
  /\ IF irql[t] >= DISPATCH_LEVEL /\ level < DISPATCH_LEVEL
     THEN dispatch_lock' = [dispatch_lock EXCEPT ![cpu[t]] = NoOne]
     ELSE UNCHANGED dispatch_lock
  /\ irql' = [irql EXCEPT ![t] = level]
  /\ SetPriorityByIrql(t, level, level)
  /\ pc' = [pc EXCEPT ![t] = "running"]
  /\ UNCHANGED <<affinityVars, want, spin>>

\* KeLowerIrql: the dispatch lock of the current processor is released, the
\* affinity restored, and the level assigned.  Spin locks are released first.
KeLowerIrql(t, level) ==
  /\ pc[t] \in {"running", "lowering"}
  /\ level <= irql[t]
  /\ level < DISPATCH_LEVEL => \A l \in SpinLocks : spin[l] # t
  /\ IF irql[t] >= DISPATCH_LEVEL /\ level < DISPATCH_LEVEL
     THEN /\ dispatch_lock' = [dispatch_lock EXCEPT ![cpu[t]] = NoOne]
          /\ SetCurrentThreadAffinity(t, before_raise[t])
          /\ UNCHANGED <<before_raise, wanted>>
     ELSE UNCHANGED <<affinityVars, dispatch_lock>>
  /\ irql' = [irql EXCEPT ![t] = level]
  /\ SetPriorityByIrql(t, level, level)
  /\ pc' = [pc EXCEPT ![t] = "running"]
  /\ UNCHANGED <<want, spin>>

\* ReleaseSRWLockExclusive of a lock that the thread holds.
Unspin(t, l) ==
  /\ pc[t] = "running"
  /\ spin[l] = t
  /\ spin' = [spin EXCEPT ![l] = NoOne]
  /\ UNCHANGED <<affinityVars, irql, priorityVars, want, dispatch_lock>>

KeReleaseSpinLockFromDpcLevel(t, l) ==
  /\ Unspin(t, l)
  /\ UNCHANGED pc

\* KeReleaseSpinLock; all the thread does next is KeLowerIrql.
KeReleaseSpinLock(t, l) ==
  /\ Unspin(t, l)
  /\ pc' = [pc EXCEPT ![t] = "lowering"]

\* Mutant of StartDpc: the dispatch lock is not awaited.
StartDpcAnyway(p) ==
  /\ dispatch_lock[p] # p
  /\ dispatch_lock' = [dispatch_lock EXCEPT ![p] = p]
  /\ UNCHANGED <<affinityVars, irql, priorityVars, pc, want, spin>>

\* The DPC thread of p takes the dispatch lock and calls a routine.
StartDpc(p) ==
  /\ dispatch_lock[p] = NoOne
  /\ dispatch_lock' = [dispatch_lock EXCEPT ![p] = p]
  /\ UNCHANGED <<affinityVars, irql, priorityVars, pc, want, spin>>

\* A DPC routine takes and releases spin locks at DISPATCH_LEVEL.
DpcSpin(p, l) ==
  /\ dispatch_lock[p] = p
  /\ spin[l] \in {NoOne, p}
  /\ spin' = [spin EXCEPT ![l] = IF @ = p THEN NoOne ELSE p]
  /\ UNCHANGED <<affinityVars, irql, priorityVars, pc, want, dispatch_lock>>

\* The routine returns and the DPC thread releases the dispatch lock.
FinishDpc(p) ==
  /\ dispatch_lock[p] = p
  /\ \A l \in SpinLocks : spin[l] # p
  /\ dispatch_lock' = [dispatch_lock EXCEPT ![p] = NoOne]
  /\ UNCHANGED <<affinityVars, irql, priorityVars, pc, want, spin>>

Next ==
  \/ \E t \in Threads :
       \/ Migrate(t) \/ LockDispatch(t) \/ LockSpin(t)
       \/ \E mask \in Masks : KeSetSystemAffinityThreadEx(t, mask)
       \/ \E level \in Levels : KeRaiseIrql(t, level) \/ KeLowerIrql(t, level)
       \/ \E l \in SpinLocks : KeAcquireSpinLock(t, l) \/ KeReleaseSpinLock(t, l)
                                 \/ KeReleaseSpinLockFromDpcLevel(t, l)
  \/ \E p \in Cpus :
       \/ StartDpc(p) \/ FinishDpc(p)
       \/ \E l \in SpinLocks : DpcSpin(p, l)

Spec == Init /\ [][Next]_vars

----------------------------------------------------------------------------
(* Properties.                                                             *)

\* The thread runs at DISPATCH_LEVEL: KfRaiseIrql has returned.
AtDispatch(t) == irql[t] >= DISPATCH_LEVEL /\ pc[t] # "locking"

\* On one processor at most one thread runs at DISPATCH_LEVEL or a DPC routine
\* runs, never both, and the lock that KeLowerIrql is going to release is the
\* one the thread took: threads at DISPATCH_LEVEL do not migrate.
DispatchExclusion ==
  \A t \in Threads : AtDispatch(t) => dispatch_lock[cpu[t]] = t

\* The thread has the affinity it asked for, in the cache and in the operating
\* system.
AffinityAsWanted(t) == cache[t] = wanted[t] /\ affinity[t] = Allowed(wanted[t])

\* Lowering the level gives a thread that sets its affinity below
\* DISPATCH_LEVEL only the affinity back that it asked for.
AffinityRestored ==
  \A t \in Threads \ AffinityAtDispatch : irql[t] < DISPATCH_LEVEL => AffinityAsWanted(t)

\* Nobody waits for somebody who waits for them: the holder of a spin lock
\* never waits for a dispatch lock, because the level is raised first.
NoCircularWait ==
  \A l \in SpinLocks :
    /\ spin[l] \in Threads => AtDispatch(spin[l])
    /\ spin[l] \in Cpus => dispatch_lock[spin[l]] = spin[l]

\* The inductive invariant: a thread that is entering or at DISPATCH_LEVEL may
\* run on its processor only, even when the cache has been told otherwise, and
\* only a thread at DISPATCH_LEVEL, or a DPC thread, holds a dispatch lock.
IInv ==
  /\ TypeOK
  /\ \A t \in Threads :
       /\ cpu[t] \in affinity[t]
       /\ irql[t] >= DISPATCH_LEVEL => affinity[t] = {cpu[t]}
       /\ affinity[t] = Allowed(cache[t]) \/ affinity[t] = {cpu[t]}
       /\ pc[t] # "running" => irql[t] >= DISPATCH_LEVEL
       /\ pc[t] \in {"running", "lowering"} => want[t] = NoLock
       /\ pc[t] = "spinning" => want[t] \in SpinLocks
       /\ AtDispatch(t) => dispatch_lock[cpu[t]] = t
       /\ \A p \in Cpus : dispatch_lock[p] = t => cpu[t] = p /\ AtDispatch(t)
  /\ \A p, q \in Cpus : dispatch_lock[p] = q => p = q
  /\ NoCircularWait
  /\ AffinityRestored
  /\ \A t \in Threads \ AffinityAtDispatch : irql[t] >= DISPATCH_LEVEL =>
       before_raise[t] = wanted[t] /\ cache[t] = {cpu[t]}
=============================================================================
