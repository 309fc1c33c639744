# A TLA+ verification of usersim

usersim runs Windows kernel drivers in user mode: it implements the kernel
functions a driver calls (`Ke*`, `Ex*`, `Nmr*`, `Fwp*`, `Wdf*`, ...) on top of
Win32 threads, thread pools and locks. Its tests call those functions one after
the other. What they hardly reach are the interleavings: two modules
registering or deregistering at once, a completion that overtakes the call it
completes, a DPC that races with its removal. This directory models the parts
of usersim where such orders matter, checks them with TLC on small instances,
and proves the most important facts with TLAPS for every instance.

## The system and its parts

| part | source | modules | run | proofs |
|---|---|---|---|---|
| Network Module Registrar | `nmr_impl.*`, `nmr_um.cpp` | `Nmr`, `NmrInvariant` | `nmr`, `nmr_live` | `NmrProofs` |
| Rundown protection | `rundown_winuser.cpp`, `ex.cpp` | `Rundown`, `RundownClients`, `RundownProtection` | `rundown` | `CxplatProofs` |
| Work items | `workitem_winuser.cpp`, `io.cpp` | `WorkItem` | `workitem` | `CxplatProofs` |
| Emulated DPCs | `ke.cpp` 625-835, `framework.h` | `DpcQueue`, `DpcFifo` | `dpc_queue`, `dpc_two_flushes` | `DpcQueueProofs` |
| IRQL, spin locks, affinity | `ke.cpp` 22-414 | `Irql` | `irql` | `ThreadsProofs` |
| Events, semaphores, timers | `ke.cpp` 425-531, 838-1074 | `Waits`, `Timer`, `Dispatcher` | `dispatcher` | `ObjectsProofs` |
| Filtering platform | `fwp_um.cpp`, `fwp_um.h`, `fwp_test.h` | `Fwp` | `fwp` | `FwpProofs` |
| Memory, leak detector, fault injection | `memory_winuser.cpp`, `leak_detector.cpp`, `fault_injection.cpp` | `FaultInjection`, `Memory` | `memory` | `CxplatProofs` |
| Library, platform, driver framework, driver DLL, sample | `cxplat_winuser.cpp`, `platform_user.cpp`, `dllmain.cpp`, `wdf.cpp`, `dll_skeleton.cpp`, `sample/driver.c` | `Cxplat`, `Platform`, `Wdf`, `DriverHost` | `driver` | `DriverHostProofs` |
| Pool, descriptors, net buffers | `ex.cpp`, `io.cpp`, `mm.cpp`, `ndis_um.cpp`, `fwp_um.cpp` | `Packets` | `resources` | `ResourcesProofs` |
| Access checks, tokens, ring buffers, keys, strings | `se.cpp`, `platform_user.cpp`, `zw.cpp`, `etw.cpp`, `module_winuser.cpp`, `memory.c` | `Calls` | `resources` | `ThreadsProofs` |
| Object references, process notification, processor numbers | `ob.cpp`, `ps.cpp`, `platform_user.cpp`, `processor_winuser.cpp` | `Handles` | `resources` | `ObjectsProofs` |

How they interact: `usersim_platform_initiate` brings up cxplat (processors,
thread pool of the work items, leak detector, fault injection), the dispatch
locks, and one DPC thread per processor. A timer inserts a DPC; a DPC and a
thread at `DISPATCH_LEVEL` exclude each other through the dispatch lock of their
processor; an event takes a spin lock, which raises the level. Work items hold a
rundown reference that the termination waits for. The registrar, the driver
framework and the filtering platform are self-contained state machines that
call back into the driver under test. Everything allocates through cxplat, which
asks fault injection first.

Compositions: `WorkItem` is work items over the rundown table, `Dispatcher` events
and semaphores with the timers that set them, `Memory` the allocator over fault
injection, `DriverHost` driver DLLs over the framework over the platform over the
library. `Resources` puts three parts that share no state into one run.

`MC*` modules only give values to constants. The hazards of all these parts are
listed, with their source lines, in `PROJECT.json`. An assertion of the code is
the guard of the step it stands in, or stops the process (`process`, `bugcheck`),
as each module says. A failure the environment may cause (no memory, a refused
call) is a nondeterministic outcome of its step.

## Nmr: the registrar

`nmr_t` keeps three maps under one lock: providers, clients and bindings. A
registration is created (`add`) and bound to every registration of the other
kind with the same interface (`perform_bind`), in two critical sections; the
attach callbacks run without the lock. A deregistration marks the registration
(`deactivate`), snapshots its bindings (`perform_unbind`), detaches each
(`begin_unbind`, whose two critical sections surround the detach callbacks), and
erases the registration when its `binding_count` is zero, waiting for that on a
condition variable if necessary (`remove`). A module whose detach callback
returned `STATUS_PENDING` later calls `binding_detach_*_complete`.

State and actions of `Nmr.tla`:

* `registered`, `deregistering`, `binding_count`, `bindings`, the two statuses
  and the two contexts (null or not) are the members of `nmr_t`, of its
  registrations and of its bindings, under the code's names.
* Each registration has one thread, with its position `pc` and the locals that
  survive a critical section: the list it works through (`todo`), the binding
  whose callback it is in (`cur`), `pending`, and which detach callbacks
  returned `STATUS_PENDING` to it (`detach_pending`).
* `owed` and `finishing` are the threads of the modules that complete a pending
  detach: before the completion call, and between its critical section and
  `unbind_complete`.
* `client_cleanups`, `provider_cleanups` count calls of the cleanup callbacks,
  and `process` says whether an assertion or an exception stopped the process.
  These three are history variables: no action of the code reads them except to
  stop.
* One action is one critical section, or a callback outside the lock together
  with the critical section next to it where nothing another thread changes lies
  between. `ThreadStep` and `CompletionStep` group the actions by thread.

Abstractions: a handle is never reused, so a module that registers again is
another element of `Clients` or `Providers`; `perform_bind` runs once per
registration, so a binding is the pair of its initiator and its target; the order
in which a thread works through its list is free (in the code it is the order of
the map, and every order is possible for suitable handles). The failing
allocation that makes a registration return `STATUS_NO_MEMORY` is not modelled:
fault injection returns before any state changes.

### Runs

| run | instance | shows |
|---|---|---|
| `nmr` | one client, two providers: one detaches asynchronously, one has no context and may refuse to attach; assertions on | contexts are cleaned up once, nothing refers to an erased registration |
| `nmr_live` | one client that detaches asynchronously, one provider, both may refuse; assertions off, so that completions may come early; everyone deregisters | no status goes backwards, every deregistration ends |

The bounds are the sets of registrations. With one client and one provider both
of the bindings they can have (one per initiator) exist, both sides race to
detach each of them, and every callback outcome occurs; two providers add a
module whose registration and deregistration interleave with a second binding of
the same client. The theorems below cover larger sets.

Safety properties checked by the runs: `NoDanglingRegistration` (nothing refers to
an erased registration), `ContextsCleanedOnce`, `StatusNeverRegresses`. Proved
only, for every instance: `CountsExact` (the count `remove` waits on is the number
of bindings), `CompletionFindsBinding` (a completion never meets an unknown
handle), `OneDetacher` (of two racing deregistrations one runs the callbacks),
`BlocksOnlyIfPending` (a deregistration that reports success does not block).

Fairness: `ServiceSpec` assumes weak fairness of every thread and of every
completion that is owed: threads are scheduled by the operating system, callbacks
return, and NMR's contract obliges a module that answered `STATUS_PENDING` to
complete. `FairSpec` adds that registered modules deregister. Under `FairSpec`
`DeregistrationCompletes` holds; under `ServiceSpec` alone it does not.

### Where the code does less than one might expect

* `begin_unbind` takes any status other than `Ready` for "Unbind already
  started". A binding whose attach is still running in the other module's thread
  is therefore skipped, becomes `Ready` afterwards, and keeps the deregistration
  waiting until the other module deregisters: this is why `nmr_live` needs the
  fairness of `FairSpec`.
* `add` and `perform_bind` take the lock separately, so a client and a provider
  that register at the same time each bind the other. The attach callbacks of
  `tests/nmr_test.cpp` verify that they are not already bound. The model has both
  bindings, and the properties hold with them.
* With assertions off, two early completions of one binding let both the second
  completion and `begin_unbind` call `unbind_complete`, and `ContextsCleanedOnce`
  fails: hence `SafeInstance` below. With assertions on, the completion functions
  assert `UnbindPending`, although the comment in `begin_unbind` says that a
  completion may come before that status is set; `process` then becomes
  `detach_assert`.

### Proofs

`NmrInvariant` states the inductive invariant `IInv`; `NmrProofs` proves that
`Init` implies it and that every action preserves it, one lemma per action, and
derives from it, for every finite set of clients and providers, the theorems `Invariance`, `CountsAlwaysExact`,
`NeverDangling`, `CleanedExactlyOnce`, `CompletionsFindBinding`,
`AtMostOneDetacher`, `BlocksOnlyWhenPending` and `StatusesNeverRegress`.

Assumptions: `ModulesAssumption` (finite, disjoint sets; the constants are
subsets of the modules) and `SafeInstance`: either assertions are enabled, or at
most one side of any binding detaches asynchronously. The second is necessary, as
said above.

The properties are not inductive by themselves. That `unbind_complete` runs once
per binding needs to know who may call it, which depends on the statuses, on the
completions still owed and on the threads inside `begin_unbind`. `IInv` therefore
describes the phases of a binding: not created (`FreshInv`); being attached by
its initiator (`AttachInv`); `Ready`; being detached by exactly one thread, with
what early completions have done to it meanwhile (`DetachInv`, `PhaseInv`,
`OneDetacher`); waiting for completions (`OwedInv`); about to be completed by
exactly one party (`FinishInv`); gone (`AbsentInv`). In each phase exactly one
party can move the binding on, which gives the counts and the cleanups.
`SnapshotInv` carries the argument for `BlocksOnlyIfPending`: a deregistering
thread that has met nothing pending still holds every binding that refers to it.

Only model-checked: the liveness property, and everything about instances that
are not safe in the above sense.

## Rundown: rundown protection

`_rundown_ref_table` is a map from addresses to a flag and a count, under one
mutex, with one condition variable for all entries. `Rundown.tla` has one operator
per critical section of its methods and per outcome of the wait; the variables
are the map (`table`), the entry a thread waits for (`waiting_for`), and the
threads that the condition variable has woken (`awake`). Wake-ups may be spurious.

`RundownClients` adds threads that follow the protocol of the API: a user
releases what it acquired, the owner initialises a reference nobody uses and
reinitialises it after a wait. `holders` and `down` are history variables.
`RundownProtection` is what users rely on, without table, counts and condition
variable; `ImplementsProtection` is the refinement, with the phase of a reference
computed from its entry.

| run | instance | shows |
|---|---|---|
| `rundown` | two references, two users, two waiters | the refinement, no lost wake-up, every wait returns |

Two references and two waiters are needed for a waiter to be woken on behalf of
another entry, two users for a release that is not the last. Fairness: users
leave the sections they entered, and woken threads run.

`CxplatProofs` proves `Invariance`, `CountAlwaysExact`, `DownIsSafe`,
`WakeupsNeverLost` and `Refinement` for all sets of references, users and waiters
(users finite). `IInv` adds to the properties that a waiter's entry exists and is
flagged, so that it can only drain, and that only waiting threads are awake.

## WorkItem: preemptible work items

Every queued item holds a reference on one rundown reference, released by the
pool's only thread after the routine. `WorkItem.tla` extends `Rundown`, so that
its actions contain the table's critical sections. The callback is four steps
(`Call`, `Run`, `RoutineReturns`, `Return`), because drivers free items inside the
routine and waits overlap it. `pending` is the pool's queue; `waited` records
that a wait has returned; a driver frees an item when it is not queued, or any
item after a wait. `AssertsEnabled` tells a debug build from a release build,
`LateQueue` whether drivers queue items after a wait has started.

| run | instance | shows |
|---|---|---|
| `workitem` | three items, two waiters, assertions on, items queued at any time | waits cover every item and end, no freed item is read |

An item queued after a wait has started finds its reference refused, which only an
assertion notices: in this run it stops the process. In a build without assertions
the item is submitted all the same; it runs although the wait has returned, and
the release of the reference it does not have throws (`ReleaseThrows`). The header
`cxplat_workitem.h` says that an item is freed after its execution; the code does
not, and in the model, too, an item stays allocated until a driver frees it.

Fairness: the pool's thread runs and routines return; woken threads run.
`CxplatProofs` proves `PoolInvariance`, `ReferencesAlwaysExact`, `WaitIsComplete` and
`ItemsAliveWhenCalled` for any number of items and waiters under `SafeUse`
(assertions on, or nothing queued late). `PoolInv` ties the pool's state to the entry
in the table: a wait in progress or over has set the flag, so that no reference can be
added. `PoolWaitEnds`, that waits end, is only model-checked.

## DpcQueue: emulated DPCs

One queue: an intrusive circular list of DPCs and of one marker per queue, a
mutex, a condition variable, and a thread that takes the first entry, releases
the mutex, takes the dispatch lock of its processor, and calls the routine. The
links are modelled (`Flink`, `Blink`), since the code decides by them whether a DPC
is queued. `credit`, `before` and `list` are history variables: insertions accepted and
not finished, which of them are older than a flush, and the entries in the order in
which they were linked. No step reads them; `ListWellFormed` says that the links are
those of `list` and that an entry is linked to itself exactly when it is not on it.
`DpcFifo` is the abstract queue, of which `list` with the arguments is the state
(`Queue`). `Overlapping` says whether two threads may flush at the same time.

| run | instance | shows |
|---|---|---|
| `dpc_queue` | two DPCs, two arguments, two flushers one after the other, one raise of the level, destruction | `QueueConsistent`: links well formed, every accepted insertion accounted for with its arguments, no lost wake-up; `ImplementsFifo`: a first-in, first-out queue; `FlushCovers`; `NobodyStuck`: queued DPCs run, flushers are woken, the thread exits |
| `dpc_two_flushes` | two flushers at the same time | a flush does not cover what was queued (violation) |

The second of two concurrent flushes initialises and links the queue's only marker
while it is linked, which cuts the list; without a DPC in the queue the same
sequence fails an assertion of the list insertion. With two DPCs and the marker
entries are removed from the head, the middle and the tail of the list. Spurious wake-ups are left out: `NoLostWakeup` says
that a sleeping thread's predicate is false, so that it would sleep again. The
destructor's unlock and notification are one step; a thread that takes the mutex
in between finds the flag. Users of the queue are gone when it is destroyed.
Fairness: the DPC thread runs, and threads lower the level they raised. Nothing is
assumed of the order in which a mutex is handed out, so that a flusher is shown to
be woken with its marker processed, not to get the mutex before the next flush.
Deadlock is not checked where a destroyed queue really stops.

`DpcQueueProofs` proves `AlwaysConsistent`, `FlushesCover` and `Refinement` for any
DPCs, arguments, flushers and number of raises, from `DpcAssumption` (the head, the
marker and the DPCs are different addresses) and under `SafeFlushes`: no two threads
flush at the same time, which the second run shows to be needed. First come lemmas about
the list operations of `framework.h`: if the links are those of a sequence, then
`InsertTail` leaves the links of the sequence with the entry appended, and
`RemoveEntry` those of the sequence without it. With them each action is one on
sequences. `IInv` adds three things to `QueueConsistent`. `MarkerInv`: the marker is queued only while a
flusher waits for it, and every insertion the flusher has to wait for is ahead of the
marker, or in the hands of the thread with the marker still queued; this gives
`FlushCovers`. `ThreadInv`: at which steps the thread has a DPC in its hands. And the assertions of the insertion never fail, since
the only marker is never linked twice. `NobodyStuck` is liveness and only
model-checked.

## Irql: levels, affinity, spin locks

A thread that enters `DISPATCH_LEVEL` pins itself to its processor and takes the
processor's dispatch lock, which the DPC thread takes around every routine.
`cache`, `before_raise`, `irql` and the priorities are the thread-local variables of
`ke.cpp`; `cpu` and `affinity` belong to the operating system, which migrates
threads at will within their affinity; `wanted`, the mask a thread last asked for,
is a history variable. A call is one step up to the lock it may block on. Reading
the processor number and pinning to it are one step, since a migration between
the two is undone by the pinning. Callers follow the level rules: they raise to a
level not below the current one, and release spin locks before they lower it.

| run | instance | shows |
|---|---|---|
| `irql` | two threads, two processors, one spin lock; one thread sets its affinity at any level, the other below `DISPATCH_LEVEL` | exclusion at `DISPATCH_LEVEL`, no spin lock held while waiting for a dispatch lock, the affinity of the second thread restored |

A thread that sets its affinity at `DISPATCH_LEVEL` stays pinned: the new mask goes
into the cache as well, and the restoring call, which compares with the cache,
does nothing. `tests/ke_test.cpp` says that such a change "does not take effect
until IRQL drops below DISPATCH_LEVEL"; it does not take effect then either, and
`AffinityRestored` leaves those threads out. The model also shows that the priority of a thread never changes: the level is assigned
before the function that compares with it is called (`SetPriorityByIrql`).

`ThreadsProofs` proves `Invariance`, `DispatchExcludes`, `NeverCircular` and, for the
threads that do not set their affinity at `DISPATCH_LEVEL`,
`AffinityAlwaysRestored`, for all sets of threads, processors and spin locks. Exclusion needs that the thread cannot move,
which the cache does not say; `IInv` therefore speaks of the real affinity, which is
a singleton from the raise on, and says which dispatch locks a thread holds.

## Waits, Timer, Dispatcher: events, semaphores, timers

`Waits` has the loop of `_wait_for_kevent` step by step: test the flag under the
spin lock, capture its value, sleep in `WaitOnAddress` unless the value has changed
(external; wake-ups may be spurious), test again, give up at the end time. A
semaphore is one of Win32; `KeReadStateSemaphore` takes a unit and gives it back in
two steps (`probe`). `Timer` has a `KTIMER`'s pointer to its pool timer, the pool's
timers (external: due, queued, running), the mutex, and `KeCancelTimer`, which
waits for callbacks with the mutex held. `Dispatcher` composes the two: the DPC of a
timer sets the event `Done`.

| run | instance | shows |
|---|---|---|
| `dispatcher` | two waiters, one thread that sets, one timer with one client, a semaphore of one unit | `OneInside`: one set of a synchronization event lets one thread through; `UnitsConserved`; `CancelIsFinal`: after a cancellation nothing of the timer is left; `WaitEnds`, `ExpiryReachesEvent`, `CancelReturns` |

Two waiters compete for one set and one unit; one watcher and one setter suffice
for the race of a set with a sleep. Time is not counted: a finite wait may expire
at any moment. Fairness: a thread inside a call goes on, the pool runs what is
queued, a DPC in the queue runs. `WaitEnds` is stated for an event that stays
signaled, since `WakeByAddressAll` promises nothing to a thread that comes after a
reset. Deadlock is not checked, because threads may stop making calls.

As the code has it, a wait for an event without a timeout can return
`STATUS_TIMEOUT`, although its comment says "nullptr for no timeout": the end time is
the largest 64-bit number, and what is left until then becomes a finite number of
milliseconds when it is cast to a `DWORD` (`EventExpires`). And a concurrent wait
with a zero timeout fails while `KeReadStateSemaphore` holds the only unit.

`ObjectsProofs` proves `CancelAlwaysFinal`, `AlwaysOneInside` and
`UnitsAlwaysConserved` for all sets of threads, timers and clients and every limit
of the semaphore, from `TimerAssumption` and `WaitsAssumption`; the run has one
client, so only the proof has clients that compete for the timers' mutex. Each rests
on an invariant of its own. `TimerInv` adds that a client inside a call holds the
mutex and that its timer is open, and no longer due while it is cancelled: without
it the clean-up could meet a timer another client has just set. `LockInv` says that
nobody is inside while the event is signaled. `UnitsInv` adds that a thread blocked
on the semaphore has room for a unit; the units are counted as a finite set of
pairs, to which a wait adds one and from which a release removes one.

## Fwp: the filtering platform

The tables of the engine under its lock, each call that changes them, and the
hooks on two threads. A section under the lock is one step; the callout's address
is taken inside it and its function called in a later step, which is where a
driver that unloads could get in between. `attached` and `owned` are the callouts'
own books: the filters they were notified of, and their flow contexts. The
connection request of a thread is what a redirecting callout changes; a port is a
value and whether its bytes are swapped, because the code swaps them.

| run | instance | shows |
|---|---|---|
| `fwp` | two threads, four callouts on four layers, a driver that loads, works, unloads and loads again | `CalloutValid`, `NotificationsExact`, `FlowContextsExact`, `RequestScoped`, `RedirectAuthorized` |

The driver deletes its filters before its callouts, and unregisters callouts only
while no call or hook is under way, as drivers must. Two threads do not remove the context of one flow at a
time (`Racing = FALSE`): `test_remove_flow_context` looks under a shared lock it
gives up before `delete_flow_context`, and the second of two removals fails the
assertion there. `_is_connection_redirected` says "Only check the port" and looks
at the address too, so that a callout that changes the port alone is not authorised
again; `RedirectAuthorized` speaks of both.

`FwpProofs` proves all five properties for every finite set of threads, every plan
of callouts and every list of sublayers, from `FwpAssumption`. `RequestsScoped`,
`RedirectsAuthorized` and `NotificationsAlwaysExact` need nothing else;
`CalloutsAlwaysValid` also assumes `~Racing`, as explained above.
`FlowContextsAlwaysExact` assumes `OneFlowCallout` besides: at most one callout is on
the layers that have flows. With a callout on each of the two,
`test_remove_flow_context` hands the contexts of the one to the other.

The invariants behind them: `TablesInv` says that the ids in the tables are below
`next_id`, that the callouts registered are a prefix of the plan, and that nothing
is added to the engine while a callout it needs is missing; `ThreadInv` says at
each step of a thread which callout, filter or request it carries. Without these a
lookup could find the wrong entry. `CalloutInv` says that whoever is about to call a
callout, and every flow context, names a registered one: a driver that unregisters
its callouts must have found the contexts gone and the threads idle. `NotifyInv`
balances the books of the callouts with the filters, the notifications under way
counted as finite sets of threads. `FlowInv` says that a flow in flight on a thread
is in no table and on no other thread, and that what the callouts own is what the
table holds together with what is going back to them.

## FaultInjection, Memory: the allocator and what watches it

`FaultInjection` fails every call path once and keeps the paths in a log that
outlives the process. A path is the sequence of the offsets of its frames in the
modules under test; `find_base_address` is translated with its lower bound, which
gives the module below an address that no module contains. `Memory` adds
`cxplat_allocate`, `cxplat_reallocate` and `cxplat_free` as the sequences of steps
they are: ask for a fault, call the heap, tell the leak detector. The heap is
external and reuses an address at once. `Crash` may come at any moment.

| run | instance | shows |
|---|---|---|
| `memory` | two threads, two addresses, two paths through one module | `DetectorExact`: the detector holds what the callers hold; `OneFaultPerPath`; `FaultsNotSkipped`, across crashes, restarts and resets |

With two threads and two addresses one thread is given the address the other is
just freeing. The exceptions are in the properties: a reallocation unregisters its
old block even when it fails, and does not write the new size into the header when
the block does not move; the path without frames is read out of every record's
empty line.

`CxplatProofs` proves all three for every set of threads, addresses, modules and
paths. `FaultsOncePerPath` and `FaultsNeverSkipped` rest on `FaultInv`: a
path that a caller saw fail is in the log and, while fault injection is on, in the
hash; a thread that is about to write a record has its path in the hash, undelivered,
and alone. The last part carries the argument, because the test of the hash and the
write of the log are separate steps.
`DetectorAlwaysExact` rests on `MemInv`, which says for each step of a call who has
the block (the caller, the heap or the call itself), so that two calls never have one
address at a time, even when the heap hands an address out again while the free of
its last owner is still telling the detector.

## Cxplat, Platform, Wdf, DriverHost: from the library to a driver

`cxplat_initialize` and `cxplat_cleanup` run under a mutex, so each is one step; how
far a failing start came is a prefix of its list of steps. The platform's calls
take no lock and are steps of a thread. `Wdf` has the one driver slot, the
initialisation structure and the devices. `DriverHost` has the two `DllMain`s, the
sample driver with its callbacks, a driver that makes its device itself, an external
loader, and clients that load a DLL, look up its device, send requests and free it.

| run | instance | shows |
|---|---|---|
| `driver` | two DLLs, two clients, two devices with one name, another user of the library | `LibraryFollowsUsers`: the library is up exactly while it has users; `LoadedDriverServes`: a loaded driver has the slot, its devices and a platform, and answers requests inside their buffers; `NothingLeftBehind`: every failed or finished load frees what it made |

One name for two devices makes the second creation of a device compete with the
first. Exceptions: the detach of a DLL that was refused the slot stops the driver
that has it (`usurped`). `DllMain` calls `usersim_platform_terminate` after a failed
`usersim_platform_initiate`, which has already terminated, while `platform.h` says
"The caller should only call this if usersim_platform_initiate() returned success";
the count then goes below zero and the process stops, which is a state of the model
(`bugcheck`).

`DriverHostProofs` proves `LibraryAlwaysFollowsUsers`, `LoadedDriversServe` and
`NothingEverLeftBehind` for all finite sets of threads and clients and any DLLs,
devices, names, sizes and bound on the holds, from `HostAssumption` and
`WdfAssumption` (the sets are finite where something is counted, `None` is none of
their elements, the loader is a thread). The three need one invariant, `HostInv`,
because what the framework owns depends on how far the loader is. `PlatInv` gives the
state of the platform at each step of the loader's calls, the second termination
after a failed attach included. `WdfInv` says that the devices alive are exactly those
on the list of the driver in the slot and that the structure belongs to the load under
way; `RefsInv` that the references of a DLL are its clients, except while it is
loaded or detached; `SlotInv` who may have the slot; `DevicesInv` that a client's device is on
the list of its driver. `LibInv` counts the users of the library as a finite set, to
which a hold adds one and from which a release removes one.

## Packets, Calls, Handles: what drivers take

`Packets` is a heap of blocks, each with the allocator it is from and the flags it
was allocated with: a block that goes to another allocator, or with other flags,
or twice, becomes `Corrupt`. A descriptor is its page, offset and count, as in the
code. `Calls` runs each call that takes several resources as its sequence of steps;
any step may be refused, and what is held is given back as the code does. `Handles`
has the counts and the one notify routine, and the three numberings of processors: the
loops that sum up the sizes of the groups when cxplat and the platform start are one
step per group (`AddGroupOffset`, `AddGroupIndex`), and drivers run when they are over
(`Started`).

| run | instance | shows |
|---|---|---|
| `resources` | two descriptors, lists and net buffers, a buffer over two pages; two callers; two drivers and two objects; machines of up to three groups of up to two processors | `HeapExact`, `WindowInside`, `CallsBalanced`, `AccountNamesWhole`, `ReferencesCounted`, `ProcessorsNumberedAlike` |

The parts share no state, so a behaviour exercises one of them (`focus`) and their
states add up. Two blocks of a kind make a list and its clone, or a descriptor and
a part of it; calls that share nothing are made by one thread (`Walker`). Page and
buffer are a few bytes long, enough for a part to begin on another page. Account names
have one or three characters and their buffers room for one or two (`AccountChars`,
`AccountSizes`), so that a name fits exactly, or not, or nothing does.
`ProcessorsNumberedAlike` compares the mappings with each other on all those
machines. Deadlock is not checked: a stopped process and a full heap are states in
which nothing more happens.

Exceptions in the properties: the net buffer of a clone is not freed with it
(`astray`); advancing the data start leaves the byte count; when a step of the ring
buffer after the split of its placeholder is refused, the function returns the
descriptor although `platform.h` says "NULL on failure".

All six properties are proved for every value of the constants. Each part has a
specification of its own (`PacketSpec`, `CallSpec`, `HandleSpec`), and
`PartsOfResources` shows that `Resources` implements the three, so that what is proved
of a part holds of the composition.

`ResourcesProofs` proves `HeapAlwaysExact` and `WindowsAlwaysInside`, from
`PacketsAssumption` (the kinds of blocks are disjoint, sizes are natural numbers).
`PacketInv` adds to the properties who gave the driver each block and from
which allocator with which flags that call takes it, because a release is right only if
the block has gone through the matching call; that a net buffer belongs to one list
only, so that freeing a list frees nothing of another; and that the net buffers in use
have their descriptor. For the windows it says of a descriptor's own numbers where its bytes are: a
part is inside because what it is a part of is.

`ThreadsProofs` proves `CallsAlwaysBalanced` and `AccountNamesAlwaysWhole`, from
`CallsAssumption`. `CallInv` says for each step of each call what it holds and
what it will answer (`Legal`), which is what the clean-up at the end of the function
relies on; the locks are counted as finite sets, to which a lock adds one element and
from which an unlock removes one. The lemmas about one step of a call (`TryInv`,
`CleanupInv`, ...) are shared by all calls.

`ObjectsProofs` proves `ReferencesAlwaysCounted`, from `ReferenceInv`, which adds only
the types, with the references as finite sets of pairs; and
`ProcessorsAlwaysNumberedAlike`, for any number of groups of any sizes. `ProcessorInv`
says of both loops that each entry so far is the number of processors in the groups
before, as the cardinality of a finite set, to which a round adds a group: a recursive
sum would need induction over data. That both tables count the same set makes the
libraries agree.

## What is proved, and what is only model-checked

Proved with TLAPS, for all values of the constants that satisfy the named
assumptions: the safety properties of the registrar, of rundown protection with its
refinement, of the work items, of levels and affinity, of events, semaphores and
timers, of the queue of DPCs with its refinement, of the filtering platform, of the
allocator with its leak detector and fault injection, of the library, the platform
and the driver framework, and of what drivers take (memory and descriptors, calls that
take several resources, references, processor numbers), each from an inductive
invariant. The proofs go action by action. A module of proofs covers one part of the
system or two (`ThreadsProofs`: levels, and the calls threads make; `ObjectsProofs`:
dispatcher objects, and references to objects; `CxplatProofs`: the parts of cxplat).

Only model-checked: all liveness properties, which are out of the prover's reach, and
instances outside the assumptions named above. The bounds of the runs are the sets in
the configurations, named where they are declared.

## Not modelled

* Bug check messages and trace records: formatting.
* The run-time library, clocks, checked arithmetic, queued spin locks, and what
  `ps.cpp` reads about the running process: calls of Win32 or of the compiler
  without state of their own.
* The kernel flavour of cxplat: wrappers of the real kernel.
* In the registrar, `std::bad_alloc` in `nmr_um.cpp` and callbacks that call back
  into it. Of the DPCs, several queues and changes of the target processor. Of the
  levels, the group affinity functions.
* In the filtering platform, opening and closing the engine, providers,
  transactions and packet injection, which keep no state.
* Concurrent calls of `ob.cpp` and of the counts of `ps.cpp`, which have no lock:
  the drivers of `Handles` call one at a time.
